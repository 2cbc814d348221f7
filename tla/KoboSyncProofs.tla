--------------------------- MODULE KoboSyncProofs ---------------------------
(***************************************************************************)
(* KoboSync, for every value of its constants: type correctness; a device  *)
(* has at most one half-sent snapshot; as long as the janitor does not run *)
(* no book leaves a device without a reason; where besides no answer is    *)
(* given up and nothing restarts, a device holds what it is credited with; *)
(* and where nothing goes wrong at all it holds nothing else.              *)
(***************************************************************************)
EXTENDS KoboSync, FiniteSetTheorems, TLAPS

(***************************************************************************)
(* A finite set of numbers has a largest one, and the n smallest elements  *)
(* of a set are at most n.                                                 *)
(***************************************************************************)
LEMMA MaxOfFiniteSet ==
  ASSUME NEW S \in SUBSET Nat, IsFiniteSet(S), S # {}
  PROVE  Max(S) \in S /\ \A i \in S : i <= Max(S)
<1> DEFINE Above(i) == {j \in S : j > i}
           T == {Above(i) : i \in S}
<1>1. T \subseteq FiniteSubsetsOf(S)
  <2>1. \A i \in S : Above(i) \in SUBSET S
    OBVIOUS
  <2>2. \A i \in S : IsFiniteSet(Above(i))
    BY <2>1, FS_Subset
  <2> QED
    BY <2>1, <2>2 DEF FiniteSubsetsOf
<1>2. PICK U \in T : \A V \in T : ~(<<V, U>> \in StrictSubsetOrdering(S))
  <2>1. T # {}
    OBVIOUS
  <2> HIDE DEF T
  <2> QED
    BY <1>1, <2>1, FS_StrictSubsetOrderingWellFounded, WFMin
<1>3. PICK m \in S : U = Above(m)
  BY <1>2
<1>4. \A i \in S : i <= m
  <2> SUFFICES ASSUME NEW i \in S, i > m PROVE FALSE
    OBVIOUS
  <2>1. Above(i) \subseteq Above(m)
    <3> SUFFICES ASSUME NEW k \in S, k > i PROVE k > m
      OBVIOUS
    <3> QED
      BY i \in Nat, m \in Nat, k \in Nat
  <2>2. i \in Above(m) /\ i \notin Above(i)
    BY i \in Nat
  <2>3. <<Above(i), Above(m)>> \in StrictSubsetOrdering(S)
    BY <2>1, <2>2 DEF StrictSubsetOrdering
  <2> QED
    BY <1>2, <1>3, <2>3
<1> QED
  BY <1>4 DEF Max

LEMMA SmallestAreFew ==
  ASSUME NEW S \in SUBSET Nat, IsFiniteSet(S), NEW n \in Nat
  PROVE  /\ Smallest(n, S) \in SUBSET S
         /\ IsFiniteSet(Smallest(n, S))
         /\ Cardinality(Smallest(n, S)) \in 0 .. n
<1> DEFINE P == Smallest(n, S)
           m == Max(P)
           Below == {j \in S : j < m}
<1>1. P \in SUBSET S /\ IsFiniteSet(P) /\ Cardinality(P) \in Nat
  BY FS_Subset, FS_CardinalityType DEF Smallest
<1>2. CASE P = {}
  BY <1>1, <1>2, FS_EmptySet
<1>3. CASE P # {}
  <2>1. m \in P /\ \A i \in P : i <= m
    <3>1. P \in SUBSET Nat
      BY <1>1
    <3> HIDE DEF P
    <3> QED
      BY <1>1, <1>3, <3>1, MaxOfFiniteSet
  <2>2. Cardinality(Below) < n
    BY <2>1 DEF Smallest
  <2>3. IsFiniteSet(Below) /\ Cardinality(Below) \in Nat
    BY FS_Subset, FS_CardinalityType
  <2>4. IsFiniteSet(Below \cup {m}) /\ Cardinality(Below \cup {m}) <= Cardinality(Below) + 1
                                    /\ Cardinality(Below \cup {m}) \in Nat
    <3> HIDE DEF Below, m
    <3>1. IsFiniteSet(Below \cup {m})
      BY <2>3, FS_AddElement
    <3>2. \/ Cardinality(Below \cup {m}) = Cardinality(Below)
          \/ Cardinality(Below \cup {m}) = Cardinality(Below) + 1
      BY <2>3, FS_AddElement
    <3> QED
      BY <2>3, <3>1, <3>2
  <2>5. P \in SUBSET (Below \cup {m})
    <3> SUFFICES ASSUME NEW i \in P PROVE i \in Below \cup {m}
      OBVIOUS
    <3>1. i \in S /\ i \in Nat /\ m \in Nat /\ i <= m
      BY <1>1, <2>1
    <3> QED
      BY <3>1
  <2>6. Cardinality(P) <= Cardinality(Below \cup {m})
    <3> HIDE DEF P, Below, m
    <3> QED
      BY <2>4, <2>5, FS_Subset
  <2> QED
    BY <1>1, <2>2, <2>3, <2>4, <2>6
<1> QED
  BY <1>2, <1>3

LEMMA SmallestIsNonempty ==
  ASSUME NEW S \in SUBSET Nat, IsFiniteSet(S), S # {}, NEW n \in Nat \ {0}
  PROVE  Smallest(n, S) # {}
<1> DEFINE Below(i) == {j \in S : j < i}
           T == {Below(i) : i \in S}
<1>1. T \subseteq FiniteSubsetsOf(S)
  <2>1. \A i \in S : Below(i) \in SUBSET S
    OBVIOUS
  <2>2. \A i \in S : IsFiniteSet(Below(i))
    BY <2>1, FS_Subset
  <2> QED
    BY <2>1, <2>2 DEF FiniteSubsetsOf
<1>2. PICK U \in T : \A V \in T : ~(<<V, U>> \in StrictSubsetOrdering(S))
  <2>1. T # {}
    OBVIOUS
  <2> HIDE DEF T
  <2> QED
    BY <1>1, <2>1, FS_StrictSubsetOrderingWellFounded, WFMin
<1>3. PICK m \in S : U = Below(m)
  BY <1>2
<1>4. Below(m) = {}
  <2> SUFFICES ASSUME NEW i \in S, i < m PROVE FALSE
    OBVIOUS
  <2>1. Below(i) \subseteq Below(m)
    <3> SUFFICES ASSUME NEW k \in S, k < i PROVE k < m
      OBVIOUS
    <3> QED
      BY i \in Nat, m \in Nat, k \in Nat
  <2>2. i \in Below(m) /\ i \notin Below(i)
    BY i \in Nat
  <2>3. <<Below(i), Below(m)>> \in StrictSubsetOrdering(S)
    BY <2>1, <2>2 DEF StrictSubsetOrdering
  <2> QED
    BY <1>2, <1>3, <2>3
<1>5. Cardinality(Below(m)) < n
  BY <1>4, FS_EmptySet
<1> QED
  BY <1>5 DEF Smallest

(* The values of a function on a finite set are finitely many. *)
LEMMA FiniteImage ==
  ASSUME NEW S, IsFiniteSet(S), NEW f, f = [x \in S |-> f[x]]
  PROVE  IsFiniteSet({f[x] : x \in S})
<1> DEFINE T == {f[x] : x \in S}
<1>1. f \in Surjection(S, T)
  BY DEF Surjection
<1> QED
  BY <1>1, FS_Surjection

(***************************************************************************)
(* Types of the library.                                                   *)
(***************************************************************************)
LEMMA LibraryInitType == LibraryInit => LibraryTypeOK
<1> SUFFICES ASSUME LibraryInit PROVE LibraryTypeOK
  OBVIOUS
<1> USE LibraryAssumption DEF LibraryInit
<1>1. book \in [Books -> BookRec]
  BY DEF BookRec
<1>2. row \in [Rows -> RowRec]
  BY DEF RowRec
<1>3. sharing \in [Sources -> SharingRec] /\ granting \in [Sources -> GrantingRec]
  BY DEF SharingRec, GrantingRec, NothingToGrant
<1>4. reading \in [Users -> [Books -> ReadingRec]]
  BY DEF ReadingRec, NeverRead
<1>5. tag \in [Tags -> TagRec]
  BY DEF TagRec
<1> QED
  BY <1>1, <1>2, <1>3, <1>4, <1>5 DEF LibraryTypeOK

LEMMA ResolvedType ==
  ASSUME NEW bk \in [Books -> BookRec], NEW rw, NEW en, NEW b \in Books, NEW changed \in BOOLEAN
  PROVE  Resolved(bk, rw, en, b, changed) \in BookRec
<1>1. bk[b] \in BookRec
  OBVIOUS
<1>2. [bk[b] EXCEPT !.available = FALSE, !.syncable = FALSE] \in BookRec
  BY <1>1 DEF BookRec
<1>3. ASSUME NEW n \in Nat
      PROVE  [bk[b] EXCEPT !.available = TRUE, !.syncable = ~bk[b].hidden, !.hashed = TRUE,
                           !.rev = n] \in BookRec
  BY <1>1 DEF BookRec
<1>4. bk[b].rev \in Nat /\ bk[b].rev + 1 \in Nat
  BY <1>1 DEF BookRec
<1> QED
  BY <1>1, <1>2, <1>3, <1>4 DEF Resolved

LEMMA ChangeType == ASSUME changes \in Nat, NEW kind, Change(kind) PROVE changes' \in Nat
BY DEF Change

LEMMA IngestType ==
  ASSUME LibraryTypeOK, NEW r \in Rows, Ingest(r)
  PROVE  LibraryTypeOK'
<1> USE DEF LibraryTypeOK
<1>1. changes' \in Nat
  BY ChangeType DEF Ingest
<1>2. PICK m \in Matches(r), b \in Books, changed \in BOOLEAN : AttachRow(r, m, b, changed)
  BY DEF Ingest
<1> DEFINE losers == m \ {b}
           merged == BooksAfterMerge(b, losers, m = {})
<1>3. m \subseteq Books
  BY DEF Matches, Roots
<1>4. row' \in [Rows -> RowRec]
  <2>1. row' = RowsAfterAttach(r, b, losers)
    BY <1>2 DEF AttachRow
  <2> QED
    BY <2>1 DEF RowsAfterAttach, RowRec
<1>5. merged \in [Books -> BookRec]
  <2> SUFFICES ASSUME NEW c \in Books PROVE merged[c] \in BookRec
    BY DEF BooksAfterMerge
  <2>1. book[c] \in BookRec
    OBVIOUS
  <2>2. [book[c] EXCEPT !.into = b, !.available = FALSE, !.syncable = FALSE] \in BookRec
    BY <2>1 DEF BookRec
  <2>3. [book[c] EXCEPT !.known = TRUE, !.rev = 1] \in BookRec
    BY <2>1 DEF BookRec
  <2> QED
    BY <2>1, <2>2, <2>3 DEF BooksAfterMerge
<1>6. book' \in [Books -> BookRec]
  <2>1. Resolved(merged, row', enabled, b, changed) \in BookRec
    <3> HIDE DEF merged
    <3> QED
      BY <1>5, ResolvedType
  <2>2. book' = [merged EXCEPT ![b] = Resolved(merged, row', enabled, b, changed)]
    BY <1>2 DEF AttachRow
  <2> HIDE DEF merged
  <2> QED
    BY <1>5, <2>1, <2>2
<1>7. reading' \in [Users -> [Books -> ReadingRec]]
  <2> SUFFICES ASSUME NEW u \in Users, NEW c \in Books
               PROVE  ReadingAfterMerge(b, losers)[u][c] \in ReadingRec
    BY <1>2 DEF AttachRow, ReadingAfterMerge
  <2>1. CASE c \in losers
    BY <2>1 DEF ReadingAfterMerge, ReadingRec, NeverRead
  <2>2. CASE c = b /\ \E l \in losers : reading[u][l].rev > reading[u][b].rev
    <3>1. (CHOOSE l \in losers : reading[u][l].rev > reading[u][b].rev) \in Books
      BY <1>3, <2>2
    <3> QED
      BY <2>2, <3>1 DEF ReadingAfterMerge
  <2> QED
    BY <2>1, <2>2 DEF ReadingAfterMerge
<1>8. tombs' \in [Devices -> SUBSET Books] /\ mayLose' \in [Devices -> SUBSET Books]
  BY <1>2, <1>3 DEF AttachRow, TombsAfterMerge
<1>9. /\ enabled' = enabled /\ sharing' = sharing /\ resolving' = resolving
      /\ granting' = granting /\ tag' = tag
  BY DEF Ingest
<1> QED
  BY <1>1, <1>4, <1>6, <1>7, <1>8, <1>9

LEMMA LibraryStepType == ASSUME LibraryTypeOK, LibraryStep PROVE LibraryTypeOK'
<1> USE DEF LibraryTypeOK
<1>1. ASSUME NEW r \in Rows, Ingest(r) PROVE LibraryTypeOK'
  BY <1>1, IngestType
<1>2. ASSUME NEW r \in Rows, Vanish(r) PROVE LibraryTypeOK'
  <2>1. row' \in [Rows -> RowRec]
    <3>1. row[r] \in RowRec /\ row' = [row EXCEPT ![r] = [row[r] EXCEPT !.missing = TRUE]]
      BY <1>2 DEF Vanish
    <3>2. [row[r] EXCEPT !.missing = TRUE] \in RowRec
      BY <3>1 DEF RowRec
    <3> QED
      BY <3>1, <3>2
  <2>2. book' \in [Books -> BookRec]
    BY <1>2, ResolvedType DEF Vanish
  <2> QED
    BY <1>2, <2>1, <2>2, ChangeType DEF Vanish
<1>3. ASSUME NEW b \in Books, SetBookHidden(b) PROVE LibraryTypeOK'
  <2>1. book' \in [Books -> BookRec]
    <3>1. PICK v : v = (book[b].available /\ book[b].hidden /\ book[b].hashed)
      OBVIOUS
    <3>2. book[b] \in BookRec /\ v \in BOOLEAN
      BY <3>1
    <3>3. book' = [book EXCEPT ![b] = [book[b] EXCEPT !.hidden = ~book[b].hidden, !.syncable = v]]
      BY <1>3, <3>1 DEF SetBookHidden
    <3>4. [book[b] EXCEPT !.hidden = ~book[b].hidden, !.syncable = v] \in BookRec
      BY <3>2 DEF BookRec
    <3> QED
      BY <3>3, <3>4
  <2> QED
    BY <1>3, <2>1, ChangeType DEF SetBookHidden
<1>4. ASSUME NEW s \in Sources, SetSourceEnabled(s) PROVE LibraryTypeOK'
  BY <1>4, ChangeType DEF SetSourceEnabled
<1>5. ASSUME NEW s \in Sources, ResolveSource(s) PROVE LibraryTypeOK'
  <2>1. book' \in [Books -> BookRec]
    <3>1. PICK changed \in SUBSET BooksTouchedBySource(s) :
            book' = [b \in Books |-> IF b \in BooksTouchedBySource(s)
                                     THEN Resolved(book, row, enabled, b, b \in changed)
                                     ELSE book[b]]
      BY <1>5 DEF ResolveSource
    <3>2. \A b \in Books : Resolved(book, row, enabled, b, b \in changed) \in BookRec
      BY ResolvedType, \A b \in Books : (b \in changed) \in BOOLEAN
    <3> QED
      BY <3>1, <3>2
  <2> QED
    BY <1>5, <2>1 DEF ResolveSource
<1>6. ASSUME NEW s \in Sources, ClearSourceACL(s) PROVE LibraryTypeOK'
  BY <1>6 DEF ClearSourceACL, SharingRec, GrantingRec
<1>7. ASSUME NEW s \in Sources, NEW u \in Users, GrantSource(s, u) PROVE LibraryTypeOK'
  BY <1>7 DEF GrantSource, SharingRec, GrantingRec
<1>8. ASSUME NEW s \in Sources, NEW all \in BOOLEAN, NEW users \in SUBSET Users,
             SetSourceSharing(s, all, users)
      PROVE  LibraryTypeOK'
  <2>1. sharing' \in [Sources -> SharingRec]
    BY <1>8 DEF SetSourceSharing, SharingRec
  <2>2. granting' \in [Sources -> GrantingRec]
    BY <1>8 DEF SetSourceSharing, GrantingRec
  <2> QED
    BY <1>8, <2>1, <2>2, ChangeType DEF SetSourceSharing
<1>9. ASSUME NEW t \in Tags, CreateTag(t) \/ TouchTag(t) \/ DeleteTag(t) PROVE LibraryTypeOK'
  <2>1. tag' \in [Tags -> TagRec]
    <3>1. tag[t] \in TagRec /\ tag[t].rev + 1 \in Nat
      BY DEF TagRec
    <3>2. /\ [tag[t] EXCEPT !.rev = tag[t].rev + 1] \in TagRec
          /\ \A live \in BOOLEAN : [live |-> live, rev |-> tag[t].rev + 1] \in TagRec
      BY <3>1 DEF TagRec
    <3> QED
      BY <1>9, <3>2 DEF CreateTag, TouchTag, DeleteTag
  <2> QED
    BY <1>9, <2>1, ChangeType DEF CreateTag, TouchTag, DeleteTag
<1> QED
  BY <1>1, <1>2, <1>3, <1>4, <1>5, <1>6, <1>7, <1>8, <1>9 DEF LibraryStep

(***************************************************************************)
(* Types of a sync.  A drain never steps past the last category because    *)
(* only half-sent snapshots are drained, and their cursor is short of it.  *)
(***************************************************************************)
FiniteItems ==
  \A d \in Devices : IsFiniteSet(handler[d].items) /\ IsFiniteSet(outbox[d].items)

HandlerInRange(h) ==
  /\ h.pc \in {"drain", "save"} => h.cat < CatDone
  /\ h.pc = "drain" => h.budget > 0

CursorInRange ==
  /\ \A d \in Devices : HandlerInRange(handler[d])
  /\ \A p \in Points : point[p].state = "ongoing" => point[p].cat < CatDone

TypeInv == TypeOK /\ FiniteItems /\ CursorInRange

USE DEF CatNewBooks, CatChangedBooks, CatRemovedBooks, CatReadingStates, CatNewTags,
        CatChangedTags, CatDeletedTags, CatDone

LEMMA ConstantTypes ==
  /\ NoPoint \in SyncPoint
  /\ Idle \in Handler
  /\ NoAnswer \in Answer
  /\ FreshClient \in Client
BY DEF NoPoint, SyncPoint, Idle, Handler, NoAnswer, Answer, FreshClient, Client, NoBooks, NoTags,
       SyncCategory, PointRef

LEMMA InitType == Init => TypeInv
<1> SUFFICES ASSUME Init PROVE TypeInv
  OBVIOUS
<1>1. LibraryTypeOK
  BY LibraryInitType DEF Init
<1>2. TypeOK
  BY <1>1, ConstantTypes DEF Init, KoboInit, TypeOK, PointRef
<1>3. FiniteItems
  BY FS_EmptySet DEF Init, KoboInit, FiniteItems, Idle, NoAnswer
<1>4. CursorInRange
  BY DEF Init, KoboInit, CursorInRange, HandlerInRange, Idle, NoPoint
<1> QED
  BY <1>2, <1>3, <1>4 DEF TypeInv

LEMMA ReplyType ==
  ASSUME TypeInv, NEW d \in Devices, NEW last \in PointRef, NEW ongoing \in PointRef,
         NEW items \in SUBSET Item, IsFiniteSet(items), Reply(d, last, ongoing, items)
  PROVE  /\ handler' \in [Devices -> Handler]
         /\ outbox' \in [Devices -> Answer]
         /\ FiniteItems'
         /\ \A e \in Devices : HandlerInRange(handler'[e])
<1> DEFINE answer == [sent |-> TRUE, last |-> last, ongoing |-> ongoing, items |-> items]
<1>1. answer \in Answer
  BY DEF Answer
<1>2. handler' = [handler EXCEPT ![d] = Idle] /\ handler' \in [Devices -> Handler]
  BY ConstantTypes DEF Reply, TypeInv, TypeOK
<1>3. outbox' = outbox \/ outbox' = [outbox EXCEPT ![d] = answer]
  BY DEF Reply
<1>4. outbox' \in [Devices -> Answer]
  BY <1>1, <1>3 DEF TypeInv, TypeOK
<1>5. FiniteItems'
  <2> SUFFICES ASSUME NEW e \in Devices
               PROVE  IsFiniteSet(handler'[e].items) /\ IsFiniteSet(outbox'[e].items)
    BY DEF FiniteItems
  <2>1. handler'[e] = Idle \/ handler'[e] = handler[e]
    BY <1>2 DEF TypeInv, TypeOK
  <2>2. outbox'[e] = answer \/ outbox'[e] = outbox[e]
    BY <1>3 DEF TypeInv, TypeOK
  <2>3. IsFiniteSet(Idle.items) /\ answer.items = items
    BY FS_EmptySet DEF Idle
  <2> QED
    BY <2>1, <2>2, <2>3 DEF TypeInv, FiniteItems
<1>6. \A e \in Devices : HandlerInRange(handler'[e])
  BY <1>2 DEF TypeInv, TypeOK, CursorInRange, HandlerInRange, Idle
<1> QED
  BY <1>2, <1>4, <1>5, <1>6

(* A handler that moves on, changing only what is listed, stays a handler. *)
LEMMA HandlerSetType ==
  ASSUME TypeInv, NEW d \in Devices, NEW h \in Handler, IsFiniteSet(h.items),
         HandlerInRange(h),
         handler' = [handler EXCEPT ![d] = h], outbox' = outbox
  PROVE  /\ handler' \in [Devices -> Handler]
         /\ FiniteItems'
         /\ \A e \in Devices : HandlerInRange(handler'[e])
BY DEF TypeInv, TypeOK, FiniteItems, CursorInRange

LEMMA BeginSyncType == ASSUME TypeInv, NEW d \in Devices, BeginSync(d) PROVE TypeInv'
<1>1. PICK q \in inbox[d] :
        /\ inbox' = [inbox EXCEPT ![d] = @ \ {q}]
        /\ handler' = [handler EXCEPT ![d] = [Idle EXCEPT !.pc = "check", !.live = q.live,
                                                          !.last = q.last, !.ongoing = q.ongoing]]
  BY DEF BeginSync
<1> DEFINE h == [Idle EXCEPT !.pc = "check", !.live = q.live, !.last = q.last, !.ongoing = q.ongoing]
<1>2. q \in Request
  BY DEF TypeInv, TypeOK
<1>3. h \in Handler /\ h.items = {} /\ HandlerInRange(h)
  BY <1>2, ConstantTypes DEF Idle, Handler, Request, HandlerInRange
<1>4. UNCHANGED <<libVars, point, generation, latest, outbox, client>>
  BY DEF BeginSync
<1>5. /\ handler' \in [Devices -> Handler] /\ FiniteItems'
      /\ \A e \in Devices : HandlerInRange(handler'[e])
  <2> HIDE DEF h
  <2>1. handler' = [handler EXCEPT ![d] = h]
    BY <1>1 DEF h
  <2> QED
    BY <1>3, <1>4, <2>1, HandlerSetType, FS_EmptySet
<1>6. inbox' \in [Devices -> SUBSET Request]
  BY <1>1 DEF TypeInv, TypeOK
<1> QED
  BY <1>4, <1>5, <1>6 DEF TypeInv, TypeOK, LibraryTypeOK, CursorInRange, libVars

LEMMA CheckType ==
  ASSUME TypeInv, NEW d \in Devices, NothingToSay(d) \/ SomethingToSay(d) PROVE TypeInv'
<1> USE DEF TypeInv, TypeOK
<1>0. handler[d] \in Handler /\ handler[d].last \in PointRef /\ IsFiniteSet(handler[d].items)
  BY DEF Handler, FiniteItems
<1>1. CASE NothingToSay(d)
  <2>1. Reply(d, handler[d].last, None, {})
    BY <1>1 DEF NothingToSay
  <2>2. UNCHANGED <<libVars, point, generation, latest, inbox, client>>
    BY <1>1 DEF NothingToSay
  <2>3. /\ handler' \in [Devices -> Handler] /\ outbox' \in [Devices -> Answer] /\ FiniteItems'
        /\ \A e \in Devices : HandlerInRange(handler'[e])
    BY <1>0, <2>1, ReplyType, FS_EmptySet, None \in PointRef DEF PointRef
  <2> QED
    BY <2>2, <2>3 DEF LibraryTypeOK, CursorInRange, libVars
<1>2. CASE SomethingToSay(d)
  <2> DEFINE h == [handler[d] EXCEPT !.pc = "resolve"]
  <2>1. h \in Handler /\ h.items = handler[d].items /\ HandlerInRange(h)
    BY <1>0 DEF Handler, HandlerInRange
  <2>2. /\ handler' = [handler EXCEPT ![d] = h]
        /\ UNCHANGED <<libVars, point, generation, latest, inbox, outbox, client>>
    BY <1>2 DEF SomethingToSay
  <2>3. /\ handler' \in [Devices -> Handler] /\ FiniteItems'
        /\ \A e \in Devices : HandlerInRange(handler'[e])
    <3> HIDE DEF h
    <3> QED
      BY <1>0, <2>1, <2>2, HandlerSetType
  <2> QED
    BY <2>2, <2>3 DEF LibraryTypeOK, CursorInRange, libVars
<1> QED
  BY <1>1, <1>2

LEMMA ResumeSyncType == ASSUME TypeInv, NEW d \in Devices, ResumeSync(d) PROVE TypeInv'
<1> USE DEF TypeInv, TypeOK
<1> DEFINE sp == handler[d].ongoing
           h == [handler[d] EXCEPT !.pc = "drain", !.sp = sp, !.parent = point[sp].parent,
                                   !.cat = point[sp].cat, !.key = point[sp].key, !.budget = Batch]
<1>1. handler[d] \in Handler /\ sp \in PointRef /\ IsFiniteSet(handler[d].items)
  BY DEF Handler, FiniteItems
<1>2. sp \in Points /\ point[sp].state = "ongoing"
  BY <1>1 DEF ResumeSync, IsState, PointRef
<1>3. /\ point[sp].parent \in PointRef /\ point[sp].cat \in SyncCategory /\ point[sp].key \in Nat
      /\ point[sp].cat < CatDone
  BY <1>2 DEF SyncPoint, CursorInRange, PointRef
<1>4. h \in Handler /\ h.items = handler[d].items /\ HandlerInRange(h)
  <2>1. Batch \in Nat /\ Batch > 0
    BY SyncAssumption
  <2>2. h \in Handler
    BY <1>1, <1>3, <2>1 DEF Handler
  <2>3. h.items = handler[d].items /\ h.cat = point[sp].cat /\ h.budget = Batch
    BY <1>1 DEF Handler
  <2> QED
    BY <1>3, <2>1, <2>2, <2>3 DEF HandlerInRange
<1>5. /\ handler' = [handler EXCEPT ![d] = h]
      /\ UNCHANGED <<libVars, point, generation, latest, inbox, outbox, client>>
  BY DEF ResumeSync
<1>6. /\ handler' \in [Devices -> Handler] /\ FiniteItems'
      /\ \A e \in Devices : HandlerInRange(handler'[e])
  <2> HIDE DEF h
  <2> QED
    BY <1>1, <1>4, <1>5, HandlerSetType
<1> QED
  BY <1>5, <1>6 DEF LibraryTypeOK, CursorInRange, libVars

LEMMA AbandonType == ASSUME TypeInv, NEW d \in Devices, AbandonSyncPoint(d) PROVE TypeInv'
<1> USE DEF TypeInv, TypeOK
<1> DEFINE h == [handler[d] EXCEPT !.pc = "parent"]
<1>1. handler[d] \in Handler /\ IsFiniteSet(handler[d].items)
  BY DEF FiniteItems
<1>2. h \in Handler /\ h.items = handler[d].items /\ HandlerInRange(h)
  BY <1>1 DEF Handler, HandlerInRange
<1>3. /\ handler' = [handler EXCEPT ![d] = h]
      /\ UNCHANGED <<libVars, generation, latest, inbox, outbox, client>>
  BY DEF AbandonSyncPoint
<1>4. /\ handler' \in [Devices -> Handler] /\ FiniteItems'
      /\ \A e \in Devices : HandlerInRange(handler'[e])
  <2> HIDE DEF h
  <2> QED
    BY <1>1, <1>2, <1>3, HandlerSetType
<1>5. /\ point' \in [Points -> SyncPoint]
      /\ \A p \in Points : point'[p].state = "ongoing" => point'[p].cat < CatDone
  <2>1. CASE point' = point
    BY <2>1 DEF CursorInRange
  <2>2. ASSUME NEW p \in Points,
               point' = [point EXCEPT ![p].state = "abandoned", ![p].recent = TRUE]
        PROVE  <1>5
    <3>1. point' = [point EXCEPT ![p] = [point[p] EXCEPT !.state = "abandoned", !.recent = TRUE]]
      BY <2>2
    <3>2. [point[p] EXCEPT !.state = "abandoned", !.recent = TRUE] \in SyncPoint
      BY DEF SyncPoint
    <3>3. [point[p] EXCEPT !.state = "abandoned", !.recent = TRUE].state # "ongoing"
      BY DEF SyncPoint
    <3> QED
      BY <3>1, <3>2, <3>3 DEF CursorInRange
  <2> QED
    BY <2>1, <2>2 DEF AbandonSyncPoint, PointsIn
<1> QED
  BY <1>3, <1>4, <1>5 DEF LibraryTypeOK, CursorInRange, libVars

LEMMA ChooseParentType == ASSUME TypeInv, NEW d \in Devices, ChooseParent(d) PROVE TypeInv'
<1> USE DEF TypeInv, TypeOK
<1>1. handler[d] \in Handler /\ IsFiniteSet(handler[d].items) /\ handler[d].last \in PointRef
  BY DEF FiniteItems, Handler
<1>2. PICK parent \in IF IsState(handler[d].last, d, "completed")
                      THEN {handler[d].last} ELSE LastCompleted(d) :
        handler' = [handler EXCEPT ![d].pc = "create", ![d].parent = parent]
  BY DEF ChooseParent
<1>3. parent \in PointRef
  BY <1>1, <1>2 DEF LastCompleted, PointsIn, PointRef
<1> DEFINE h == [handler[d] EXCEPT !.pc = "create", !.parent = parent]
<1>4. h \in Handler /\ h.items = handler[d].items /\ HandlerInRange(h)
  BY <1>1, <1>3 DEF Handler, HandlerInRange
<1>5. /\ handler' = [handler EXCEPT ![d] = h]
      /\ UNCHANGED <<libVars, point, generation, latest, inbox, outbox, client>>
  BY <1>2 DEF ChooseParent
<1>6. /\ handler' \in [Devices -> Handler] /\ FiniteItems'
      /\ \A e \in Devices : HandlerInRange(handler'[e])
  <2> HIDE DEF h
  <2> QED
    BY <1>1, <1>4, <1>5, HandlerSetType
<1> QED
  BY <1>5, <1>6 DEF LibraryTypeOK, CursorInRange, libVars

LEMMA NewSnapshotType ==
  ASSUME TypeInv, NEW d \in Devices, NEW parent \in PointRef
  PROVE  NewSnapshot(d, parent) \in SyncPoint
<1> USE DEF TypeInv, TypeOK, LibraryTypeOK
<1>1. parent \in Points \cup {None}
  BY DEF PointRef
<1>2. \A b \in Books : book[b].rev \in Nat /\ reading[Owner[d]][b].rev \in Nat
  BY LibraryAssumption DEF BookRec, ReadingRec
<1>3. \A t \in Tags : tag[t].rev \in Nat
  BY DEF TagRec
<1>4. [b \in Books |-> IF b \in SnapshotBooks(d, parent) THEN book[b].rev ELSE 0]
        \in [Books -> Nat]
  BY <1>2
<1>5. [b \in Books |-> IF b \in SnapshotBooks(d, parent)
                       THEN reading[Owner[d]][b].rev ELSE 0] \in [Books -> Nat]
  BY <1>2
<1>6. [t \in Tags |-> IF TagUser[t] = Owner[d] /\ tag[t].live THEN tag[t].rev ELSE 0]
        \in [Tags -> Nat]
  BY <1>3
<1> QED
  BY <1>1, <1>4, <1>5, <1>6 DEF NewSnapshot, SyncPoint, SyncCategory

LEMMA CreateType == ASSUME TypeInv, NEW d \in Devices, CreateSyncPoint(d) PROVE TypeInv'
<1> USE DEF TypeInv, TypeOK
<1>1. PICK p \in Points :
        /\ point' = [point EXCEPT ![p] = NewSnapshot(d, handler[d].parent)]
        /\ handler' = [handler EXCEPT ![d] = [handler[d] EXCEPT !.pc = "drain", !.sp = p,
                                   !.cat = CatNewBooks, !.key = 0, !.budget = Batch]]
  BY DEF CreateSyncPoint
<1> DEFINE h == [handler[d] EXCEPT !.pc = "drain", !.sp = p,
                                   !.cat = CatNewBooks, !.key = 0, !.budget = Batch]
<1>2. handler[d] \in Handler /\ IsFiniteSet(handler[d].items)
  BY DEF FiniteItems
<1>3. h \in Handler /\ h.items = handler[d].items /\ HandlerInRange(h)
  <2>1. p \in PointRef /\ Batch \in Nat /\ Batch > 0 /\ CatNewBooks \in SyncCategory
    BY SyncAssumption DEF PointRef, SyncCategory
  <2>2. h \in Handler
    <3> HIDE DEF CatNewBooks
    <3> QED
      BY <1>2, <2>1 DEF Handler
  <2>3. /\ h.items = handler[d].items /\ h.cat = 0 /\ h.budget = Batch
    BY <1>2 DEF Handler
  <2> QED
    BY <2>1, <2>2, <2>3 DEF HandlerInRange
<1>4. UNCHANGED <<libVars, latest, inbox, outbox, client>>
  BY DEF CreateSyncPoint
<1>5. /\ handler' \in [Devices -> Handler] /\ FiniteItems'
      /\ \A e \in Devices : HandlerInRange(handler'[e])
  <2>1. handler' = [handler EXCEPT ![d] = h]
    BY <1>1
  <2> HIDE DEF h
  <2> QED
    BY <1>3, <1>2, <2>1, <1>4, HandlerSetType
<1>6. point' \in [Points -> SyncPoint]
  <2>1. handler[d].parent \in PointRef
    BY DEF Handler
  <2>2. NewSnapshot(d, handler[d].parent) \in SyncPoint
    BY <2>1, NewSnapshotType
  <2> QED
    BY <1>1, <2>2
<1>7. \A q \in Points : point'[q].state = "ongoing" => point'[q].cat < CatDone
  BY <1>1 DEF NewSnapshot, CursorInRange
<1> QED
  BY <1>4, <1>5, <1>6, <1>7 DEF LibraryTypeOK, CursorInRange, libVars

LEMMA CategoryIDsType ==
  ASSUME NEW d \in Devices, NEW cat \in SyncCategory, NEW from, NEW to
  PROVE  /\ categoryIDs(d, cat, from, to) \in SUBSET Nat
         /\ IsFiniteSet(categoryIDs(d, cat, from, to))
         /\ cat \in 0 .. 3 => categoryIDs(d, cat, from, to) \in SUBSET Books
         /\ cat \notin 0 .. 3 => categoryIDs(d, cat, from, to) \in SUBSET Tags
<1> DEFINE ids == categoryIDs(d, cat, from, to)
<1>1. cat \in 0 .. 7
  BY DEF SyncCategory
<1>2. /\ cat \in 0 .. 3 => ids \in SUBSET Books
      /\ cat \notin 0 .. 3 => ids \in SUBSET Tags
  BY <1>1 DEF categoryIDs, NewBookIDs, ChangedBookIDs, RemovedBookIDs, ChangedReadingStateIDs,
              NewTagIDs, ChangedTagIDs, DeletedTagIDs, BooksOf, TagsOf
<1>3. ids \in SUBSET Books \/ ids \in SUBSET Tags
  BY <1>2
<1> HIDE DEF ids
<1>4. ids \in SUBSET Nat /\ IsFiniteSet(ids)
  BY <1>3, FS_Subset, LibraryAssumption
<1> QED
  BY <1>2, <1>4 DEF ids

LEMMA EmitType ==
  ASSUME TypeInv, NEW d \in Devices, NEW cat \in SyncCategory, NEW id,
         cat \in 0 .. 3 => id \in Books, cat \notin 0 .. 3 => id \in Tags
  PROVE  Emit(d, cat, id) \in Item
<1> USE DEF TypeInv, TypeOK, LibraryTypeOK
<1>1. cat \in 0 .. 7
  BY DEF SyncCategory
<1>2. cat \in 0 .. 3 => book[id].rev \in Nat /\ reading[Owner[d]][id].rev \in Nat
  <2> SUFFICES ASSUME cat \in 0 .. 3 PROVE book[id].rev \in Nat /\ reading[Owner[d]][id].rev \in Nat
    OBVIOUS
  <2>1. Owner[d] \in Users /\ id \in Books
    BY LibraryAssumption
  <2>2. book[id] \in BookRec /\ reading[Owner[d]][id] \in ReadingRec
    BY <2>1
  <2> QED
    BY <2>2 DEF BookRec, ReadingRec
<1>3. cat \notin 0 .. 3 => tag[id].rev \in Nat
  BY DEF TagRec
<1>4. Emit(d, cat, id).rev \in Nat
  <2>1. CASE cat \in 0 .. 3
    BY <1>1, <1>2, <2>1 DEF Emit
  <2>2. CASE cat \in {4, 5}
    BY <1>3, <2>2 DEF Emit
  <2>3. CASE cat \in {6, 7}
    BY <2>3 DEF Emit
  <2> QED
    BY <1>1, <2>1, <2>2, <2>3
<1>5. Emit(d, cat, id).state \in Nat
  BY <1>1, <1>2 DEF Emit
<1> QED
  BY <1>4, <1>5 DEF Emit, Item

LEMMA PageType ==
  ASSUME TypeInv, NEW d \in Devices, At(d, "drain"), NEW h, h = handler[d]
  PROVE  /\ Page(h, d) \in SUBSET Rest(h, d)
         /\ Rest(h, d) \in SUBSET categoryIDs(d, h.cat, h.parent, h.sp)
         /\ IsFiniteSet(Page(h, d))
         /\ Cardinality(Page(h, d)) \in 0 .. h.budget
         /\ Page(h, d) # Rest(h, d) => Max(Page(h, d)) \in Nat
<1> DEFINE ids == categoryIDs(d, h.cat, h.parent, h.sp)
<1>1. h \in Handler /\ h.cat \in SyncCategory /\ h.budget \in Nat \ {0}
  BY DEF TypeInv, TypeOK, Handler, CursorInRange, HandlerInRange, At
<1>2. ids \in SUBSET Nat /\ IsFiniteSet(ids)
  BY <1>1, CategoryIDsType
<1>3. Rest(h, d) \in SUBSET ids
  BY DEF Rest
<1>4. Rest(h, d) \in SUBSET Nat /\ IsFiniteSet(Rest(h, d))
  <2> HIDE DEF ids
  <2> QED
    BY <1>2, <1>3, FS_Subset
<1>5. /\ Page(h, d) \in SUBSET Rest(h, d) /\ IsFiniteSet(Page(h, d))
      /\ Cardinality(Page(h, d)) \in 0 .. h.budget
  BY <1>1, <1>4, SmallestAreFew DEF Page
<1>6. ASSUME Page(h, d) # Rest(h, d) PROVE Max(Page(h, d)) \in Nat
  <2>1. Page(h, d) # {}
    <3>1. Rest(h, d) # {}
      BY <1>5, <1>6
    <3> QED
      BY <1>1, <1>4, <3>1, SmallestIsNonempty DEF Page
  <2>2. Page(h, d) \in SUBSET Nat
    BY <1>4, <1>5
  <2>3. Max(Page(h, d)) \in Page(h, d)
    BY <1>5, <2>1, <2>2, MaxOfFiniteSet
  <2> QED
    BY <2>2, <2>3
<1> QED
  BY <1>3, <1>5, <1>6

LEMMA DrainedType ==
  ASSUME TypeInv, NEW d \in Devices, At(d, "drain"), NEW h, h = handler[d]
  PROVE  /\ Drained(h, d) \in Handler
         /\ IsFiniteSet(Drained(h, d).items)
         /\ HandlerInRange(Drained(h, d))
<1> DEFINE page == Page(h, d)
           exhausted == page = Rest(h, d)
           cat == IF exhausted THEN h.cat + 1 ELSE h.cat
           key == IF exhausted THEN 0 ELSE Max(page)
           budget == h.budget - Cardinality(page)
           new == {Emit(d, h.cat, i) : i \in page}
           items == h.items \cup new
           pc == IF cat = CatDone THEN "complete"
                 ELSE IF ~exhausted \/ budget = 0 THEN "save" ELSE "drain"
<1>1. /\ h \in Handler /\ h.cat \in SyncCategory /\ h.budget \in Nat /\ h.items \in SUBSET Item
      /\ h.cat < CatDone /\ IsFiniteSet(h.items)
  BY DEF TypeInv, TypeOK, Handler, CursorInRange, HandlerInRange, At, FiniteItems
<1>2. /\ page \in SUBSET categoryIDs(d, h.cat, h.parent, h.sp) /\ IsFiniteSet(page)
      /\ Cardinality(page) \in 0 .. h.budget
      /\ ~exhausted => Max(page) \in Nat
  <2> HIDE DEF page
  <2> QED
    BY PageType DEF page
<1>3. new \in SUBSET Item /\ IsFiniteSet(new)
  <2>1. \A i \in page : Emit(d, h.cat, i) \in Item
    <3> SUFFICES ASSUME NEW i \in page PROVE Emit(d, h.cat, i) \in Item
      OBVIOUS
    <3>1. /\ h.cat \in 0 .. 3 => i \in Books
          /\ h.cat \notin 0 .. 3 => i \in Tags
      <4> HIDE DEF page
      <4> QED
        BY <1>1, <1>2, CategoryIDsType
    <3> QED
      BY <1>1, <3>1, EmitType
  <2> DEFINE f == [i \in page |-> Emit(d, h.cat, i)]
  <2>2. IsFiniteSet({f[i] : i \in page})
    <3>1. f = [i \in page |-> f[i]]
      OBVIOUS
    <3> HIDE DEF f, page
    <3> QED
      BY <1>2, <3>1, FiniteImage
  <2>3. {f[i] : i \in page} = new
    OBVIOUS
  <2> QED
    BY <2>1, <2>2, <2>3
<1>4. items \in SUBSET Item /\ IsFiniteSet(items)
  <2> HIDE DEF new
  <2> QED
    BY <1>1, <1>3, FS_Union
<1>5. cat \in SyncCategory
  BY <1>1 DEF SyncCategory
<1>6. key \in Nat
  BY <1>2
<1>7. budget \in Nat
  <2>1. Cardinality(page) \in Nat /\ Cardinality(page) <= h.budget
    BY <1>2
  <2> QED
    BY <1>1, <2>1
<1>8. pc \in {"complete", "save", "drain"}
  OBVIOUS
<1>9. pc \in {"save", "drain"} => cat < CatDone
  BY <1>1 DEF SyncCategory
<1>10. pc = "drain" => budget > 0
  BY <1>7
<1>11. Drained(h, d) = [h EXCEPT !.cat = cat, !.key = key, !.budget = budget, !.items = items, !.pc = pc]
  BY DEF Drained
<1> HIDE DEF cat, key, budget, items, pc
<1> QED
  BY <1>1, <1>4, <1>5, <1>6, <1>7, <1>8, <1>9, <1>10, <1>11 DEF Handler, HandlerInRange

LEMMA DrainType == ASSUME TypeInv, NEW d \in Devices, DrainCategory(d) PROVE TypeInv'
<1> DEFINE h == Drained(handler[d], d)
<1>1. /\ handler' = [handler EXCEPT ![d] = h]
      /\ UNCHANGED <<libVars, point, generation, latest, inbox, outbox, client>>
  BY DEF DrainCategory
<1>2. h \in Handler /\ IsFiniteSet(h.items) /\ HandlerInRange(h)
  BY DrainedType DEF DrainCategory
<1>3. handler' \in [Devices -> Handler] /\ FiniteItems' /\ \A e \in Devices : HandlerInRange(handler'[e])
  <2> HIDE DEF h
  <2> QED
    BY <1>1, <1>2, HandlerSetType
<1> QED
  BY <1>1, <1>3 DEF TypeInv, TypeOK, LibraryTypeOK, CursorInRange, libVars

(* What every handler offers to its answer. *)
LEMMA HandlerFields ==
  ASSUME TypeInv, NEW d \in Devices
  PROVE  /\ handler[d] \in Handler /\ handler[d].items \in SUBSET Item
         /\ IsFiniteSet(handler[d].items)
         /\ handler[d].sp \in PointRef /\ handler[d].parent \in PointRef
         /\ handler[d].last \in PointRef /\ handler[d].ongoing \in PointRef
         /\ handler[d].cat \in SyncCategory /\ handler[d].key \in Nat
         /\ None \in PointRef
BY DEF TypeInv, TypeOK, Handler, FiniteItems, PointRef

LEMMA SaveType == ASSUME TypeInv, NEW d \in Devices, SaveSyncCursor(d) PROVE TypeInv'
<1> DEFINE h == handler[d]
           pt == [point[h.sp] EXCEPT !.cat = h.cat, !.key = h.key, !.recent = TRUE]
<1>1. /\ Reply(d, h.parent, h.sp, h.items)
      /\ UNCHANGED <<libVars, generation, latest, inbox, client>>
  BY DEF SaveSyncCursor
<1>2. /\ handler' \in [Devices -> Handler] /\ outbox' \in [Devices -> Answer] /\ FiniteItems'
      /\ \A e \in Devices : HandlerInRange(handler'[e])
  BY <1>1, HandlerFields, ReplyType
<1>3. h.cat < CatDone
  BY DEF SaveSyncCursor, At, TypeInv, CursorInRange, HandlerInRange
<1>4. /\ point' \in [Points -> SyncPoint]
      /\ \A p \in Points : point'[p].state = "ongoing" => point'[p].cat < CatDone
  <2>1. CASE point' = point
    BY <2>1 DEF TypeInv, TypeOK, CursorInRange
  <2>2. CASE point' = [point EXCEPT ![h.sp] = pt]
    <3>1. CASE h.sp \in Points
      <4>1. point[h.sp] \in SyncPoint
        BY <3>1 DEF TypeInv, TypeOK
      <4>2. pt \in SyncPoint /\ pt.cat = h.cat
        BY <4>1, HandlerFields DEF SyncPoint
      <4> HIDE DEF pt
      <4> QED
        BY <1>3, <2>2, <4>2 DEF TypeInv, TypeOK, CursorInRange
    <3>2. CASE h.sp \notin Points
      <4>1. point' = point
        BY <2>2, <3>2 DEF TypeInv, TypeOK
      <4> QED
        BY <2>1, <4>1
    <3> QED
      BY <3>1, <3>2
  <2> QED
    BY <2>1, <2>2 DEF SaveSyncCursor
<1> QED
  BY <1>1, <1>2, <1>4 DEF TypeInv, TypeOK, LibraryTypeOK, CursorInRange, libVars

LEMMA CompleteType == ASSUME TypeInv, NEW d \in Devices, CompleteSyncPoint(d) PROVE TypeInv'
<1> DEFINE sp == handler[d].sp
           pt == [point[sp] EXCEPT !.state = "completed", !.cat = CatDone, !.recent = TRUE]
           h == [handler[d] EXCEPT !.pc = "drop"]
<1>1. /\ handler' = [handler EXCEPT ![d] = h]
      /\ UNCHANGED <<libVars, generation, inbox, outbox, client>>
  BY DEF CompleteSyncPoint
<1>2. h \in Handler /\ h.items = handler[d].items /\ h.pc = "drop"
  BY HandlerFields DEF Handler
<1>3. handler' \in [Devices -> Handler] /\ FiniteItems' /\ \A e \in Devices : HandlerInRange(handler'[e])
  <2>1. HandlerInRange(h)
    BY <1>2 DEF HandlerInRange
  <2> HIDE DEF h
  <2> QED
    BY <1>1, <1>2, <2>1, HandlerFields, HandlerSetType
<1>4. /\ point' \in [Points -> SyncPoint] /\ latest' \in [Devices -> PointRef]
      /\ \A p \in Points : point'[p].state = "ongoing" => point'[p].cat < CatDone
  <2>1. CASE UNCHANGED <<point, latest>>
    BY <2>1 DEF TypeInv, TypeOK, CursorInRange
  <2>2. CASE point' = [point EXCEPT ![sp] = pt] /\ latest' = [latest EXCEPT ![d] = sp]
    <3>1. latest' \in [Devices -> PointRef]
      BY <2>2, HandlerFields DEF TypeInv, TypeOK
    <3>2. CASE sp \in Points
      <4>1. point[sp] \in SyncPoint
        BY <3>2 DEF TypeInv, TypeOK
      <4>2. CatDone \in SyncCategory
        BY DEF SyncCategory
      <4>3. pt \in SyncPoint /\ pt.state = "completed"
        <5> HIDE DEF CatDone
        <5> QED
          BY <4>1, <4>2 DEF SyncPoint
      <4> HIDE DEF pt
      <4> QED
        BY <2>2, <3>1, <4>3 DEF TypeInv, TypeOK, CursorInRange
    <3>3. CASE sp \notin Points
      <4>1. point' = point
        BY <2>2, <3>3 DEF TypeInv, TypeOK
      <4> QED
        BY <3>1, <4>1 DEF TypeInv, TypeOK, CursorInRange
    <3> QED
      BY <3>2, <3>3
  <2> QED
    BY <2>1, <2>2 DEF CompleteSyncPoint
<1> QED
  BY <1>1, <1>3, <1>4 DEF TypeInv, TypeOK, LibraryTypeOK, CursorInRange, libVars

LEMMA DropType == ASSUME TypeInv, NEW d \in Devices, DropParent(d) PROVE TypeInv'
<1> DEFINE h == handler[d]
<1>1. /\ Reply(d, h.sp, None, h.items)
      /\ UNCHANGED <<libVars, generation, latest, inbox, client>>
      /\ point' = IF h.parent = None THEN point ELSE [point EXCEPT ![h.parent] = NoPoint]
  BY DEF DropParent
<1>2. /\ handler' \in [Devices -> Handler] /\ outbox' \in [Devices -> Answer] /\ FiniteItems'
      /\ \A e \in Devices : HandlerInRange(handler'[e])
  BY <1>1, HandlerFields, ReplyType
<1>3. /\ point' \in [Points -> SyncPoint]
      /\ \A p \in Points : point'[p].state = "ongoing" => point'[p].cat < CatDone
  BY <1>1, ConstantTypes DEF TypeInv, TypeOK, CursorInRange, NoPoint
<1> QED
  BY <1>1, <1>2, <1>3 DEF TypeInv, TypeOK, LibraryTypeOK, CursorInRange, libVars

LEMMA StepFailsType == ASSUME TypeInv, NEW d \in Devices, StepFails(d) PROVE TypeInv'
<1> DEFINE h == handler[d]
<1>1. /\ UNCHANGED <<book, row, enabled, sharing, resolving, granting, reading, tag, tombs, mayLose,
                     point, generation, latest, inbox, client>>
      /\ changes' \in Nat
  BY ChangeType DEF StepFails, TypeInv, TypeOK, LibraryTypeOK
<1>2. /\ handler' \in [Devices -> Handler] /\ outbox' \in [Devices -> Answer] /\ FiniteItems'
      /\ \A e \in Devices : HandlerInRange(handler'[e])
  <2>1. CASE handler' = [handler EXCEPT ![d].pc = "resolve"] /\ UNCHANGED outbox
    <3> DEFINE g == [handler[d] EXCEPT !.pc = "resolve"]
    <3>1. g \in Handler /\ g.items = h.items /\ g.pc = "resolve"
      BY HandlerFields DEF Handler
    <3>2. HandlerInRange(g)
      BY <3>1 DEF HandlerInRange
    <3>3. handler' = [handler EXCEPT ![d] = g]
      BY <2>1
    <3> HIDE DEF g
    <3> QED
      BY <2>1, <3>1, <3>2, <3>3, HandlerFields, HandlerSetType DEF TypeInv, TypeOK
  <2>2. CASE Reply(d, h.last, h.ongoing, {})
    BY <2>2, HandlerFields, ReplyType, FS_EmptySet
  <2>3. CASE Reply(d, h.parent, h.sp, h.items)
    BY <2>3, HandlerFields, ReplyType
  <2>4. CASE Reply(d, h.sp, None, h.items)
    BY <2>4, HandlerFields, ReplyType
  <2> QED
    BY <2>1, <2>2, <2>3, <2>4 DEF StepFails
<1> QED
  BY <1>1, <1>2 DEF TypeInv, TypeOK, LibraryTypeOK, CursorInRange

(***************************************************************************)
(* Types of a device.                                                      *)
(***************************************************************************)
LEMMA MaxOfRevs ==
  ASSUME NEW items \in SUBSET Item, IsFiniteSet(items), NEW put \in SUBSET items, put # {}
  PROVE  /\ Max({i.rev : i \in put}) \in Nat
         /\ \E i \in put : i.rev = Max({j.rev : j \in put})
<1> DEFINE f == [i \in put |-> i.rev]
           revs == {i.rev : i \in put}
<1>1. IsFiniteSet(put)
  BY FS_Subset
<1>2. IsFiniteSet({f[i] : i \in put})
  <2>1. f = [i \in put |-> f[i]]
    OBVIOUS
  <2> HIDE DEF f
  <2> QED
    BY <1>1, <2>1, FiniteImage
<1>3. {f[i] : i \in put} = revs
  OBVIOUS
<1>4. revs \in SUBSET Nat /\ revs # {}
  BY DEF Item
<1> HIDE DEF f, revs
<1>5. IsFiniteSet(revs)
  BY <1>2, <1>3
<1>6. Max(revs) \in revs /\ Max(revs) \in Nat
  BY <1>4, <1>5, MaxOfFiniteSet
<1> QED
  BY <1>6 DEF revs

LEMMA MaxOfStates ==
  ASSUME NEW items \in SUBSET Item, IsFiniteSet(items), NEW put \in SUBSET items, NEW pos \in Nat
  PROVE  Max({pos} \cup {i.state : i \in put}) \in Nat
<1> DEFINE f == [i \in put |-> i.state]
           states == {i.state : i \in put}
<1>1. IsFiniteSet(put)
  BY FS_Subset
<1>2. IsFiniteSet({f[i] : i \in put})
  <2>1. f = [i \in put |-> f[i]]
    OBVIOUS
  <2> HIDE DEF f
  <2> QED
    BY <1>1, <2>1, FiniteImage
<1>3. {f[i] : i \in put} = states
  OBVIOUS
<1>4. states \in SUBSET Nat
  BY DEF Item
<1> HIDE DEF f, states
<1>5. IsFiniteSet({pos} \cup states) /\ {pos} \cup states \in SUBSET Nat /\ {pos} \cup states # {}
  BY <1>2, <1>3, <1>4, FS_Singleton, FS_Union
<1>6. Max({pos} \cup states) \in Nat
  BY <1>5, MaxOfFiniteSet
<1> QED
  BY <1>6 DEF states

LEMMA ReceiveType == ASSUME TypeInv, NEW d \in Devices, Receive(d) PROVE TypeInv'
<1> DEFINE a == outbox[d]
           c == client[d]
           saved == IF a.ongoing = None THEN a.last ELSE c.saved
           books == ShelfAfter(c.books, a.items)
           pos == PositionsAfter(c.pos, a.items)
           tags == CollectionsAfter(c.tags, a.items)
           new == [waiting |-> FALSE, last |-> a.last, ongoing |-> a.ongoing, saved |-> saved,
                   books |-> books, pos |-> pos, tags |-> tags]
<1>1. /\ outbox' = [outbox EXCEPT ![d] = NoAnswer]
      /\ client' = [client EXCEPT ![d] = new]
      /\ UNCHANGED <<libVars, point, generation, latest, handler, inbox>>
  BY DEF Receive
<1>2. a \in Answer /\ a.items \in SUBSET Item /\ IsFiniteSet(a.items)
  BY DEF TypeInv, TypeOK, Answer, FiniteItems
<1>3. /\ c.saved \in PointRef /\ c.books \in [Books -> Nat] /\ c.pos \in [Books -> Nat]
      /\ c.tags \in [Tags -> Nat]
  BY DEF TypeInv, TypeOK, Client
<1>4. \A cats, id : ItemsOf(a.items, cats, id) \in SUBSET a.items
  BY DEF ItemsOf
<1>5. books \in [Books -> Nat]
  <2> SUFFICES ASSUME NEW b \in Books PROVE books[b] \in Nat
    BY DEF ShelfAfter
  <2> DEFINE put == ItemsOf(a.items, {CatNewBooks, CatChangedBooks}, b)
  <2>1. put # {} => Max({i.rev : i \in put}) \in Nat
    BY <1>2, <1>4, MaxOfRevs
  <2>2. books[b] \in {0, c.books[b]} \/ (put # {} /\ books[b] = Max({i.rev : i \in put}))
    BY DEF ShelfAfter
  <2> QED
    BY <1>3, <2>1, <2>2
<1>6. pos \in [Books -> Nat]
  <2> SUFFICES ASSUME NEW b \in Books PROVE pos[b] \in Nat
    BY DEF PositionsAfter
  <2> DEFINE put == ItemsOf(a.items, {CatNewBooks, CatChangedBooks, CatReadingStates}, b)
  <2>1. Max({c.pos[b]} \cup {i.state : i \in put}) \in Nat
    BY <1>2, <1>3, <1>4, MaxOfStates
  <2> QED
    BY <2>1 DEF PositionsAfter
<1>7. tags \in [Tags -> Nat]
  <2> SUFFICES ASSUME NEW t \in Tags PROVE tags[t] \in Nat
    BY DEF CollectionsAfter
  <2> DEFINE put == ItemsOf(a.items, {CatNewTags, CatChangedTags}, t)
  <2>1. put # {} => Max({i.rev : i \in put}) \in Nat
    BY <1>2, <1>4, MaxOfRevs
  <2>2. tags[t] \in {0, c.tags[t]} \/ (put # {} /\ tags[t] = Max({i.rev : i \in put}))
    BY DEF CollectionsAfter
  <2> QED
    BY <1>3, <2>1, <2>2
<1>8. new \in Client
  <2> HIDE DEF books, pos, tags
  <2> QED
    BY <1>2, <1>3, <1>5, <1>6, <1>7 DEF Client, Answer
<1>9. client' \in [Devices -> Client] /\ outbox' \in [Devices -> Answer] /\ FiniteItems'
  <2> HIDE DEF new
  <2>1. NoAnswer.items = {}
    BY DEF NoAnswer
  <2> QED
    BY <1>1, <1>8, <2>1, ConstantTypes, FS_EmptySet DEF TypeInv, TypeOK, FiniteItems
<1> QED
  BY <1>1, <1>9 DEF TypeInv, TypeOK, LibraryTypeOK, CursorInRange, libVars

LEMMA SendSyncType == ASSUME TypeInv, NEW d \in Devices, SendSync(d) PROVE TypeInv'
<1>1. client[d] \in Client /\ client[d].last \in PointRef /\ client[d].ongoing \in PointRef
  BY DEF TypeInv, TypeOK, Client
<1>2. client' \in [Devices -> Client]
  <2>1. [client[d] EXCEPT !.waiting = TRUE] \in Client
    BY <1>1 DEF Client
  <2>2. client' = [client EXCEPT ![d] = [client[d] EXCEPT !.waiting = TRUE]]
    BY DEF SendSync
  <2> QED
    BY <2>1, <2>2 DEF TypeInv, TypeOK
<1>3. inbox' \in [Devices -> SUBSET Request]
  <2> DEFINE q == [last |-> client[d].last, ongoing |-> client[d].ongoing, live |-> TRUE]
  <2>1. q \in Request
    BY <1>1 DEF Request
  <2>2. inbox' = [inbox EXCEPT ![d] = inbox[d] \cup {q}]
    BY DEF SendSync
  <2> HIDE DEF q
  <2> QED
    BY <2>1, <2>2 DEF TypeInv, TypeOK
<1>4. UNCHANGED <<libVars, point, generation, latest, handler, outbox>>
  BY DEF SendSync
<1> QED
  BY <1>2, <1>3, <1>4 DEF TypeInv, TypeOK, LibraryTypeOK, CursorInRange, FiniteItems, libVars

LEMMA GiveUpType == ASSUME TypeInv, NEW d \in Devices, GiveUp(d) PROVE TypeInv'
<1>1. client' \in [Devices -> Client]
  <2>1. client[d] \in Client
    BY DEF TypeInv, TypeOK
  <2>2. [client[d] EXCEPT !.waiting = FALSE] \in Client
    BY <2>1 DEF Client
  <2>3. client' = [client EXCEPT ![d] = [client[d] EXCEPT !.waiting = FALSE]]
    BY DEF GiveUp, HangUp
  <2> QED
    BY <2>2, <2>3 DEF TypeInv, TypeOK
<1>2. inbox' \in [Devices -> SUBSET Request]
  <2>1. \A q \in Request : [q EXCEPT !.live = FALSE] \in Request
    BY DEF Request
  <2> QED
    BY <2>1 DEF GiveUp, HangUp, TypeInv, TypeOK
<1> DEFINE h == [handler[d] EXCEPT !.live = FALSE]
<1>3. /\ h \in Handler /\ h.items = handler[d].items /\ h.pc = handler[d].pc
      /\ h.cat = handler[d].cat /\ h.budget = handler[d].budget
  BY HandlerFields DEF Handler
<1>4. handler' = [handler EXCEPT ![d] = h] /\ outbox' = [outbox EXCEPT ![d] = NoAnswer]
  BY DEF GiveUp, HangUp
<1>5. NoAnswer.items = {}
  BY DEF NoAnswer
<1>6. /\ handler' \in [Devices -> Handler] /\ outbox' \in [Devices -> Answer] /\ FiniteItems'
      /\ \A e \in Devices : HandlerInRange(handler'[e])
  <2> HIDE DEF h
  <2> QED
    BY <1>3, <1>4, <1>5, ConstantTypes, FS_EmptySet
       DEF TypeInv, TypeOK, FiniteItems, CursorInRange, HandlerInRange
<1>7. /\ UNCHANGED <<book, row, enabled, sharing, resolving, granting, reading, tag, tombs, mayLose,
                     point, generation, latest>>
      /\ changes' \in Nat
  BY ChangeType DEF GiveUp, TypeInv, TypeOK, LibraryTypeOK
<1> QED
  BY <1>1, <1>2, <1>6, <1>7 DEF TypeInv, TypeOK, LibraryTypeOK, CursorInRange

LEMMA DeviceRestartsType == ASSUME TypeInv, NEW d \in Devices, DeviceRestarts(d) PROVE TypeInv'
<1>1. client' \in [Devices -> Client]
  <2>1. client[d] \in Client /\ client[d].saved \in PointRef /\ None \in PointRef
    BY HandlerFields DEF TypeInv, TypeOK, Client
  <2>2. [client[d] EXCEPT !.last = client[d].saved, !.ongoing = None] \in Client
    BY <2>1 DEF Client
  <2>3. client' = [client EXCEPT ![d] = [client[d] EXCEPT !.last = client[d].saved, !.ongoing = None]]
    BY DEF DeviceRestarts
  <2> QED
    BY <2>2, <2>3 DEF TypeInv, TypeOK
<1>2. /\ UNCHANGED <<book, row, enabled, sharing, resolving, granting, reading, tag, tombs, mayLose,
                     point, generation, latest, handler, inbox, outbox>>
      /\ changes' \in Nat
  BY ChangeType DEF DeviceRestarts, TypeInv, TypeOK, LibraryTypeOK
<1> QED
  BY <1>1, <1>2 DEF TypeInv, TypeOK, LibraryTypeOK, CursorInRange, FiniteItems

LEMMA OnDeviceType ==
  ASSUME TypeInv, NEW d \in Devices, NEW b \in Books,
         DeleteOnDevice(d, b) \/ ReadOnDevice(d, b) \/ ForgetTombstone(d, b)
  PROVE  TypeInv'
<1> USE DEF TypeInv, TypeOK, LibraryTypeOK
<1>1. client[d] \in Client
  OBVIOUS
<1>2. CASE DeleteOnDevice(d, b)
  <2>1. client' \in [Devices -> Client]
    <3>1. [client[d] EXCEPT !.books = [client[d].books EXCEPT ![b] = 0]] \in Client
      BY <1>1 DEF Client
    <3>2. client' = [client EXCEPT ![d] = [client[d] EXCEPT
                                             !.books = [client[d].books EXCEPT ![b] = 0]]]
      BY <1>2 DEF DeleteOnDevice
    <3> QED
      BY <3>1, <3>2
  <2>2. /\ tombs' \in [Devices -> SUBSET Books] /\ mayLose' \in [Devices -> SUBSET Books]
        /\ UNCHANGED <<book, row, enabled, sharing, resolving, granting, reading, tag>>
        /\ changes' \in Nat
    BY <1>2, ChangeType DEF DeleteOnDevice, AddTombstone
  <2>3. UNCHANGED <<point, generation, latest, handler, inbox, outbox>>
    BY <1>2 DEF DeleteOnDevice
  <2> QED
    BY <2>1, <2>2, <2>3 DEF CursorInRange, FiniteItems
<1>3. CASE ReadOnDevice(d, b)
  <2>1. PICK r \in Books :
          /\ SaveReadingState(d, r)
          /\ client' = [client EXCEPT ![d].pos[b] = reading[Owner[d]][r].rev + 1]
    BY <1>3 DEF ReadOnDevice
  <2>2. Owner[d] \in Users /\ reading[Owner[d]][r].rev + 1 \in Nat
    BY LibraryAssumption DEF ReadingRec
  <2> DEFINE n == reading[Owner[d]][r].rev + 1
  <2>3. client' \in [Devices -> Client]
    <3>1. [client[d] EXCEPT !.pos = [client[d].pos EXCEPT ![b] = n]] \in Client
      BY <1>1, <2>2 DEF Client
    <3>2. client' = [client EXCEPT ![d] = [client[d] EXCEPT !.pos = [client[d].pos EXCEPT ![b] = n]]]
      BY <2>1
    <3> QED
      BY <3>1, <3>2
  <2>4. reading' \in [Users -> [Books -> ReadingRec]]
    <3>1. [rev |-> n, writer |-> d] \in ReadingRec
      BY <2>2 DEF ReadingRec
    <3>2. reading' = [reading EXCEPT ![Owner[d]] =
                        [reading[Owner[d]] EXCEPT ![r] = [rev |-> n, writer |-> d]]]
      BY <2>1 DEF SaveReadingState
    <3> QED
      BY <2>2, <3>1, <3>2
  <2>5. /\ UNCHANGED <<book, row, enabled, sharing, resolving, granting, tag, tombs, mayLose>>
        /\ changes' \in Nat
    BY <2>1, ChangeType DEF SaveReadingState
  <2>6. UNCHANGED <<point, generation, latest, handler, inbox, outbox>>
    BY <1>3 DEF ReadOnDevice
  <2> QED
    BY <2>3, <2>4, <2>5, <2>6 DEF CursorInRange, FiniteItems
<1>4. CASE ForgetTombstone(d, b)
  <2>1. /\ tombs' \in [Devices -> SUBSET Books]
        /\ UNCHANGED <<book, row, enabled, sharing, resolving, granting, reading, tag, mayLose>>
        /\ changes' \in Nat
        /\ UNCHANGED syncVars
    BY <1>4, ChangeType DEF ForgetTombstone, RemoveTombstone
  <2> QED
    BY <2>1 DEF CursorInRange, FiniteItems, syncVars
<1> QED
  BY <1>2, <1>3, <1>4

(***************************************************************************)
(* Types under the administrator, the janitor and a restart.               *)
(***************************************************************************)
LEMMA ResetType == ASSUME TypeInv, NEW d \in Devices, ResetDeviceSyncState(d) PROVE TypeInv'
<1>1. /\ point' \in [Points -> SyncPoint]
      /\ \A p \in Points : point'[p].state = "ongoing" => point'[p].cat < CatDone
  BY ConstantTypes DEF ResetDeviceSyncState, TypeInv, TypeOK, CursorInRange, NoPoint
<1>2. latest' \in [Devices -> PointRef]
  BY HandlerFields DEF ResetDeviceSyncState, TypeInv, TypeOK
<1>3. /\ UNCHANGED <<book, row, enabled, sharing, resolving, granting, reading, tag, tombs, mayLose,
                     handler, inbox, outbox, client>>
      /\ changes' \in Nat
  BY ChangeType DEF ResetDeviceSyncState, TypeInv, TypeOK, LibraryTypeOK
<1> QED
  BY <1>1, <1>2, <1>3 DEF TypeInv, TypeOK, LibraryTypeOK, CursorInRange, FiniteItems

LEMMA JanitorType == ASSUME TypeInv, WeekPasses \/ GCSyncPoints PROVE TypeInv'
<1>1. /\ point' \in [Points -> SyncPoint]
      /\ \A p \in Points : point'[p].state = "ongoing" => point'[p].cat < CatDone
  <2>1. \A p \in Points : /\ [point[p] EXCEPT !.recent = FALSE] \in SyncPoint
                           /\ [point[p] EXCEPT !.recent = FALSE].state = point[p].state
                           /\ [point[p] EXCEPT !.recent = FALSE].cat = point[p].cat
    BY DEF TypeInv, TypeOK, SyncPoint
  <2>2. CASE WeekPasses
    BY <2>1, <2>2 DEF WeekPasses, TypeInv, TypeOK, CursorInRange
  <2>3. CASE GCSyncPoints
    BY <2>3, ConstantTypes DEF GCSyncPoints, TypeInv, TypeOK, CursorInRange, NoPoint
  <2> QED
    BY <2>2, <2>3
<1>2. /\ UNCHANGED <<book, row, enabled, sharing, resolving, granting, reading, tag, tombs, mayLose,
                     latest, handler, inbox, outbox, client>>
      /\ changes' \in Nat
  BY ChangeType DEF WeekPasses, GCSyncPoints, libVars, TypeInv, TypeOK, LibraryTypeOK
<1> QED
  BY <1>1, <1>2 DEF TypeInv, TypeOK, LibraryTypeOK, CursorInRange, FiniteItems

LEMMA RestartType == ASSUME TypeInv, ServerRestarts PROVE TypeInv'
<1>1. /\ handler' \in [Devices -> Handler] /\ outbox' \in [Devices -> Answer]
      /\ inbox' \in [Devices -> SUBSET Request]
  BY ConstantTypes DEF ServerRestarts
<1>2. client' \in [Devices -> Client]
  <2>1. \A d \in Devices : [client[d] EXCEPT !.waiting = FALSE] \in Client
    BY DEF TypeInv, TypeOK, Client
  <2> QED
    BY <2>1 DEF ServerRestarts
<1>3. FiniteItems'
  BY FS_EmptySet DEF ServerRestarts, FiniteItems, Idle, NoAnswer
<1>4. /\ UNCHANGED <<book, row, enabled, sharing, reading, tag, tombs, mayLose, point, generation,
                     latest>>
      /\ changes' \in Nat /\ resolving' = {}
      /\ granting' \in [Sources -> GrantingRec]
  BY ChangeType DEF ServerRestarts, TypeInv, TypeOK, LibraryTypeOK, GrantingRec, NothingToGrant
<1>5. CursorInRange'
  BY <1>4 DEF ServerRestarts, CursorInRange, HandlerInRange, Idle, TypeInv
<1> QED
  BY <1>1, <1>2, <1>3, <1>4, <1>5 DEF TypeInv, TypeOK, LibraryTypeOK

LEMMA NextType == ASSUME TypeInv, [Next]_vars PROVE TypeInv'
<1>1. CASE LibraryStep /\ UNCHANGED syncVars
  BY <1>1, LibraryStepType DEF TypeInv, TypeOK, CursorInRange, FiniteItems, syncVars
<1>2. ASSUME NEW d \in Devices, HandlerStep(d) PROVE TypeInv'
  BY <1>2, BeginSyncType, CheckType, ResumeSyncType, AbandonType, ChooseParentType, CreateType,
     DrainType, SaveType, CompleteType, DropType DEF HandlerStep
<1>3. ASSUME NEW d \in Devices, StepFails(d) PROVE TypeInv'
  BY <1>3, StepFailsType
<1>4. ASSUME NEW d \in Devices, DeviceStep(d) PROVE TypeInv'
  BY <1>4, SendSyncType, ReceiveType, GiveUpType, DeviceRestartsType, OnDeviceType, ResetType
     DEF DeviceStep
<1>5. CASE WeekPasses \/ GCSyncPoints \/ ServerRestarts
  BY <1>5, JanitorType, RestartType
<1>6. CASE UNCHANGED vars
  BY <1>6 DEF vars, libVars, syncVars, TypeInv, TypeOK, LibraryTypeOK, CursorInRange, FiniteItems
<1> QED
  BY <1>1, <1>2, <1>3, <1>4, <1>5, <1>6 DEF Next

(* The strengthened type invariant is an invariant. *)
THEOREM TypeInvariant == Spec => []TypeInv
<1>1. Init => TypeInv
  BY InitType
<1>2. TypeInv /\ [Next]_vars => TypeInv'
  BY NextType
<1> QED
  BY <1>1, <1>2, PTL DEF Spec

(* Type correctness: whatever the library, the devices, the janitor and     *)
(* failures do, a cursor of handleSync's drain stays within its categories, *)
(* and every page, snapshot and token names only what exists.               *)
THEOREM TypeCorrect == Spec => []TypeOK
<1>1. TypeInv => TypeOK
  BY DEF TypeInv
<1> QED
  BY <1>1, TypeInvariant, PTL

-----------------------------------------------------------------------------

(***************************************************************************)
(* At most one half-sent snapshot.  The invariant is inductive once it     *)
(* says that a handler on its way to a new snapshot has retired the old.   *)
(***************************************************************************)
OneOngoingInv ==
  /\ AtMostOneOngoing
  /\ \A d \in Devices : handler[d].pc \in {"parent", "create"} => PointsIn(d, "ongoing") = {}

(* No step but AbandonSyncPoint and CreateSyncPoint gives a device a half-  *)
(* sent snapshot or brings a handler on its way to one.                     *)
LEMMA NoMoreOngoing ==
  ASSUME OneOngoingInv,
         \A p \in Points : point'[p].state = "ongoing"
                             => point[p].state = "ongoing" /\ point'[p].device = point[p].device,
         \A d \in Devices : handler'[d].pc \in {"parent", "create"}
                              => handler[d].pc \in {"parent", "create"}
  PROVE  OneOngoingInv'
<1>1. \A d \in Devices : PointsIn(d, "ongoing")' \subseteq PointsIn(d, "ongoing")
  BY DEF PointsIn, IsState
<1> QED
  BY <1>1 DEF OneOngoingInv, AtMostOneOngoing

(* After a reply the device's handler is idle. *)
LEMMA ReplyPC ==
  ASSUME TypeInv, NEW d \in Devices, NEW last, NEW ongoing, NEW items, Reply(d, last, ongoing, items)
  PROVE  \A e \in Devices : handler'[e] = handler[e] \/ handler'[e].pc = "idle"
BY DEF Reply, Idle, TypeInv, TypeOK

LEMMA OneOngoingHandler ==
  ASSUME TypeInv, OneOngoingInv, NEW d \in Devices, HandlerStep(d)
  PROVE  OneOngoingInv'
<1>0. handler[d] \in Handler /\ handler \in [Devices -> Handler]
  BY HandlerFields DEF TypeInv, TypeOK
<1>1. CASE BeginSync(d)
  <2>1. /\ point' = point
        /\ \A e \in Devices : handler'[e] = handler[e] \/ handler'[e].pc = "check"
    BY <1>0, <1>1 DEF BeginSync, Idle
  <2> QED
    BY <2>1, NoMoreOngoing
<1>2. CASE NothingToSay(d)
  <2>1. point' = point /\ \A e \in Devices : handler'[e] = handler[e] \/ handler'[e].pc = "idle"
    BY <1>2, ReplyPC DEF NothingToSay
  <2> QED
    BY <2>1, NoMoreOngoing
<1>3. CASE SomethingToSay(d)
  <2>1. point' = point /\ \A e \in Devices : handler'[e] = handler[e] \/ handler'[e].pc = "resolve"
    BY <1>0, <1>3 DEF SomethingToSay, Handler
  <2> QED
    BY <2>1, NoMoreOngoing
<1>4. CASE ResumeSync(d)
  <2>1. point' = point /\ \A e \in Devices : handler'[e] = handler[e] \/ handler'[e].pc = "drain"
    BY <1>0, <1>4 DEF ResumeSync, Handler
  <2> QED
    BY <2>1, NoMoreOngoing
<1>5. CASE AbandonSyncPoint(d)
  <2>1. \A e \in Devices \ {d} : handler'[e] = handler[e]
    BY <1>0, <1>5 DEF AbandonSyncPoint
  <2>2. \A e \in Devices : PointsIn(e, "ongoing")' \subseteq PointsIn(e, "ongoing")
    <3>1. CASE point' = point
      BY <3>1 DEF PointsIn, IsState
    <3>2. ASSUME NEW p \in Points,
                 point' = [point EXCEPT ![p].state = "abandoned", ![p].recent = TRUE]
          PROVE  <2>2
      <4>1. \A q \in Points : point'[q].state = "ongoing"
                                => q # p /\ point'[q] = point[q]
        BY <3>2 DEF TypeInv, TypeOK, SyncPoint
      <4> QED
        BY <4>1 DEF PointsIn, IsState
    <3> QED
      BY <1>5, <3>1, <3>2 DEF AbandonSyncPoint, PointsIn
  <2>3. PointsIn(d, "ongoing")' = {}
    <3>1. CASE PointsIn(d, "ongoing") = {}
      BY <2>2, <3>1
    <3>2. ASSUME NEW p \in PointsIn(d, "ongoing"),
                 point' = [point EXCEPT ![p].state = "abandoned", ![p].recent = TRUE]
          PROVE  <2>3
      <4>1. \A q \in PointsIn(d, "ongoing") : q = p
        BY DEF OneOngoingInv, AtMostOneOngoing
      <4>2. point'[p].state = "abandoned"
        BY <3>2 DEF TypeInv, TypeOK, SyncPoint, PointsIn
      <4>3. p \notin PointsIn(d, "ongoing")'
        BY <4>2 DEF PointsIn, IsState
      <4> QED
        BY <2>2, <4>1, <4>3
    <3> QED
      BY <1>5, <3>1, <3>2 DEF AbandonSyncPoint
  <2> QED
    BY <2>1, <2>2, <2>3 DEF OneOngoingInv, AtMostOneOngoing
<1>6. CASE ChooseParent(d)
  <2>1. /\ point' = point /\ handler[d].pc = "parent"
        /\ \A e \in Devices \ {d} : handler'[e] = handler[e]
    BY <1>0, <1>6 DEF ChooseParent, At
  <2> QED
    BY <2>1, NoMoreOngoing
<1>7. CASE CreateSyncPoint(d)
  <2>1. PICK p \in Points :
          /\ point' = [point EXCEPT ![p] = NewSnapshot(d, handler[d].parent)]
          /\ handler' = [handler EXCEPT ![d] = [handler[d] EXCEPT !.pc = "drain", !.sp = p,
                                     !.cat = CatNewBooks, !.key = 0, !.budget = Batch]]
    BY <1>7 DEF CreateSyncPoint
  <2>2. PointsIn(d, "ongoing") = {}
    BY <1>7 DEF CreateSyncPoint, At, OneOngoingInv
  <2>3. point'[p].device = d /\ \A q \in Points \ {p} : point'[q] = point[q]
    BY <2>1 DEF TypeInv, TypeOK, NewSnapshot
  <2>4. PointsIn(d, "ongoing")' \subseteq {p}
    BY <2>2, <2>3 DEF PointsIn, IsState
  <2>5. \A e \in Devices \ {d} : PointsIn(e, "ongoing")' \subseteq PointsIn(e, "ongoing")
    BY <2>3 DEF PointsIn, IsState
  <2>6. handler'[d].pc = "drain" /\ \A e \in Devices \ {d} : handler'[e] = handler[e]
    BY <1>0, <2>1 DEF Handler
  <2> QED
    BY <2>4, <2>5, <2>6 DEF OneOngoingInv, AtMostOneOngoing
<1>8. CASE DrainCategory(d)
  <2>1. point' = point /\ \A e \in Devices \ {d} : handler'[e] = handler[e]
    BY <1>0, <1>8 DEF DrainCategory
  <2>2. handler'[d].pc \in {"complete", "save", "drain"}
    BY <1>0, <1>8 DEF DrainCategory, Drained, Handler
  <2> QED
    BY <2>1, <2>2, NoMoreOngoing
<1>9. CASE SaveSyncCursor(d)
  <2>1. \A e \in Devices : handler'[e] = handler[e] \/ handler'[e].pc = "idle"
    BY <1>9, ReplyPC DEF SaveSyncCursor
  <2>2. \A p \in Points : point'[p].state = point[p].state /\ point'[p].device = point[p].device
    BY <1>9 DEF SaveSyncCursor, TypeInv, TypeOK, SyncPoint
  <2> QED
    BY <2>1, <2>2, NoMoreOngoing
<1>10. CASE CompleteSyncPoint(d)
  <2>1. /\ \A e \in Devices \ {d} : handler'[e] = handler[e]
        /\ handler'[d].pc = "drop"
    BY <1>0, <1>10 DEF CompleteSyncPoint, Handler
  <2>2. \A p \in Points : point'[p] = point[p] \/ point'[p].state = "completed"
    BY <1>10 DEF CompleteSyncPoint, TypeInv, TypeOK, SyncPoint
  <2> QED
    BY <2>1, <2>2, NoMoreOngoing
<1>11. CASE DropParent(d)
  <2>1. \A e \in Devices : handler'[e] = handler[e] \/ handler'[e].pc = "idle"
    BY <1>11, ReplyPC DEF DropParent
  <2>2. \A p \in Points : point'[p] = point[p] \/ point'[p].state = "none"
    BY <1>11 DEF DropParent, NoPoint, TypeInv, TypeOK
  <2> QED
    BY <2>1, <2>2, NoMoreOngoing
<1> QED
  BY <1>1, <1>2, <1>3, <1>4, <1>5, <1>6, <1>7, <1>8, <1>9, <1>10, <1>11 DEF HandlerStep

LEMMA OneOngoingStep ==
  ASSUME TypeInv, OneOngoingInv, [Next]_vars
  PROVE  OneOngoingInv'
<1>0. handler \in [Devices -> Handler] /\ point \in [Points -> SyncPoint]
  BY DEF TypeInv, TypeOK
<1>1. CASE point' = point /\ handler' = handler
  BY <1>1, NoMoreOngoing
<1>2. ASSUME NEW d \in Devices, StepFails(d) PROVE OneOngoingInv'
  <2>1. CASE handler' = [handler EXCEPT ![d].pc = "resolve"]
    <3>1. \A e \in Devices : handler'[e] = handler[e] \/ handler'[e].pc = "resolve"
      BY <1>0, <2>1 DEF Handler
    <3> QED
      BY <1>2, <3>1, NoMoreOngoing DEF StepFails
  <2>2. ASSUME NEW last, NEW ongoing, NEW items, Reply(d, last, ongoing, items)
        PROVE  OneOngoingInv'
    <3>1. \A e \in Devices : handler'[e] = handler[e] \/ handler'[e].pc = "idle"
      BY <2>2, ReplyPC
    <3> QED
      BY <1>2, <3>1, NoMoreOngoing DEF StepFails
  <2> QED
    BY <1>2, <2>1, <2>2 DEF StepFails
<1>3. ASSUME NEW d \in Devices, DeviceStep(d) PROVE OneOngoingInv'
  <2>1. CASE SendSync(d) \/ Receive(d) \/ DeviceRestarts(d)
             \/ \E b \in Books : DeleteOnDevice(d, b) \/ ReadOnDevice(d, b) \/ ForgetTombstone(d, b)
    <3>1. point' = point /\ handler' = handler
      BY <2>1 DEF SendSync, Receive, DeviceRestarts, DeleteOnDevice, ReadOnDevice, ForgetTombstone,
                  syncVars
    <3> QED
      BY <1>1, <3>1
  <2>2. CASE GiveUp(d)
    <3>1. point' = point /\ \A e \in Devices : handler'[e].pc = handler[e].pc
      BY <1>0, <2>2 DEF GiveUp, HangUp, Handler
    <3> QED
      BY <3>1, NoMoreOngoing
  <2>3. CASE ResetDeviceSyncState(d)
    <3>1. /\ handler' = handler
          /\ \A p \in Points : point'[p] = point[p] \/ point'[p].state = "none"
      BY <2>3 DEF ResetDeviceSyncState, NoPoint
    <3> QED
      BY <3>1, NoMoreOngoing
  <2> QED
    BY <1>3, <2>1, <2>2, <2>3 DEF DeviceStep
<1>4. CASE WeekPasses
  <2>1. /\ handler' = handler
        /\ \A p \in Points : point'[p].state = point[p].state /\ point'[p].device = point[p].device
    BY <1>0, <1>4 DEF WeekPasses, SyncPoint
  <2> QED
    BY <2>1, NoMoreOngoing
<1>5. CASE GCSyncPoints
  <2>1. /\ handler' = handler
        /\ \A p \in Points : point'[p] = point[p] \/ point'[p].state = "none"
    BY <1>5 DEF GCSyncPoints, NoPoint
  <2> QED
    BY <2>1, NoMoreOngoing
<1>6. CASE ServerRestarts
  <2>1. point' = point /\ \A e \in Devices : handler'[e].pc = "idle"
    BY <1>6 DEF ServerRestarts, Idle
  <2> QED
    BY <2>1, NoMoreOngoing
<1>7. CASE LibraryStep /\ UNCHANGED syncVars
  BY <1>1, <1>7 DEF syncVars
<1>8. CASE UNCHANGED vars
  BY <1>1, <1>8 DEF vars, syncVars
<1> QED
  BY <1>2, <1>3, <1>4, <1>5, <1>6, <1>7, <1>8, OneOngoingHandler DEF Next

(* resolveSyncPoint retires the newest half-sent snapshot it finds before   *)
(* it makes another, and that is enough: whatever is lost, cancelled,       *)
(* failed, reset or restarted, a device never has two.                      *)
THEOREM OneOngoing == Spec => []AtMostOneOngoing
<1>1. Init => OneOngoingInv
  BY DEF Init, KoboInit, OneOngoingInv, AtMostOneOngoing, PointsIn, IsState, NoPoint, Idle
<1>2. TypeInv /\ OneOngoingInv /\ [Next]_vars => OneOngoingInv'
  BY OneOngoingStep
<1>3. OneOngoingInv => AtMostOneOngoing
  BY DEF OneOngoingInv
<1> QED
  BY <1>1, <1>2, <1>3, TypeInvariant, PTL DEF Spec

(***************************************************************************)
(* No book leaves a device without a reason.  The device drops what a page *)
(* removes, so the invariant follows a removal back to its origin: the     *)
(* difference between the snapshot being sent and its parent, both of      *)
(* which stay as they were until the sync is over.                         *)
(***************************************************************************)

(* A reason in the library is a reason for every device it concerns, and    *)
(* every book that exists has a revision.                                   *)
ReasonsKept ==
  /\ \A b \in Books, d \in Devices :
       book[b].into # 0 \/ book[b].hidden \/ b \in tombs[d] => b \in mayLose[d]
  /\ \A b \in Books : book[b].known => book[b].rev > 0

(* A snapshot is the device's own, or already deleted. *)
Own(p, d) == p = None \/ point[p].state = "none" \/ point[p].device = d

(* Snapshots hold books that exist, and a half-sent one lacks nothing its   *)
(* parent has without a reason.                                             *)
PointSafe(p) ==
  /\ point[p].state = "none" => point[p] = NoPoint
  /\ \A b \in BooksOf(p) : book[b].known
  /\ point[p].state = "ongoing" =>
       /\ point[p].device \in Devices
       /\ Own(point[p].parent, point[p].device)
       /\ RemovedBookIDs(point[p].parent, p) \subseteq mayLose[point[p].device]
PointsSafe == \A p \in Points : PointSafe(p)

ItemsSafe(items, d) ==
  \A i \in items : /\ i.cat = CatRemovedBooks => i.id \in mayLose[d]
                   /\ i.cat \in {CatNewBooks, CatChangedBooks} => i.rev > 0

(* What a handler has collected is safe, and what it has still to collect. *)
HandlerSafe(d) ==
  /\ ItemsSafe(handler[d].items, d)
  /\ handler[d].pc \in {"create", "drain", "save", "complete", "drop"} => Own(handler[d].parent, d)
  /\ handler[d].pc = "drain" => /\ Own(handler[d].sp, d)
                                /\ RemovedBookIDs(handler[d].parent, handler[d].sp) \subseteq mayLose[d]
HandlersSafe == \A d \in Devices : HandlerSafe(d) /\ ItemsSafe(outbox[d].items, d)

SafeInv == ReasonsKept /\ PointsSafe /\ HandlersSafe

(* Reasons accumulate and books never cease to exist. *)
Grows ==
  /\ \A d \in Devices : mayLose[d] \subseteq mayLose'[d]
  /\ \A b \in Books : book[b].known => book'[b].known

(* A snapshot either stays what it is, or is deleted. *)
Stays(p) ==
  /\ point'[p].device = point[p].device /\ point'[p].parent = point[p].parent
  /\ point'[p].books = point[p].books
  /\ point'[p].state = "none" <=> point[p].state = "none"
  /\ point[p].state = "none" => point'[p] = point[p]
  /\ point'[p].state = "ongoing" => point[p].state = "ongoing"
StaysOrGoes(p) == Stays(p) \/ point'[p] = NoPoint

LEMMA OwnKept ==
  ASSUME TypeInv, NEW p \in PointRef, NEW d \in Devices, Own(p, d), \A q \in Points : StaysOrGoes(q)
  PROVE  Own(p, d)'
BY DEF Own, StaysOrGoes, Stays, NoPoint, PointRef

LEMMA RemovedKept ==
  ASSUME NEW p \in PointRef, NEW q \in PointRef, \A x \in Points : StaysOrGoes(x),
         q \in Points => Stays(q)
  PROVE  RemovedBookIDs(p, q)' \subseteq RemovedBookIDs(p, q)
<1>1. BooksOf(p)' \subseteq BooksOf(p)
  BY SyncAssumption DEF BooksOf, Content, StaysOrGoes, Stays, NoPoint, NoBooks, PointRef
<1>2. BooksOf(q)' = BooksOf(q)
  BY SyncAssumption DEF BooksOf, Content, Stays, PointRef
<1> QED
  BY <1>1, <1>2 DEF RemovedBookIDs

LEMMA PointsKept ==
  ASSUME TypeInv, TypeInv', PointsSafe, Grows, \A q \in Points : StaysOrGoes(q)
  PROVE  PointsSafe'
<1> SUFFICES ASSUME NEW p \in Points PROVE PointSafe(p)'
  BY DEF PointsSafe
<1>0. PointSafe(p) /\ p # None
  BY SyncAssumption DEF PointsSafe
<1>1. point'[p].state = "none" => point'[p] = NoPoint
  BY <1>0 DEF PointSafe, StaysOrGoes, Stays, NoPoint
<1>2. \A b \in BooksOf(p)' : book'[b].known
  <2>1. BooksOf(p)' \subseteq BooksOf(p)
    BY <1>0 DEF BooksOf, Content, StaysOrGoes, Stays, NoPoint, NoBooks
  <2>2. BooksOf(p) \subseteq Books
    BY DEF BooksOf
  <2> QED
    BY <1>0, <2>1, <2>2 DEF PointSafe, Grows
<1>3. ASSUME point'[p].state = "ongoing"
      PROVE  /\ point'[p].device \in Devices
             /\ Own(point[p].parent, point[p].device)'
             /\ RemovedBookIDs(point[p].parent, p)' \subseteq mayLose'[point'[p].device]
  <2>1. Stays(p)
    BY <1>3 DEF StaysOrGoes, NoPoint
  <2>2. PICK q, d : q = point[p].parent /\ d = point[p].device
    OBVIOUS
  <2>3. point[p].state = "ongoing" /\ point'[p].device = d /\ point'[p].parent = q
    BY <1>3, <2>1, <2>2 DEF Stays
  <2>4. q \in PointRef /\ p \in PointRef
    BY <2>2 DEF TypeInv, TypeOK, SyncPoint, PointRef
  <2>5. d \in Devices /\ Own(q, d) /\ RemovedBookIDs(q, p) \subseteq mayLose[d]
    BY <1>0, <2>2, <2>3 DEF PointSafe
  <2>6. Own(q, d)'
    BY <2>4, <2>5, OwnKept
  <2>7. RemovedBookIDs(q, p)' \subseteq mayLose'[d]
    BY <2>1, <2>4, <2>5, RemovedKept DEF Grows
  <2>8. Own(point[p].parent, point[p].device)' /\ RemovedBookIDs(point[p].parent, p)' = RemovedBookIDs(q, p)'
    BY <2>3, <2>6 DEF Own, RemovedBookIDs, BooksOf, Content
  <2> QED
    BY <2>3, <2>5, <2>7, <2>8
<1> QED
  BY <1>1, <1>2, <1>3 DEF PointSafe

(* Handlers that are not touched keep what they have, unless the snapshot   *)
(* one of them is sending is deleted under it.                              *)
LEMMA HandlerKept ==
  ASSUME TypeInv, NEW d \in Devices, HandlerSafe(d), Grows, \A q \in Points : StaysOrGoes(q),
         handler'[d] = handler[d],
         handler[d].pc = "drain" /\ handler[d].sp \in Points => Stays(handler[d].sp)
  PROVE  HandlerSafe(d)'
<1>1. PICK q, p : q = handler[d].parent /\ p = handler[d].sp
  OBVIOUS
<1>2. handler'[d].parent = q /\ handler'[d].sp = p /\ q \in PointRef /\ p \in PointRef
  BY <1>1, HandlerFields
<1>3. ItemsSafe(handler[d].items, d)'
  BY DEF HandlerSafe, ItemsSafe, Grows
<1>4. handler'[d].pc \in {"create", "drain", "save", "complete", "drop"} => Own(handler[d].parent, d)'
  <2>1. handler[d].pc \in {"create", "drain", "save", "complete", "drop"} => Own(q, d)'
    BY <1>1, <1>2, OwnKept DEF HandlerSafe
  <2> QED
    BY <1>2, <2>1 DEF Own
<1>5. ASSUME handler'[d].pc = "drain"
      PROVE  /\ Own(handler[d].sp, d)'
             /\ RemovedBookIDs(handler[d].parent, handler[d].sp)' \subseteq mayLose'[d]
  <2>1. Own(p, d) /\ RemovedBookIDs(q, p) \subseteq mayLose[d]
    BY <1>1, <1>5 DEF HandlerSafe
  <2>2. Own(p, d)'
    BY <1>2, <2>1, OwnKept
  <2>3. RemovedBookIDs(q, p)' \subseteq mayLose'[d]
    BY <1>1, <1>2, <1>5, <2>1, RemovedKept DEF Grows
  <2> QED
    BY <1>2, <2>2, <2>3 DEF Own, RemovedBookIDs, BooksOf, Content
<1> QED
  BY <1>3, <1>4, <1>5 DEF HandlerSafe

(* The other devices, when one device's handler takes a step. *)
LEMMA OthersKept ==
  ASSUME TypeInv, HandlersSafe, Grows, \A q \in Points : StaysOrGoes(q), NEW d \in Devices,
         \A e \in Devices \ {d} : handler'[e] = handler[e] /\ outbox'[e] = outbox[e],
         \A e \in Devices \ {d} : handler[e].pc = "drain" /\ handler[e].sp \in Points
                                     => Stays(handler[e].sp),
         HandlerSafe(d)', ItemsSafe(outbox[d].items, d)'
  PROVE  HandlersSafe'
<1> SUFFICES ASSUME NEW e \in Devices PROVE HandlerSafe(e)' /\ ItemsSafe(outbox[e].items, e)'
  BY DEF HandlersSafe
<1>1. CASE e = d
  BY <1>1
<1>2. CASE e # d
  <2>1. HandlerSafe(e)'
    BY <1>2, HandlerKept DEF HandlersSafe
  <2>2. ItemsSafe(outbox[e].items, e)'
    BY <1>2 DEF HandlersSafe, ItemsSafe, Grows
  <2> QED
    BY <2>1, <2>2
<1> QED
  BY <1>1, <1>2

(* A reply carries items that are safe and leaves an idle handler. *)
LEMMA ReplySafe ==
  ASSUME TypeInv, HandlersSafe, Grows, NEW d \in Devices, NEW last, NEW ongoing, NEW items,
         Reply(d, last, ongoing, items), ItemsSafe(items, d)
  PROVE  /\ HandlerSafe(d)' /\ ItemsSafe(outbox[d].items, d)'
         /\ \A e \in Devices \ {d} : handler'[e] = handler[e] /\ outbox'[e] = outbox[e]
<1>1. handler'[d] = Idle /\ \A e \in Devices \ {d} : handler'[e] = handler[e]
  BY DEF Reply, TypeInv, TypeOK
<1>2. /\ \A e \in Devices \ {d} : outbox'[e] = outbox[e]
      /\ outbox'[d].items \in {outbox[d].items, items}
  BY DEF Reply, TypeInv, TypeOK
<1>3. HandlerSafe(d)'
  BY <1>1 DEF HandlerSafe, ItemsSafe, Idle
<1>4. ItemsSafe(outbox[d].items, d)'
  BY <1>2 DEF HandlersSafe, ItemsSafe, Grows
<1> QED
  BY <1>1, <1>2, <1>3, <1>4

(***************************************************************************)
(* Reasons are kept by every step.                                         *)
(***************************************************************************)
LEMMA ResolvedKeeps ==
  ASSUME NEW bk \in [Books -> BookRec], NEW rw, NEW en, NEW b \in Books, NEW changed
  PROVE  /\ Resolved(bk, rw, en, b, changed).known = bk[b].known
         /\ Resolved(bk, rw, en, b, changed).into = bk[b].into
         /\ Resolved(bk, rw, en, b, changed).hidden = bk[b].hidden
         /\ Resolved(bk, rw, en, b, changed).rev >= bk[b].rev
BY DEF Resolved, BookRec

(* A step that leaves tombstones and reasons alone, and changes a book only *)
(* as Resolve does. *)
LEMMA BooksResolved ==
  ASSUME TypeInv, ReasonsKept, tombs' = tombs, mayLose' = mayLose,
         \A b \in Books : /\ book'[b].known = book[b].known /\ book'[b].into = book[b].into
                           /\ book'[b].hidden = book[b].hidden /\ book'[b].rev >= book[b].rev
                           /\ book'[b].rev \in Nat
  PROVE  ReasonsKept' /\ Grows
<1>1. \A b \in Books : book[b].rev \in Nat
  BY DEF TypeInv, TypeOK, LibraryTypeOK, BookRec
<1> QED
  BY <1>1 DEF ReasonsKept, Grows

LEMMA IngestSafe == ASSUME TypeInv, ReasonsKept, NEW r \in Rows, Ingest(r) PROVE ReasonsKept' /\ Grows
<1>1. PICK m \in Matches(r), b \in Books, changed \in BOOLEAN : AttachRow(r, m, b, changed)
  BY DEF Ingest
<1> DEFINE losers == m \ {b}
           merged == BooksAfterMerge(b, losers, m = {})
<1>2. /\ m \subseteq Books /\ IF m = {} THEN ~book[b].known ELSE b \in m
      /\ book \in [Books -> BookRec]
  BY <1>1 DEF Matches, Roots, AttachRow, TypeInv, TypeOK, LibraryTypeOK
<1>3. ASSUME NEW c \in Books
      PROVE  /\ merged[c] \in BookRec /\ merged[c].hidden = book[c].hidden
             /\ merged[c].known = book[c].known \/ (merged[c].known /\ merged[c].rev = 1)
             /\ merged[c].known = book[c].known => merged[c].rev = book[c].rev \/ merged[c].rev = 1
             /\ merged[c].into # 0 => book[c].into # 0 \/ c \in losers
             /\ book[c].known => merged[c].known
  <2>1. book[c] \in BookRec
    BY <1>2
  <2>2. CASE c \in losers
    BY <2>1, <2>2 DEF BooksAfterMerge, BookRec
  <2>3. CASE c = b /\ m = {}
    <3>1. merged[c] \in BookRec
      BY <2>1, <2>3 DEF BooksAfterMerge, BookRec
    <3>2. merged[c].hidden = book[c].hidden /\ merged[c].into = book[c].into
      BY <2>1, <2>3 DEF BooksAfterMerge, BookRec
    <3>3. merged[c].known = TRUE /\ merged[c].rev = 1
      BY <2>1, <2>3 DEF BooksAfterMerge, BookRec
    <3> HIDE DEF merged
    <3> QED
      BY <3>1, <3>2, <3>3
  <2>4. CASE c \notin losers /\ ~(c = b /\ m = {})
    <3>1. merged[c] = book[c]
      BY <2>4 DEF BooksAfterMerge
    <3> HIDE DEF merged
    <3> QED
      BY <2>1, <3>1 DEF BookRec
  <2> QED
    BY <2>2, <2>3, <2>4
<1>4. merged \in [Books -> BookRec]
  BY <1>3 DEF BooksAfterMerge
<1> HIDE DEF merged
<1>5. book' = [merged EXCEPT ![b] = Resolved(merged, row', enabled, b, changed)]
  BY <1>1 DEF AttachRow, merged
<1>6. ASSUME NEW c \in Books
      PROVE  /\ book'[c].known = merged[c].known /\ book'[c].into = merged[c].into
             /\ book'[c].hidden = merged[c].hidden /\ book'[c].rev >= merged[c].rev
  <2>1. CASE c = b
    BY <1>4, <1>5, <2>1, ResolvedKeeps
  <2>2. CASE c # b
    <3>1. book'[c] = merged[c] /\ merged[c].rev \in Nat
      BY <1>4, <1>5, <2>2 DEF BookRec
    <3> QED
      BY <3>1
  <2> QED
    BY <2>1, <2>2
<1>7. /\ \A d \in Devices : mayLose[d] \subseteq mayLose'[d] /\ losers \subseteq mayLose'[d]
      /\ \A d \in Devices : tombs'[d] \subseteq tombs[d] \cup mayLose'[d]
  BY <1>1 DEF AttachRow, TombsAfterMerge, TypeInv, TypeOK, LibraryTypeOK
<1>8. ASSUME NEW c \in Books, NEW d \in Devices,
             book'[c].into # 0 \/ book'[c].hidden \/ c \in tombs'[d]
      PROVE  c \in mayLose'[d]
  BY <1>3, <1>6, <1>7, <1>8 DEF ReasonsKept
<1>9. ASSUME NEW c \in Books, book'[c].known PROVE book'[c].rev > 0
  <2>1. merged[c].rev > 0 /\ merged[c].rev \in Nat
    BY <1>3, <1>6, <1>9 DEF ReasonsKept, BookRec
  <2>2. book'[c].rev \in Nat
    BY IngestType DEF TypeInv, TypeOK, LibraryTypeOK, BookRec
  <2> QED
    BY <1>6, <2>1, <2>2
<1>10. \A c \in Books : book[c].known => book'[c].known
  BY <1>3, <1>6
<1> QED
  BY <1>7, <1>8, <1>9, <1>10 DEF ReasonsKept, Grows

LEMMA LibraryStepSafe == ASSUME TypeInv, ReasonsKept, LibraryStep PROVE ReasonsKept' /\ Grows
<1>0. book \in [Books -> BookRec] /\ book' \in [Books -> BookRec]
  BY LibraryStepType DEF TypeInv, TypeOK, LibraryTypeOK
<1>00. \A b \in Books : book[b].rev \in Nat /\ book'[b].rev \in Nat
  BY <1>0 DEF BookRec
<1>1. ASSUME NEW r \in Rows, Ingest(r) PROVE ReasonsKept' /\ Grows
  BY <1>1, IngestSafe
<1>2. ASSUME NEW r \in Rows, Vanish(r) PROVE ReasonsKept' /\ Grows
  <2>1. PICK b \in Books, changed \in BOOLEAN :
          book' = [book EXCEPT ![b] = Resolved(book, row', enabled, b, changed)]
    BY <1>2 DEF Vanish
  <2>2. \A c \in Books : /\ book'[c].known = book[c].known /\ book'[c].into = book[c].into
                          /\ book'[c].hidden = book[c].hidden /\ book'[c].rev >= book[c].rev
    BY <1>0, <1>00, <2>1, ResolvedKeeps
  <2>3. tombs' = tombs /\ mayLose' = mayLose
    BY <1>2 DEF Vanish
  <2> QED
    BY <1>00, <2>2, <2>3, BooksResolved
<1>3. ASSUME NEW b \in Books, SetBookHidden(b) PROVE ReasonsKept' /\ Grows
  <2>1. /\ \A c \in Books : /\ book'[c].known = book[c].known /\ book'[c].into = book[c].into
                             /\ book'[c].rev = book[c].rev
        /\ \A c \in Books \ {b} : book'[c].hidden = book[c].hidden
        /\ book'[b].hidden = ~book[b].hidden
    BY <1>0, <1>3 DEF SetBookHidden, BookRec
  <2>2. /\ \A d \in Devices : mayLose[d] \subseteq mayLose'[d]
        /\ ~book[b].hidden => \A d \in Devices : b \in mayLose'[d]
        /\ tombs' = tombs
    BY <1>3 DEF SetBookHidden, TypeInv, TypeOK, LibraryTypeOK
  <2>3. ASSUME NEW c \in Books, NEW d \in Devices,
               book'[c].into # 0 \/ book'[c].hidden \/ c \in tombs'[d]
        PROVE  c \in mayLose'[d]
    <3>1. CASE c = b /\ book'[c].hidden
      BY <2>1, <2>2, <3>1
    <3>2. CASE ~(c = b /\ book'[c].hidden)
      BY <2>1, <2>2, <2>3, <3>2 DEF ReasonsKept
    <3> QED
      BY <3>1, <3>2
  <2> QED
    BY <2>1, <2>2, <2>3 DEF ReasonsKept, Grows
<1>4. ASSUME NEW s \in Sources, ResolveSource(s) PROVE ReasonsKept' /\ Grows
  <2>1. PICK changed \in SUBSET BooksTouchedBySource(s) :
          book' = [b \in Books |-> IF b \in BooksTouchedBySource(s)
                                   THEN Resolved(book, row, enabled, b, b \in changed)
                                   ELSE book[b]]
    BY <1>4 DEF ResolveSource
  <2>2. ASSUME NEW c \in Books
        PROVE  /\ book'[c].known = book[c].known /\ book'[c].into = book[c].into
               /\ book'[c].hidden = book[c].hidden /\ book'[c].rev >= book[c].rev
    <3>1. CASE book'[c] = Resolved(book, row, enabled, c, c \in changed)
      BY <1>0, <3>1, ResolvedKeeps
    <3>2. CASE book'[c] = book[c]
      BY <1>00, <3>2
    <3> QED
      BY <2>1, <3>1, <3>2
  <2>3. tombs' = tombs /\ mayLose' = mayLose
    BY <1>4 DEF ResolveSource
  <2> QED
    BY <1>00, <2>2, <2>3, BooksResolved
<1>5. CASE UNCHANGED <<book, tombs, mayLose>>
  BY <1>5 DEF ReasonsKept, Grows
<1> QED
  BY <1>1, <1>2, <1>3, <1>4, <1>5 DEF LibraryStep, SetSourceEnabled, ClearSourceACL, SetSourceSharing,
     GrantSource, CreateTag, TouchTag, DeleteTag

(***************************************************************************)
(* The handler's steps.                                                    *)
(***************************************************************************)
LEMMA LibraryUnchanged ==
  ASSUME ReasonsKept, UNCHANGED <<book, tombs, mayLose>> PROVE ReasonsKept' /\ Grows
BY DEF ReasonsKept, Grows

LEMMA PointsUnchanged == ASSUME point' = point PROVE \A q \in Points : Stays(q) /\ StaysOrGoes(q)
BY DEF Stays, StaysOrGoes

(* One handler moves on; no snapshot changes and no answer is sent. *)
LEMMA QuietStep ==
  ASSUME TypeInv, TypeInv', SafeInv, NEW d \in Devices,
         UNCHANGED <<libVars, point, outbox>>,
         \A e \in Devices \ {d} : handler'[e] = handler[e], HandlerSafe(d)'
  PROVE  SafeInv'
<1>1. ReasonsKept' /\ Grows
  BY LibraryUnchanged DEF SafeInv, libVars
<1>2. \A q \in Points : Stays(q) /\ StaysOrGoes(q)
  BY PointsUnchanged
<1>3. PointsSafe'
  BY <1>1, <1>2, PointsKept DEF SafeInv
<1>4. ItemsSafe(outbox[d].items, d)'
  BY <1>1 DEF SafeInv, HandlersSafe, ItemsSafe, Grows
<1>5. HandlersSafe'
  BY <1>1, <1>2, <1>4, OthersKept DEF SafeInv
<1> QED
  BY <1>1, <1>3, <1>5 DEF SafeInv

(* One handler answers with what it has collected; snapshots may change     *)
(* behind it as long as no other handler loses the one it is sending.       *)
LEMMA ReplyStep ==
  ASSUME TypeInv, TypeInv', SafeInv, NEW d \in Devices, NEW last, NEW ongoing, NEW items,
         UNCHANGED <<book, tombs, mayLose>>, Reply(d, last, ongoing, items), ItemsSafe(items, d),
         \A q \in Points : StaysOrGoes(q),
         \A e \in Devices \ {d} : handler[e].pc = "drain" /\ handler[e].sp \in Points
                                     => Stays(handler[e].sp)
  PROVE  SafeInv'
<1>1. ReasonsKept' /\ Grows
  BY LibraryUnchanged DEF SafeInv
<1>2. PointsSafe'
  BY <1>1, PointsKept DEF SafeInv
<1>3. HandlersSafe'
  <2>1. /\ HandlerSafe(d)' /\ ItemsSafe(outbox[d].items, d)'
        /\ \A e \in Devices \ {d} : handler'[e] = handler[e] /\ outbox'[e] = outbox[e]
    BY <1>1, ReplySafe DEF SafeInv
  <2> QED
    BY <1>1, <2>1, OthersKept DEF SafeInv
<1> QED
  BY <1>1, <1>2, <1>3 DEF SafeInv

LEMMA ResolveSafe ==
  ASSUME TypeInv, TypeInv', SafeInv, NEW d \in Devices,
         BeginSync(d) \/ NothingToSay(d) \/ SomethingToSay(d) \/ ResumeSync(d) \/ ChooseParent(d)
  PROVE  SafeInv'
<1>0. handler[d] \in Handler /\ handler \in [Devices -> Handler]
  BY HandlerFields DEF TypeInv, TypeOK
<1>00. ItemsSafe(handler[d].items, d)
  BY DEF SafeInv, HandlersSafe, HandlerSafe
<1>1. CASE BeginSync(d)
  <2>1. /\ handler'[d].pc = "check" /\ handler'[d].items = {}
        /\ \A e \in Devices \ {d} : handler'[e] = handler[e]
        /\ UNCHANGED <<libVars, point, outbox>>
    BY <1>0, <1>1 DEF BeginSync, Idle
  <2>2. HandlerSafe(d)'
    BY <2>1 DEF HandlerSafe, ItemsSafe
  <2> QED
    BY <2>1, <2>2, QuietStep
<1>2. CASE NothingToSay(d)
  <2>1. /\ UNCHANGED <<book, tombs, mayLose>> /\ point' = point
        /\ Reply(d, handler[d].last, None, {})
    BY <1>2 DEF NothingToSay, libVars
  <2>2. ItemsSafe({}, d)
    BY DEF ItemsSafe
  <2> QED
    BY <2>1, <2>2, PointsUnchanged, ReplyStep
<1>3. CASE SomethingToSay(d)
  <2>1. /\ handler'[d].pc = "resolve" /\ handler'[d].items = handler[d].items
        /\ \A e \in Devices \ {d} : handler'[e] = handler[e]
        /\ UNCHANGED <<libVars, point, outbox>>
    BY <1>0, <1>3 DEF SomethingToSay, Handler
  <2>2. HandlerSafe(d)'
    BY <1>00, <2>1 DEF HandlerSafe, ItemsSafe, libVars
  <2> QED
    BY <2>1, <2>2, QuietStep
<1>4. CASE ResumeSync(d)
  <2> DEFINE sp == handler[d].ongoing
  <2>1. /\ sp \in Points /\ point[sp].state = "ongoing" /\ point[sp].device = d
        /\ UNCHANGED <<libVars, point, outbox>>
    BY <1>4, HandlerFields DEF ResumeSync, IsState, PointRef
  <2>2. /\ handler'[d].pc = "drain" /\ handler'[d].items = handler[d].items
        /\ handler'[d].sp = sp /\ handler'[d].parent = point[sp].parent
        /\ \A e \in Devices \ {d} : handler'[e] = handler[e]
    BY <1>0, <1>4 DEF ResumeSync, Handler
  <2>3. PICK q, p : q = point[sp].parent /\ p = sp
    OBVIOUS
  <2>4. Own(q, d) /\ RemovedBookIDs(q, p) \subseteq mayLose[d] /\ Own(p, d)
    BY <2>1, <2>3 DEF SafeInv, PointsSafe, PointSafe, Own
  <2>5. Own(q, d)' /\ RemovedBookIDs(q, p)' \subseteq mayLose'[d] /\ Own(p, d)'
    BY <2>1, <2>4 DEF Own, RemovedBookIDs, BooksOf, Content, libVars
  <2>6. handler'[d].sp = p /\ handler'[d].parent = q
    BY <2>2, <2>3
  <2>7. ItemsSafe(handler[d].items, d)'
    BY <1>00, <2>1, <2>2 DEF ItemsSafe, libVars
  <2>8. HandlerSafe(d)'
    BY <2>2, <2>5, <2>6, <2>7 DEF HandlerSafe, Own, RemovedBookIDs, BooksOf, Content
  <2> QED
    BY <2>1, <2>2, <2>8, QuietStep
<1>5. CASE ChooseParent(d)
  <2>1. PICK parent \in IF IsState(handler[d].last, d, "completed")
                        THEN {handler[d].last} ELSE LastCompleted(d) :
          handler' = [handler EXCEPT ![d].pc = "create", ![d].parent = parent]
    BY <1>5 DEF ChooseParent
  <2>2. Own(parent, d)
    BY <2>1 DEF Own, IsState, LastCompleted, PointsIn
  <2>3. /\ handler'[d].pc = "create" /\ handler'[d].items = handler[d].items
        /\ handler'[d].parent = parent
        /\ \A e \in Devices \ {d} : handler'[e] = handler[e]
        /\ UNCHANGED <<libVars, point, outbox>>
    BY <1>0, <1>5, <2>1 DEF ChooseParent, Handler
  <2>4. HandlerSafe(d)'
    BY <1>00, <2>2, <2>3 DEF HandlerSafe, ItemsSafe, Own, libVars
  <2> QED
    BY <2>3, <2>4, QuietStep
<1> QED
  BY <1>1, <1>2, <1>3, <1>4, <1>5

LEMMA AbandonSafe ==
  ASSUME TypeInv, TypeInv', SafeInv, NEW d \in Devices, AbandonSyncPoint(d) \/ CompleteSyncPoint(d)
  PROVE  SafeInv'
<1>0. handler[d] \in Handler /\ handler \in [Devices -> Handler]
  BY HandlerFields DEF TypeInv, TypeOK
<1>1. \A q \in Points : Stays(q)
  <2>1. CASE AbandonSyncPoint(d)
    <3>1. CASE point' = point
      BY <3>1, PointsUnchanged
    <3>2. ASSUME NEW p \in Points, point[p].state = "ongoing",
                 point' = [point EXCEPT ![p].state = "abandoned", ![p].recent = TRUE]
          PROVE  <1>1
      BY <3>2 DEF Stays, TypeInv, TypeOK, SyncPoint
    <3> QED
      BY <2>1, <3>1, <3>2 DEF AbandonSyncPoint, PointsIn, IsState
  <2>2. CASE CompleteSyncPoint(d)
    <3>1. CASE point' = point
      BY <3>1, PointsUnchanged
    <3>2. CASE /\ point[handler[d].sp].state # "none"
               /\ point' = [point EXCEPT ![handler[d].sp].state = "completed",
                                         ![handler[d].sp].cat = CatDone,
                                         ![handler[d].sp].recent = TRUE]
      BY <3>2 DEF Stays, TypeInv, TypeOK, SyncPoint
    <3> QED
      BY <2>2, <3>1, <3>2 DEF CompleteSyncPoint
  <2> QED
    BY <2>1, <2>2
<1>2. /\ handler'[d].pc = "parent" \/ (handler'[d].pc = "drop" /\ handler[d].pc = "complete")
      /\ handler'[d].items = handler[d].items /\ handler'[d].parent = handler[d].parent
      /\ \A e \in Devices \ {d} : handler'[e] = handler[e]
      /\ UNCHANGED <<libVars, outbox>>
  BY <1>0 DEF AbandonSyncPoint, CompleteSyncPoint, Handler, At
<1>3. ReasonsKept' /\ Grows
  BY <1>2, LibraryUnchanged DEF SafeInv, libVars
<1>4. \A q \in Points : StaysOrGoes(q)
  BY <1>1 DEF StaysOrGoes
<1>5. HandlerSafe(d)'
  <2>1. ItemsSafe(handler[d].items, d)'
    BY <1>2, <1>3 DEF SafeInv, HandlersSafe, HandlerSafe, ItemsSafe, Grows
  <2>2. CASE handler'[d].pc = "parent"
    BY <2>1, <2>2 DEF HandlerSafe
  <2>3. CASE handler'[d].pc = "drop" /\ handler[d].pc = "complete"
    <3>1. PICK q : q = handler[d].parent
      OBVIOUS
    <3>2. Own(q, d) /\ q \in PointRef
      BY <2>3, <3>1, HandlerFields DEF SafeInv, HandlersSafe, HandlerSafe
    <3>3. Own(q, d)'
      BY <1>4, <3>2, OwnKept
    <3>4. handler'[d].parent = q
      BY <1>2, <3>1
    <3> QED
      BY <2>1, <2>3, <3>3, <3>4 DEF HandlerSafe, Own
  <2> QED
    BY <1>2, <2>2, <2>3
<1>6. ItemsSafe(outbox[d].items, d)'
  BY <1>2, <1>3 DEF SafeInv, HandlersSafe, ItemsSafe, Grows
<1>7. HandlersSafe'
  BY <1>1, <1>2, <1>3, <1>4, <1>5, <1>6, OthersKept DEF SafeInv
<1> QED
  BY <1>3, <1>4, <1>7, PointsKept DEF SafeInv

(* A new snapshot lacks nothing its parent has without a reason. *)
LEMMA NewSnapshotSafe ==
  ASSUME TypeInv, SafeInv, NEW d \in Devices, NEW parent \in PointRef, Own(parent, d)
  PROVE  /\ SnapshotBooks(d, parent) \subseteq {b \in Books : book[b].known}
         /\ BooksOf(parent) \ SnapshotBooks(d, parent) \subseteq mayLose[d]
         /\ \A b \in Books : NewSnapshot(d, parent).books[b] > 0 <=> b \in SnapshotBooks(d, parent)
<1>1. SnapshotBooks(d, parent) \subseteq {b \in Books : book[b].known}
  BY DEF SnapshotBooks, Roots, IsRoot
<1>2. ASSUME NEW b \in BooksOf(parent), b \notin SnapshotBooks(d, parent) PROVE b \in mayLose[d]
  <2>1. b \in Books /\ book[b].known
    <3>1. parent \in Points
      BY <1>2 DEF BooksOf, Content, NoPoint, NoBooks, PointRef
    <3> QED
      BY <3>1 DEF SafeInv, PointsSafe, PointSafe, BooksOf
  <2>2. book[b].into # 0 \/ book[b].hidden \/ b \in tombs[d]
    BY <1>2, <2>1 DEF SnapshotBooks, Roots, IsRoot
  <2> QED
    BY <2>1, <2>2 DEF SafeInv, ReasonsKept
<1>3. \A b \in SnapshotBooks(d, parent) : book[b].rev > 0
  BY <1>1 DEF SafeInv, ReasonsKept
<1> QED
  BY <1>1, <1>2, <1>3 DEF NewSnapshot

LEMMA CreateSafe ==
  ASSUME TypeInv, TypeInv', SafeInv, NEW d \in Devices, CreateSyncPoint(d)
  PROVE  SafeInv'
<1>0. /\ handler[d] \in Handler /\ handler \in [Devices -> Handler] /\ point \in [Points -> SyncPoint]
      /\ handler[d].parent \in PointRef
  BY HandlerFields DEF TypeInv, TypeOK
<1>1. PICK parent : parent = handler[d].parent
  OBVIOUS
<1>2. PICK p \in Points :
        /\ Unused(p)
        /\ point' = [point EXCEPT ![p] = NewSnapshot(d, parent)]
        /\ handler' = [handler EXCEPT ![d] = [handler[d] EXCEPT !.pc = "drain", !.sp = p,
                                   !.cat = CatNewBooks, !.key = 0, !.budget = Batch]]
  BY <1>1 DEF CreateSyncPoint
<1>3. /\ handler[d].pc = "create" /\ UNCHANGED <<libVars, outbox>> /\ p # None
      /\ UNCHANGED <<book, tombs, mayLose>>
  BY SyncAssumption DEF CreateSyncPoint, At, libVars
<1>4. /\ handler'[d].pc = "drain" /\ handler'[d].items = handler[d].items
      /\ handler'[d].sp = p /\ handler'[d].parent = parent
      /\ \A e \in Devices \ {d} : handler'[e] = handler[e]
  BY <1>0, <1>1, <1>2 DEF Handler
<1>5. /\ point'[p] = NewSnapshot(d, parent) /\ point[p].state = "none"
      /\ \A q \in Points \ {p} : point'[q] = point[q]
      /\ \A q \in Points : point[q].parent # p
      /\ \A e \in Devices : handler[e].sp # p /\ handler[e].parent # p
  BY <1>0, <1>2 DEF Unused
<1>6. parent \in PointRef /\ parent # p /\ Own(parent, d)
  BY <1>0, <1>1, <1>3, <1>5 DEF SafeInv, HandlersSafe, HandlerSafe
<1>7. ReasonsKept' /\ Grows
  BY <1>3, LibraryUnchanged DEF SafeInv
<1>8. \A q \in PointRef \ {p} : BooksOf(q)' = BooksOf(q)
  BY <1>5 DEF BooksOf, Content, PointRef
<1>9. BooksOf(p)' = SnapshotBooks(d, parent)
  <2>1. SnapshotBooks(d, parent) \subseteq Books
    BY DEF SnapshotBooks, Roots
  <2>2. \A b \in Books : point'[p].books[b] > 0 <=> b \in SnapshotBooks(d, parent)
    BY <1>5, <1>6, NewSnapshotSafe
  <2> QED
    BY <1>3, <2>1, <2>2 DEF BooksOf, Content
<1>10. Own(parent, d)' /\ RemovedBookIDs(parent, p)' \subseteq mayLose'[d]
  <2>1. Own(parent, d)'
    BY <1>5, <1>6 DEF Own, PointRef
  <2> QED
    BY <1>3, <1>6, <1>8, <1>9, <2>1, NewSnapshotSafe DEF RemovedBookIDs
<1>11. PointsSafe'
  <2> SUFFICES ASSUME NEW q \in Points PROVE PointSafe(q)'
    BY DEF PointsSafe
  <2>1. CASE q = p
    <3>1. point'[q].state = "ongoing" /\ point'[q].device = d /\ point'[q].parent = parent
      BY <1>5, <2>1 DEF NewSnapshot
    <3>2. \A b \in BooksOf(q)' : book'[b].known
      BY <1>3, <1>6, <1>9, <2>1, NewSnapshotSafe
    <3> QED
      BY <1>10, <2>1, <3>1, <3>2 DEF PointSafe, Own, RemovedBookIDs, BooksOf, Content
  <2>2. CASE q # p
    <3>1. PICK x, e : x = point[q].parent /\ e = point[q].device
      OBVIOUS
    <3>2. point'[q] = point[q] /\ x # p /\ x \in PointRef /\ q \in PointRef \ {p} /\ PointSafe(q)
      BY <1>5, <2>2, <3>1 DEF TypeInv, TypeOK, SyncPoint, PointRef, SafeInv, PointsSafe
    <3>3. \A b \in BooksOf(q)' : book'[b].known
      BY <1>3, <1>8, <3>2 DEF PointSafe
    <3>4. ASSUME point[q].state = "ongoing"
          PROVE  e \in Devices /\ Own(x, e)' /\ RemovedBookIDs(x, q)' \subseteq mayLose'[e]
      <4>1. e \in Devices /\ Own(x, e) /\ RemovedBookIDs(x, q) \subseteq mayLose[e]
        BY <3>1, <3>2, <3>4 DEF PointSafe
      <4>2. Own(x, e)'
        BY <1>5, <3>2, <4>1 DEF Own, PointRef
      <4> QED
        BY <1>3, <1>8, <3>2, <4>1, <4>2 DEF RemovedBookIDs
    <3>5. point'[q].parent = x /\ point'[q].device = e
      BY <3>1, <3>2
    <3> QED
      BY <3>2, <3>3, <3>4, <3>5 DEF PointSafe, Own, RemovedBookIDs, BooksOf, Content
  <2> QED
    BY <2>1, <2>2
<1>12. HandlersSafe'
  <2> SUFFICES ASSUME NEW e \in Devices PROVE HandlerSafe(e)' /\ ItemsSafe(outbox[e].items, e)'
    BY DEF HandlersSafe
  <2>1. HandlerSafe(e) /\ ItemsSafe(outbox[e].items, e)
    BY DEF SafeInv, HandlersSafe
  <2>2. ItemsSafe(outbox[e].items, e)' /\ ItemsSafe(handler[e].items, e)'
    BY <1>3, <1>4, <2>1 DEF HandlerSafe, ItemsSafe
  <2>3. CASE e = d
    <3>1. Own(p, d)'
      BY <1>5 DEF Own, NewSnapshot
    <3> QED
      BY <1>4, <1>10, <2>2, <2>3, <3>1 DEF HandlerSafe, Own, RemovedBookIDs, BooksOf, Content
  <2>4. CASE e # d
    <3>1. PICK x, y : x = handler[e].parent /\ y = handler[e].sp
      OBVIOUS
    <3>2. /\ handler'[e] = handler[e] /\ x \in PointRef \ {p} /\ y \in PointRef \ {p}
      BY <1>4, <1>5, <2>4, <3>1, HandlerFields
    <3>3. /\ Own(x, e)' <=> Own(x, e)
          /\ Own(y, e)' <=> Own(y, e)
          /\ RemovedBookIDs(x, y)' = RemovedBookIDs(x, y)
      BY <1>5, <1>8, <3>2 DEF Own, PointRef, RemovedBookIDs
    <3>4. /\ handler[e].pc \in {"create", "drain", "save", "complete", "drop"} => Own(x, e)
          /\ handler[e].pc = "drain" => Own(y, e) /\ RemovedBookIDs(x, y) \subseteq mayLose[e]
      BY <2>1, <3>1 DEF HandlerSafe
    <3>5. handler'[e].parent = x /\ handler'[e].sp = y
      BY <3>1, <3>2
    <3> QED
      BY <1>3, <2>2, <3>2, <3>3, <3>4, <3>5 DEF HandlerSafe, Own, RemovedBookIDs, BooksOf, Content
  <2> QED
    BY <2>2, <2>3, <2>4
<1> QED
  BY <1>7, <1>11, <1>12 DEF SafeInv

USE DEF CatNewBooks, CatChangedBooks, CatRemovedBooks, CatReadingStates, CatNewTags,
        CatChangedTags, CatDeletedTags, CatDone

(* What a turn of drain's loop reads, per category. *)
LEMMA CategoryCases ==
  ASSUME NEW d \in Devices, NEW from, NEW to, NEW id
  PROVE  /\ categoryIDs(d, CatNewBooks, from, to) = NewBookIDs(from, to)
         /\ categoryIDs(d, CatChangedBooks, from, to) = ChangedBookIDs(from, to)
         /\ categoryIDs(d, CatRemovedBooks, from, to) = RemovedBookIDs(from, to)
         /\ Emit(d, CatNewBooks, id).rev = book[id].rev
         /\ Emit(d, CatChangedBooks, id).rev = book[id].rev
         /\ \A cat : Emit(d, cat, id).cat = cat /\ Emit(d, cat, id).id = id
<1>1. /\ categoryIDs(d, CatNewBooks, from, to) = NewBookIDs(from, to)
      /\ categoryIDs(d, CatChangedBooks, from, to) = ChangedBookIDs(from, to)
      /\ categoryIDs(d, CatRemovedBooks, from, to) = RemovedBookIDs(from, to)
  BY DEF categoryIDs
<1>2. /\ Emit(d, CatNewBooks, id).rev = book[id].rev
      /\ Emit(d, CatChangedBooks, id).rev = book[id].rev
  BY DEF Emit
<1>3. \A cat : Emit(d, cat, id).cat = cat /\ Emit(d, cat, id).id = id
  BY DEF Emit
<1> QED
  BY <1>1, <1>2, <1>3

LEMMA DrainSafe ==
  ASSUME TypeInv, TypeInv', SafeInv, NEW d \in Devices, DrainCategory(d)
  PROVE  SafeInv'
<1>1. PICK h, q, p : h = handler[d] /\ q = handler[d].parent /\ p = handler[d].sp
  OBVIOUS
<1>2. /\ h \in Handler /\ handler \in [Devices -> Handler] /\ h.pc = "drain" /\ At(d, "drain")
      /\ q \in PointRef /\ p \in PointRef /\ h.cat \in SyncCategory /\ h.parent = q /\ h.sp = p
  BY <1>1, HandlerFields DEF DrainCategory, At, TypeInv, TypeOK
<1>3. Own(q, d) /\ Own(p, d) /\ RemovedBookIDs(q, p) \subseteq mayLose[d] /\ ItemsSafe(h.items, d)
  BY <1>1, <1>2 DEF SafeInv, HandlersSafe, HandlerSafe
<1>4. handler'[d] = Drained(h, d) /\ \A e \in Devices \ {d} : handler'[e] = handler[e]
  BY <1>1, <1>2 DEF DrainCategory
<1>5. UNCHANGED <<libVars, point, outbox>> /\ UNCHANGED <<book, tombs, mayLose>>
  BY DEF DrainCategory, libVars
<1>6. /\ Drained(h, d).parent = q /\ Drained(h, d).sp = p
      /\ Drained(h, d).pc \in {"complete", "save", "drain"}
      /\ Drained(h, d).items = h.items \cup {Emit(d, h.cat, i) : i \in Page(h, d)}
  BY <1>2 DEF Drained, Handler
<1>7. \A b \in BooksOf(p) : book[b].known /\ b \in Books
  <2>1. CASE p \in Points
    BY <2>1 DEF SafeInv, PointsSafe, PointSafe, BooksOf
  <2>2. CASE p = None
    BY <2>2 DEF BooksOf, Content, NoPoint, NoBooks
  <2> QED
    BY <1>2, <2>1, <2>2 DEF PointRef
<1>8. ASSUME NEW i \in Page(h, d)
      PROVE  /\ Emit(d, h.cat, i).cat = CatRemovedBooks => Emit(d, h.cat, i).id \in mayLose[d]
             /\ Emit(d, h.cat, i).cat \in {CatNewBooks, CatChangedBooks} => Emit(d, h.cat, i).rev > 0
  <2>0. Emit(d, h.cat, i).cat = h.cat /\ Emit(d, h.cat, i).id = i
    BY DEF Emit
  <2>1. i \in categoryIDs(d, h.cat, q, p)
    BY <1>1, <1>2, PageType
  <2>2. CASE h.cat = CatRemovedBooks
    <3>1. i \in RemovedBookIDs(q, p)
      BY <2>1, <2>2, CategoryCases
    <3> QED
      BY <1>3, <2>0, <2>2, <3>1
  <2>3. CASE h.cat \in {CatNewBooks, CatChangedBooks}
    <3>1. i \in NewBookIDs(q, p) \/ i \in ChangedBookIDs(q, p)
      BY <2>1, <2>3, CategoryCases
    <3>2. i \in BooksOf(p)
      BY <3>1 DEF NewBookIDs, ChangedBookIDs
    <3>3. book[i].rev > 0
      BY <1>7, <3>2 DEF SafeInv, ReasonsKept
    <3>4. Emit(d, h.cat, i).rev = book[i].rev
      BY <2>3, CategoryCases
    <3> QED
      BY <2>0, <2>3, <3>3, <3>4
  <2>4. CASE h.cat \notin {CatRemovedBooks, CatNewBooks, CatChangedBooks}
    BY <2>0, <2>4
  <2> QED
    BY <2>2, <2>3, <2>4
<1>9. ItemsSafe(Drained(h, d).items, d)
  BY <1>3, <1>6, <1>8 DEF ItemsSafe
<1>10. HandlerSafe(d)'
  <2>1. ItemsSafe(handler[d].items, d)'
    BY <1>4, <1>5, <1>9 DEF ItemsSafe
  <2>2. Own(q, d)' /\ Own(p, d)' /\ RemovedBookIDs(q, p)' \subseteq mayLose'[d]
    BY <1>3, <1>5 DEF Own, RemovedBookIDs, BooksOf, Content
  <2>3. handler'[d].parent = q /\ handler'[d].sp = p
    BY <1>4, <1>6
  <2> QED
    BY <2>1, <2>2, <2>3 DEF HandlerSafe, Own, RemovedBookIDs, BooksOf, Content
<1> QED
  BY <1>4, <1>5, <1>10, QuietStep

LEMMA SaveSafe ==
  ASSUME TypeInv, TypeInv', SafeInv, NEW d \in Devices, SaveSyncCursor(d)
  PROVE  SafeInv'
<1>1. \A q \in Points : Stays(q)
  <2>1. CASE point' = point
    BY <2>1, PointsUnchanged
  <2>2. CASE /\ point[handler[d].sp].state # "none"
             /\ point' = [point EXCEPT ![handler[d].sp].cat = handler[d].cat,
                                       ![handler[d].sp].key = handler[d].key,
                                       ![handler[d].sp].recent = TRUE]
    BY <2>2 DEF Stays, TypeInv, TypeOK, SyncPoint
  <2> QED
    BY <2>1, <2>2 DEF SaveSyncCursor
<1>2. /\ UNCHANGED <<book, tombs, mayLose>>
      /\ Reply(d, handler[d].parent, handler[d].sp, handler[d].items)
      /\ ItemsSafe(handler[d].items, d)
  BY DEF SaveSyncCursor, libVars, SafeInv, HandlersSafe, HandlerSafe
<1> QED
  BY <1>1, <1>2, ReplyStep DEF StaysOrGoes

(* The parent goes.  It is the device's own, so no other handler sends it. *)
LEMMA DropSafe ==
  ASSUME TypeInv, TypeInv', SafeInv, NEW d \in Devices, DropParent(d)
  PROVE  SafeInv'
<1>1. PICK q : q = handler[d].parent
  OBVIOUS
<1>2. /\ q \in PointRef /\ Own(q, d) /\ handler[d].pc = "drop"
      /\ point' = IF q = None THEN point ELSE [point EXCEPT ![q] = NoPoint]
  BY <1>1, HandlerFields DEF DropParent, At, SafeInv, HandlersSafe, HandlerSafe
<1>3. \A x \in Points : /\ StaysOrGoes(x)
                        /\ x # q => Stays(x)
                        /\ point[x].state = "none" => Stays(x)
  <2> SUFFICES ASSUME NEW x \in Points
               PROVE  StaysOrGoes(x) /\ (x # q => Stays(x)) /\ (point[x].state = "none" => Stays(x))
    OBVIOUS
  <2>1. CASE point'[x] = point[x]
    BY <2>1 DEF Stays, StaysOrGoes
  <2>2. CASE point'[x] # point[x]
    <3>1. x = q /\ point'[x] = NoPoint
      BY <1>2, <2>2 DEF TypeInv, TypeOK
    <3>2. point[x].state # "none"
      BY <2>2, <3>1 DEF SafeInv, PointsSafe, PointSafe
    <3> QED
      BY <3>1, <3>2 DEF StaysOrGoes
  <2> QED
    BY <2>1, <2>2
<1>4. ASSUME NEW e \in Devices \ {d}, handler[e].pc = "drain", handler[e].sp \in Points
      PROVE  Stays(handler[e].sp)
  <2>1. PICK x \in Points : x = handler[e].sp
    BY <1>4
  <2>2. Own(x, e)
    BY <1>4, <2>1 DEF SafeInv, HandlersSafe, HandlerSafe
  <2>3. x # q \/ point[x].state = "none"
    BY <1>2, <2>2, SyncAssumption DEF Own
  <2> QED
    BY <1>3, <2>1, <2>3
<1>5. /\ UNCHANGED <<book, tombs, mayLose>>
      /\ Reply(d, handler[d].sp, None, handler[d].items)
      /\ ItemsSafe(handler[d].items, d)
  BY DEF DropParent, libVars, SafeInv, HandlersSafe, HandlerSafe
<1> QED
  BY <1>3, <1>4, <1>5, ReplyStep

LEMMA StepFailsSafe ==
  ASSUME TypeInv, TypeInv', SafeInv, NEW d \in Devices, StepFails(d)
  PROVE  SafeInv'
<1>0. handler[d] \in Handler /\ handler \in [Devices -> Handler]
  BY HandlerFields DEF TypeInv, TypeOK
<1>1. /\ UNCHANGED <<book, tombs, mayLose>> /\ point' = point
      /\ ItemsSafe(handler[d].items, d) /\ ItemsSafe({}, d)
  BY DEF StepFails, SafeInv, HandlersSafe, HandlerSafe, ItemsSafe
<1>2. CASE handler' = [handler EXCEPT ![d].pc = "resolve"] /\ UNCHANGED outbox
  <2>1. /\ handler'[d].pc = "resolve" /\ handler'[d].items = handler[d].items
        /\ \A e \in Devices \ {d} : handler'[e] = handler[e]
    BY <1>0, <1>2 DEF Handler
  <2>2. ReasonsKept' /\ Grows
    BY <1>1, LibraryUnchanged DEF SafeInv
  <2>3. \A q \in Points : Stays(q) /\ StaysOrGoes(q)
    BY <1>1, PointsUnchanged
  <2>4. HandlerSafe(d)' /\ ItemsSafe(outbox[d].items, d)'
    BY <1>1, <1>2, <2>1 DEF HandlerSafe, HandlersSafe, SafeInv, ItemsSafe
  <2>5. HandlersSafe'
    BY <1>2, <2>1, <2>2, <2>3, <2>4, OthersKept DEF SafeInv
  <2> QED
    BY <2>2, <2>3, <2>5, PointsKept DEF SafeInv
<1>3. ASSUME NEW last, NEW ongoing, NEW items \in {handler[d].items, {}},
             Reply(d, last, ongoing, items)
      PROVE  SafeInv'
  <2>1. ItemsSafe(items, d)
    BY <1>1
  <2> QED
    BY <1>1, <1>3, <2>1, PointsUnchanged, ReplyStep
<1> QED
  BY <1>2, <1>3 DEF StepFails

LEMMA HandlerStepSafe ==
  ASSUME TypeInv, TypeInv', SafeInv, NEW d \in Devices, HandlerStep(d)
  PROVE  SafeInv'
BY ResolveSafe, AbandonSafe, CreateSafe, DrainSafe, SaveSafe, DropSafe DEF HandlerStep

(***************************************************************************)
(* The device's steps, and what happens around it.                         *)
(***************************************************************************)

(* Steps that move no snapshot and put no item anywhere. *)
LEMMA AroundStep ==
  ASSUME TypeInv, TypeInv', SafeInv, ReasonsKept', Grows, point' = point,
         \A e \in Devices : /\ handler'[e] = handler[e] \/ (handler'[e].items = {} /\ handler'[e].pc = "idle")
                            /\ outbox'[e] = outbox[e] \/ outbox'[e].items = {}
  PROVE  SafeInv'
<1>1. \A q \in Points : Stays(q) /\ StaysOrGoes(q)
  BY PointsUnchanged
<1>2. HandlersSafe'
  <2> SUFFICES ASSUME NEW e \in Devices PROVE HandlerSafe(e)' /\ ItemsSafe(outbox[e].items, e)'
    BY DEF HandlersSafe
  <2>1. HandlerSafe(e)'
    <3>1. CASE handler'[e] = handler[e]
      BY <1>1, <3>1, HandlerKept DEF SafeInv, HandlersSafe
    <3>2. CASE handler'[e].items = {} /\ handler'[e].pc = "idle"
      BY <3>2 DEF HandlerSafe, ItemsSafe
    <3> QED
      BY <3>1, <3>2
  <2>2. ItemsSafe(outbox[e].items, e)'
    BY DEF SafeInv, HandlersSafe, ItemsSafe, Grows
  <2> QED
    BY <2>1, <2>2
<1> QED
  BY <1>1, <1>2, PointsKept DEF SafeInv

LEMMA GiveUpSafe ==
  ASSUME TypeInv, TypeInv', SafeInv, NEW d \in Devices, GiveUp(d)
  PROVE  SafeInv'
<1>0. handler[d] \in Handler /\ handler \in [Devices -> Handler] /\ outbox \in [Devices -> Answer]
  BY HandlerFields DEF TypeInv, TypeOK
<1>1. /\ UNCHANGED <<book, tombs, mayLose>> /\ point' = point
      /\ \A e \in Devices \ {d} : handler'[e] = handler[e] /\ outbox'[e] = outbox[e]
      /\ outbox'[d].items = {}
      /\ handler'[d].pc = handler[d].pc /\ handler'[d].items = handler[d].items
      /\ handler'[d].sp = handler[d].sp /\ handler'[d].parent = handler[d].parent
  BY <1>0 DEF GiveUp, HangUp, Handler, NoAnswer
<1>2. ReasonsKept' /\ Grows
  BY <1>1, LibraryUnchanged DEF SafeInv
<1>3. \A q \in Points : Stays(q) /\ StaysOrGoes(q)
  BY <1>1, PointsUnchanged
<1>4. HandlerSafe(d)'
  <2>1. HandlerSafe(d)
    BY DEF SafeInv, HandlersSafe
  <2> QED
    BY <1>1, <2>1 DEF HandlerSafe, ItemsSafe, Own, RemovedBookIDs, BooksOf, Content
<1>5. HandlersSafe'
  <2>1. ItemsSafe(outbox[d].items, d)'
    BY <1>1 DEF ItemsSafe
  <2> QED
    BY <1>1, <1>2, <1>3, <1>4, <2>1, OthersKept DEF SafeInv
<1> QED
  BY <1>2, <1>3, <1>5, PointsKept DEF SafeInv

(* "Resend everything" deletes a device's snapshots under its handler: both *)
(* the one it sends and the parent, so nothing is left to remove.           *)
LEMMA ResetSafe ==
  ASSUME TypeInv, TypeInv', SafeInv, NEW d \in Devices, ResetDeviceSyncState(d)
  PROVE  SafeInv'
<1>1. /\ UNCHANGED <<book, tombs, mayLose, handler, outbox>>
      /\ \A p \in Points : point'[p] = IF point[p].device = d THEN NoPoint ELSE point[p]
  BY DEF ResetDeviceSyncState
<1>2. ReasonsKept' /\ Grows
  BY <1>1, LibraryUnchanged DEF SafeInv
<1>3. \A q \in Points : /\ StaysOrGoes(q)
                        /\ point[q].device # d => Stays(q)
                        /\ point[q].state = "none" => point'[q] = NoPoint /\ Stays(q)
  <2> SUFFICES ASSUME NEW q \in Points
               PROVE  /\ StaysOrGoes(q)
                      /\ point[q].device # d => Stays(q)
                      /\ point[q].state = "none" => point'[q] = NoPoint /\ Stays(q)
    OBVIOUS
  <2>1. point[q].state = "none" => point[q] = NoPoint
    BY DEF SafeInv, PointsSafe, PointSafe
  <2>2. point'[q] = NoPoint \/ (point'[q] = point[q] /\ point[q].device # d)
    BY <1>1
  <2>3. point[q].state = "none" => point'[q] = point[q]
    BY <1>1, <2>1
  <2>4. point'[q] = point[q] => Stays(q)
    BY DEF Stays
  <2>5. point[q].device # d => point'[q] = point[q]
    BY <1>1
  <2> QED
    BY <2>1, <2>2, <2>3, <2>4, <2>5 DEF StaysOrGoes
<1>4. ASSUME NEW e \in Devices PROVE HandlerSafe(e)' /\ ItemsSafe(outbox[e].items, e)'
  <2>1. HandlerSafe(e) /\ ItemsSafe(outbox[e].items, e)
    BY DEF SafeInv, HandlersSafe
  <2>2. ItemsSafe(outbox[e].items, e)'
    BY <1>1, <2>1 DEF ItemsSafe
  <2>3. PICK x, y : x = handler[e].parent /\ y = handler[e].sp
    OBVIOUS
  <2>4. x \in PointRef /\ y \in PointRef
    BY <2>3, HandlerFields
  <2>5. CASE handler[e].pc = "drain" /\ y \in Points /\ point[y].state # "none" /\ point[y].device = d
    <3>1. e = d /\ Own(x, d)
      BY <2>1, <2>3, <2>5, SyncAssumption DEF HandlerSafe, Own
    <3>2. BooksOf(x)' = {}
      <4>1. x = None \/ point'[x] = NoPoint
        BY <1>1, <1>3, <2>4, <3>1 DEF Own, PointRef
      <4> QED
        BY <4>1 DEF BooksOf, Content, NoPoint, NoBooks
    <3>3. RemovedBookIDs(x, y)' = {}
      BY <3>2 DEF RemovedBookIDs
    <3>4. Own(x, e)' /\ Own(y, e)'
      <4>1. Own(x, e) /\ Own(y, e)
        BY <2>1, <2>3, <2>5 DEF HandlerSafe
      <4> QED
        BY <1>3, <2>4, <4>1, OwnKept
    <3>5. ItemsSafe(handler[e].items, e)'
      BY <1>1, <2>1 DEF HandlerSafe, ItemsSafe
    <3>6. handler'[e].parent = x /\ handler'[e].sp = y /\ handler'[e].pc = "drain"
      BY <1>1, <2>3, <2>5
    <3> QED
      BY <2>2, <3>3, <3>4, <3>5, <3>6 DEF HandlerSafe, Own, RemovedBookIDs, BooksOf, Content
  <2>6. CASE ~(handler[e].pc = "drain" /\ y \in Points /\ point[y].state # "none" /\ point[y].device = d)
    <3>1. handler[e].pc = "drain" /\ y \in Points => Stays(y)
      BY <1>3, <2>6
    <3>2. handler'[e] = handler[e]
      BY <1>1
    <3> QED
      BY <1>2, <1>3, <2>1, <2>2, <2>3, <3>1, <3>2, HandlerKept
  <2> QED
    BY <2>5, <2>6
<1> QED
  BY <1>2, <1>3, <1>4, PointsKept DEF SafeInv, HandlersSafe

LEMMA DeviceStepSafe ==
  ASSUME TypeInv, TypeInv', SafeInv, NEW d \in Devices, DeviceStep(d)
  PROVE  SafeInv'
<1>1. CASE SendSync(d) \/ Receive(d) \/ DeviceRestarts(d)
           \/ \E b \in Books : ReadOnDevice(d, b)
  <2>1. /\ UNCHANGED <<book, tombs, mayLose>> /\ point' = point /\ handler' = handler
        /\ \A e \in Devices : outbox'[e] = outbox[e] \/ outbox'[e].items = {}
    <3>1. CASE SendSync(d)
      BY <3>1 DEF SendSync, libVars
    <3>2. CASE Receive(d)
      BY <3>2 DEF Receive, libVars, NoAnswer, TypeInv, TypeOK
    <3>3. CASE DeviceRestarts(d)
      BY <3>3 DEF DeviceRestarts
    <3>4. CASE \E b \in Books : ReadOnDevice(d, b)
      BY <3>4 DEF ReadOnDevice, SaveReadingState
    <3> QED
      BY <1>1, <3>1, <3>2, <3>3, <3>4
  <2>2. ReasonsKept' /\ Grows
    BY <2>1, LibraryUnchanged DEF SafeInv
  <2> QED
    BY <2>1, <2>2, AroundStep
<1>2. ASSUME NEW b \in Books, DeleteOnDevice(d, b) PROVE SafeInv'
  <2>1. PICK r \in Books : /\ tombs' = [tombs EXCEPT ![d] = @ \cup {r}]
                           /\ mayLose' = [mayLose EXCEPT ![d] = @ \cup {b, r}]
    BY <1>2 DEF DeleteOnDevice, AddTombstone
  <2>2. book' = book /\ point' = point /\ handler' = handler /\ outbox' = outbox
    BY <1>2 DEF DeleteOnDevice, AddTombstone
  <2>3. ReasonsKept' /\ Grows
    BY <2>1, <2>2 DEF SafeInv, ReasonsKept, Grows, TypeInv, TypeOK, LibraryTypeOK
  <2> QED
    BY <2>2, <2>3, AroundStep
<1>3. ASSUME NEW b \in Books, ForgetTombstone(d, b) PROVE SafeInv'
  <2>1. /\ tombs' = [tombs EXCEPT ![d] = @ \ {b}]
        /\ UNCHANGED <<book, mayLose>> /\ UNCHANGED syncVars
    BY <1>3 DEF ForgetTombstone, RemoveTombstone
  <2>2. ReasonsKept' /\ Grows
    BY <2>1 DEF SafeInv, ReasonsKept, Grows, TypeInv, TypeOK, LibraryTypeOK
  <2> QED
    BY <2>1, <2>2, AroundStep DEF syncVars
<1> QED
  BY <1>1, <1>2, <1>3, GiveUpSafe, ResetSafe DEF DeviceStep

LEMMA SafeStep ==
  ASSUME "janitor" \notin Happens, TypeInv, TypeInv', SafeInv, [Next]_vars
  PROVE  SafeInv'
<1>1. CASE LibraryStep /\ UNCHANGED syncVars
  <2>1. ReasonsKept' /\ Grows
    BY <1>1, LibraryStepSafe DEF SafeInv
  <2> QED
    BY <1>1, <2>1, AroundStep DEF syncVars
<1>2. ASSUME NEW d \in Devices, HandlerStep(d) \/ StepFails(d) \/ DeviceStep(d) PROVE SafeInv'
  BY <1>2, HandlerStepSafe, StepFailsSafe, DeviceStepSafe
<1>3. ~WeekPasses /\ ~GCSyncPoints
  BY DEF WeekPasses, GCSyncPoints, Change
<1>4. CASE ServerRestarts
  <2>1. /\ UNCHANGED <<book, tombs, mayLose>> /\ point' = point
        /\ \A e \in Devices : handler'[e].items = {} /\ handler'[e].pc = "idle" /\ outbox'[e].items = {}
    BY <1>4 DEF ServerRestarts, Idle, NoAnswer
  <2>2. ReasonsKept' /\ Grows
    BY <2>1, LibraryUnchanged DEF SafeInv
  <2> QED
    BY <2>1, <2>2, AroundStep
<1>5. CASE UNCHANGED vars
  <2>1. /\ UNCHANGED <<book, tombs, mayLose>> /\ point' = point
        /\ handler' = handler /\ outbox' = outbox
    BY <1>5 DEF vars, libVars, syncVars
  <2>2. ReasonsKept' /\ Grows
    BY <2>1, LibraryUnchanged DEF SafeInv
  <2> QED
    BY <2>1, <2>2, AroundStep
<1> QED
  BY <1>1, <1>2, <1>3, <1>4, <1>5 DEF Next

LEMMA InitSafe == Init => SafeInv
<1> SUFFICES ASSUME Init PROVE SafeInv
  OBVIOUS
<1>1. ReasonsKept
  <2>1. \A b \in Books : /\ book[b].into = 0 /\ book[b].hidden = FALSE
                         /\ book[b].known => book[b].rev = 1
    BY DEF Init, LibraryInit
  <2>2. \A d \in Devices : tombs[d] = {}
    BY DEF Init, LibraryInit
  <2> QED
    BY <2>1, <2>2 DEF ReasonsKept
<1>2. PointsSafe
  BY DEF Init, KoboInit, PointsSafe, PointSafe, NoPoint, BooksOf, Content, NoBooks
<1>3. HandlersSafe
  BY DEF Init, KoboInit, HandlersSafe, HandlerSafe, ItemsSafe, Idle, NoAnswer
<1> QED
  BY <1>1, <1>2, <1>3 DEF SafeInv

(* What a step may take from a device. *)
LosesForAReason ==
  \A d \in Devices, b \in Books :
    client[d].books[b] > 0 /\ client'[d].books[b] = 0 => b \in mayLose'[d]

LEMMA ReceiveLoses ==
  ASSUME TypeInv, SafeInv, NEW d \in Devices, Receive(d)
  PROVE  LosesForAReason
<1> DEFINE items == outbox[d].items
<1>1. /\ items \in SUBSET Item /\ IsFiniteSet(items) /\ ItemsSafe(items, d)
  BY DEF TypeInv, TypeOK, Answer, FiniteItems, SafeInv, HandlersSafe
<1>2. /\ \A e \in Devices \ {d} : client'[e] = client[e]
      /\ client'[d].books = ShelfAfter(client[d].books, items)
      /\ mayLose' = mayLose
  BY DEF Receive, libVars, TypeInv, TypeOK
<1>3. ASSUME NEW b \in Books, client[d].books[b] > 0, ShelfAfter(client[d].books, items)[b] = 0
      PROVE  b \in mayLose[d]
  <2> DEFINE put == ItemsOf(items, {CatNewBooks, CatChangedBooks}, b)
  <2>1. CASE ItemsOf(items, {CatRemovedBooks}, b) # {}
    BY <1>1, <2>1 DEF ItemsOf, ItemsSafe
  <2>2. CASE ItemsOf(items, {CatRemovedBooks}, b) = {}
    <3>1. put # {} /\ Max({i.rev : i \in put}) = 0
      BY <1>3, <2>2 DEF ShelfAfter
    <3>2. put \in SUBSET items
      BY DEF ItemsOf
    <3>3. PICK i \in put : i.rev = Max({j.rev : j \in put})
      BY <1>1, <3>1, <3>2, MaxOfRevs
    <3>4. i.rev > 0
      BY <1>1, <3>3 DEF ItemsOf, ItemsSafe
    <3> QED
      BY <3>1, <3>3, <3>4
  <2> QED
    BY <2>1, <2>2
<1> SUFFICES ASSUME NEW e \in Devices, NEW b \in Books,
                    client[e].books[b] > 0, client'[e].books[b] = 0
             PROVE  b \in mayLose'[e]
  BY DEF LosesForAReason
<1>4. CASE e = d
  BY <1>2, <1>3, <1>4
<1>5. CASE e # d
  BY <1>2, <1>5
<1> QED
  BY <1>4, <1>5

LEMMA NoLoss ==
  ASSUME TypeInv, \A d \in Devices, b \in Books : client'[d].books[b] = client[d].books[b]
  PROVE  LosesForAReason
<1>1. \A d \in Devices, b \in Books : client[d].books[b] \in Nat
  BY DEF TypeInv, TypeOK, Client
<1> QED
  BY <1>1 DEF LosesForAReason

LEMMA StepLoses ==
  ASSUME TypeInv, SafeInv, [Next]_vars
  PROVE  LosesForAReason
<1>0. client \in [Devices -> Client]
  BY DEF TypeInv, TypeOK
<1>1. CASE UNCHANGED client
  BY <1>1, NoLoss
<1>2. ASSUME NEW d \in Devices, DeviceStep(d) PROVE LosesForAReason
  <2>1. CASE SendSync(d) \/ GiveUp(d) \/ DeviceRestarts(d) \/ \E b \in Books : ReadOnDevice(d, b)
    <3>1. \A e \in Devices : client'[e].books = client[e].books
      <4>1. CASE SendSync(d)
        BY <1>0, <4>1 DEF SendSync, Client
      <4>2. CASE GiveUp(d)
        BY <1>0, <4>2 DEF GiveUp, HangUp, Client
      <4>3. CASE DeviceRestarts(d)
        BY <1>0, <4>3 DEF DeviceRestarts, Client
      <4>4. CASE \E b \in Books : ReadOnDevice(d, b)
        BY <1>0, <4>4 DEF ReadOnDevice, Client
      <4> QED
        BY <2>1, <4>1, <4>2, <4>3, <4>4
    <3> QED
      BY <3>1, NoLoss
  <2>2. CASE Receive(d)
    BY <2>2, ReceiveLoses
  <2>3. ASSUME NEW b \in Books, DeleteOnDevice(d, b) PROVE LosesForAReason
    <3>1. /\ b \in mayLose'[d]
          /\ \A e \in Devices \ {d} : client'[e] = client[e]
          /\ \A c \in Books \ {b} : client'[d].books[c] = client[d].books[c]
      BY <1>0, <2>3 DEF DeleteOnDevice, AddTombstone, Client, TypeInv, TypeOK, LibraryTypeOK
    <3>2. \A e \in Devices, c \in Books : client[e].books[c] \in Nat
      BY <1>0 DEF Client
    <3> QED
      BY <3>1, <3>2 DEF LosesForAReason
  <2>4. CASE (\E b \in Books : ForgetTombstone(d, b)) \/ ResetDeviceSyncState(d)
    BY <1>1, <2>4 DEF ForgetTombstone, ResetDeviceSyncState, syncVars
  <2> QED
    BY <1>2, <2>1, <2>2, <2>3, <2>4 DEF DeviceStep
<1>3. CASE ServerRestarts
  <2>1. \A e \in Devices : client'[e].books = client[e].books
    BY <1>0, <1>3 DEF ServerRestarts, Client
  <2> QED
    BY <2>1, NoLoss
<1>4. ASSUME NEW d \in Devices, HandlerStep(d) \/ StepFails(d) PROVE UNCHANGED client
  BY <1>4 DEF HandlerStep, BeginSync, NothingToSay, SomethingToSay, ResumeSync, AbandonSyncPoint,
     ChooseParent, CreateSyncPoint, DrainCategory, SaveSyncCursor, CompleteSyncPoint, DropParent,
     StepFails
<1>5. CASE (LibraryStep /\ UNCHANGED syncVars) \/ WeekPasses \/ GCSyncPoints \/ UNCHANGED vars
  BY <1>1, <1>5 DEF WeekPasses, GCSyncPoints, vars, syncVars
<1> QED
  BY <1>1, <1>2, <1>3, <1>4, <1>5 DEF Next

(* A book leaves a device only because it was hidden, merged or deleted on  *)
(* that device: the carry-over of CreateSyncPoint, the differences against  *)
(* the parent and the paged drain never remove one otherwise, whatever      *)
(* scans, switches, failures, retries and restarts come between.  It holds  *)
(* as long as the janitor's week-old cutoff takes no snapshot away.         *)
THEOREM BooksAreKept ==
  ASSUME "janitor" \notin Happens
  PROVE  Spec => NeverLosesBooks
<1>1. Init => SafeInv
  BY InitSafe
<1>2. TypeInv /\ TypeInv' /\ SafeInv /\ [Next]_vars => SafeInv'
  BY SafeStep
<1>3. TypeInv /\ SafeInv /\ [Next]_vars => [LosesForAReason]_vars
  BY StepLoses
<1>4. Spec => [][LosesForAReason]_vars
  BY <1>1, <1>2, <1>3, TypeInvariant, PTL DEF Spec
<1> QED
  BY <1>4 DEF NeverLosesBooks, LosesForAReason
(***************************************************************************)

(* What a device is credited with, it holds.  The next difference is taken  *)
(* from a completed snapshot, so every book of one has to be on the device, *)
(* or on its way there with the answer that ends the sync.  That rests on   *)
(* what a device is told while a snapshot is half sent: what the cursor has *)
(* passed it holds, or is about to.                                        *)
(***************************************************************************)
NothingIsLost == Happens \cap {"giveup", "restart", "janitor"} = {}

(* A device has one request under way at a time, which carries its token;   *)
(* its answer reaches it.                                                   *)
OneRequest(d) ==
  /\ inbox[d] # {} =>
       /\ handler[d].pc = "idle" /\ ~outbox[d].sent /\ client[d].waiting
       /\ inbox[d] = {[last |-> client[d].last, ongoing |-> client[d].ongoing, live |-> TRUE]}
  /\ handler[d].pc # "idle" =>
       /\ ~outbox[d].sent /\ client[d].waiting /\ handler[d].live
       /\ handler[d].last = client[d].last /\ handler[d].ongoing = client[d].ongoing
  /\ outbox[d].sent => client[d].waiting
  /\ ~outbox[d].sent => outbox[d].items = {}

Sending == {"drain", "save", "complete", "drop"}

(* A snapshot is never its own baseline, nor the one a token names as held. *)
TokensApart(d) ==
  /\ client[d].ongoing # None => client[d].last # client[d].ongoing
  /\ outbox[d].sent /\ outbox[d].ongoing # None => outbox[d].last # outbox[d].ongoing
  /\ handler[d].pc \in Sending =>
       /\ handler[d].sp # client[d].last /\ handler[d].sp # handler[d].parent
       /\ handler[d].sp \in Points
       /\ \/ point[handler[d].sp].state = "none"
          \/ point[handler[d].sp].device = d /\ point[handler[d].sp].parent = handler[d].parent
  /\ handler[d].pc \in {"complete", "drop"} => handler[d].cat = CatDone

Has(d, b) == client[d].books[b] > 0 \/ b \in mayLose[d]
Brings(items, b) == \E i \in items : i.cat = CatNewBooks /\ i.id = b

(* The new books of a difference come first, in the order of their ids. *)
Ahead(cat, key, b) == cat = CatNewBooks /\ b > key

CompletedHeld(d, p) ==
  \A b \in BooksOf(p) :
    \/ Has(d, b)
    \/ p # client[d].last /\ Brings(outbox[d].items, b)
    \/ handler[d].pc = "drop" /\ p = handler[d].sp /\ Brings(handler[d].items, b)

OngoingHeld(d, p) ==
  \A b \in BooksOf(p) :
    \/ Has(d, b)
    \/ Brings(outbox[d].items, b)
    \/ b \notin BooksOf(point[p].parent) /\ Ahead(point[p].cat, point[p].key, b)

SentHeld(d) ==
  /\ handler[d].pc = "create" => \A b \in BooksOf(handler[d].parent) : Has(d, b)
  /\ handler[d].pc \in Sending =>
       \A b \in BooksOf(handler[d].sp) :
         \/ Has(d, b)
         \/ Brings(handler[d].items, b)
         \/ b \notin BooksOf(handler[d].parent) /\ Ahead(handler[d].cat, handler[d].key, b)

PointHeld(d, p) ==
  /\ IsState(p, d, "completed") => CompletedHeld(d, p)
  /\ IsState(p, d, "ongoing") => OngoingHeld(d, p) /\ point[p].parent # p
PointsHeld(d) == \A p \in Points : PointHeld(d, p)

DeviceHeld(d) == OneRequest(d) /\ TokensApart(d) /\ PointsHeld(d) /\ SentHeld(d)
HeldInv == \A d \in Devices : DeviceHeld(d)

(* A snapshot tells a device nothing it did not tell before, or is new and  *)
(* another's.                                                               *)
TellsNoMore(p, d) ==
  /\ StaysOrGoes(p)
  /\ point'[p] = point[p] \/ point'[p].device # d \/ point'[p].state \notin {"ongoing", "completed"}
NewElsewhere(p, d) == Unused(p) /\ point'[p].device # d
HasMore(d) == \A b \in Books : Has(d, b) => Has(d, b)'

LEMMA BooksShrink ==
  ASSUME NEW p \in PointRef, p \in Points => StaysOrGoes(p)
  PROVE  BooksOf(p)' \subseteq BooksOf(p)
BY SyncAssumption DEF BooksOf, Content, StaysOrGoes, Stays, NoPoint, NoBooks, PointRef

(* What a snapshot says of a device to which nothing is on its way. *)
Settled(d, p) ==
  /\ IsState(p, d, "completed") => \A b \in BooksOf(p) : Has(d, b)
  /\ IsState(p, d, "ongoing") =>
       /\ point[p].parent # p
       /\ \A b \in BooksOf(p) :
            Has(d, b) \/ (b \notin BooksOf(point[p].parent) /\ Ahead(point[p].cat, point[p].key, b))

LEMMA IsSettled ==
  ASSUME NEW d \in Devices, PointsHeld(d), outbox[d].items = {}, NEW p \in Points,
         handler[d].pc # "drop" \/ p # handler[d].sp
  PROVE  Settled(d, p)
BY DEF PointsHeld, PointHeld, CompletedHeld, OngoingHeld, Brings, Settled

LEMMA SettledStays ==
  ASSUME TypeInv, NEW d \in Devices, NEW p \in Points, Settled(d, p), TellsNoMore(p, d), HasMore(d),
         \A q \in Points : StaysOrGoes(q) \/ Unused(q)
  PROVE  PointHeld(d, p)'
<1>1. CASE point'[p] = point[p]
  <2>1. p \in PointRef /\ point[p].parent \in PointRef /\ p # None
    BY SyncAssumption DEF TypeInv, TypeOK, SyncPoint, PointRef
  <2>2. BooksOf(p)' = BooksOf(p) /\ BooksOf(p) \subseteq Books
    BY <1>1, <2>1 DEF BooksOf, Content
  <2>3. BooksOf(point[p].parent)' \subseteq BooksOf(point[p].parent)
    <3>1. PICK q : q = point[p].parent
      OBVIOUS
    <3>2. q \in Points => StaysOrGoes(q)
      BY <3>1 DEF Unused
    <3>3. BooksOf(q)' \subseteq BooksOf(q)
      BY <2>1, <3>1, <3>2, BooksShrink
    <3>4. point'[p].parent = q
      BY <1>1, <3>1
    <3> QED BY <3>1, <3>3, <3>4 DEF BooksOf, Content
  <2>4. ASSUME IsState(p, d, "completed")' PROVE CompletedHeld(d, p)'
    <3>1. \A b \in BooksOf(p) : Has(d, b)'
      BY <1>1, <2>2, <2>4 DEF Settled, IsState, HasMore
    <3> QED BY <2>2, <3>1 DEF CompletedHeld
  <2>5. ASSUME IsState(p, d, "ongoing")' PROVE OngoingHeld(d, p)' /\ point'[p].parent # p
    <3>1. \A b \in BooksOf(p) :
            \/ Has(d, b)'
            \/ b \notin BooksOf(point[p].parent)' /\ Ahead(point'[p].cat, point'[p].key, b)
      BY <1>1, <2>2, <2>3, <2>5 DEF Settled, IsState, HasMore
    <3> QED BY <1>1, <2>2, <2>5, <3>1 DEF OngoingHeld, Settled, IsState
  <2> QED BY <2>4, <2>5 DEF PointHeld
<1>2. CASE point'[p] # point[p]
  BY <1>2 DEF TellsNoMore, PointHeld, IsState
<1> QED BY <1>1, <1>2

(* A device nothing happens to but that it is told more or deletes a book. *)
Untouched(d) ==
  /\ handler'[d] = handler[d] /\ inbox'[d] = inbox[d] /\ outbox'[d] = outbox[d]
  /\ client'[d].waiting = client[d].waiting
  /\ client'[d].last = client[d].last /\ client'[d].ongoing = client[d].ongoing

LEMMA UntouchedHolds ==
  ASSUME TypeInv, NEW d \in Devices, DeviceHeld(d), Untouched(d), HasMore(d),
         \A p \in Points : TellsNoMore(p, d) \/ NewElsewhere(p, d)
  PROVE  DeviceHeld(d)'
<1>1. OneRequest(d)'
  BY DEF DeviceHeld, OneRequest, Untouched
<1>2. \A p \in Points : StaysOrGoes(p) \/ Unused(p)
  BY DEF TellsNoMore, NewElsewhere
<1>3. \A p \in {handler[d].sp, handler[d].parent} \cap Points : StaysOrGoes(p)
  BY <1>2 DEF Unused
<1>4. TokensApart(d)'
  BY <1>3 DEF DeviceHeld, TokensApart, Untouched, StaysOrGoes, Stays, NoPoint
<1>5. PointsHeld(d)'
  <2> SUFFICES ASSUME NEW p \in Points PROVE PointHeld(d, p)'
    BY DEF PointsHeld
  <2>1. CASE point'[p] # point[p]
    <3>1. point'[p].device # d \/ point'[p].state \notin {"ongoing", "completed"}
      BY <2>1 DEF TellsNoMore, NewElsewhere
    <3> QED BY <3>1 DEF PointHeld, IsState
  <2>2. CASE point'[p] = point[p]
    <3>1. p \in PointRef /\ point[p].parent \in PointRef /\ p # None
      BY SyncAssumption DEF TypeInv, TypeOK, SyncPoint, PointRef
    <3>2. BooksOf(p)' = BooksOf(p) /\ BooksOf(p) \subseteq Books
      BY <2>2, <3>1 DEF BooksOf, Content
    <3>3. BooksOf(point[p].parent)' \subseteq BooksOf(point[p].parent)
      <4>1. PICK q : q = point[p].parent
        OBVIOUS
      <4>2. q \in Points => StaysOrGoes(q)
        BY <1>2, <4>1 DEF Unused
      <4>3. BooksOf(q)' \subseteq BooksOf(q) /\ point'[p].parent = q
        BY <2>2, <3>1, <4>1, <4>2, BooksShrink
      <4> QED BY <4>1, <4>3 DEF BooksOf, Content
    <3>4. PointHeld(d, p)
      BY DEF DeviceHeld, PointsHeld
    <3>5. /\ \A b \in Books : Brings(outbox[d].items, b)' <=> Brings(outbox[d].items, b)
          /\ \A b \in Books : Brings(handler[d].items, b)' <=> Brings(handler[d].items, b)
      BY DEF Untouched, Brings
    <3>6. ASSUME IsState(p, d, "completed")' PROVE CompletedHeld(d, p)'
      <4>1. CompletedHeld(d, p)
        BY <2>2, <3>4, <3>6 DEF PointHeld, IsState
      <4> QED BY <3>2, <3>5, <4>1 DEF CompletedHeld, HasMore, Untouched
    <3>7. ASSUME IsState(p, d, "ongoing")' PROVE OngoingHeld(d, p)' /\ point'[p].parent # p
      <4>1. OngoingHeld(d, p) /\ point[p].parent # p
        BY <2>2, <3>4, <3>7 DEF PointHeld, IsState
      <4> QED BY <2>2, <3>2, <3>3, <3>5, <4>1 DEF OngoingHeld, HasMore
    <3> QED BY <3>6, <3>7 DEF PointHeld
  <2> QED BY <2>1, <2>2
<1>6. SentHeld(d)'
  <2>1. PICK p, q : p = handler[d].sp /\ q = handler[d].parent
    OBVIOUS
  <2>2. BooksOf(p)' \subseteq BooksOf(p) /\ BooksOf(q)' \subseteq BooksOf(q)
    BY <1>3, <2>1, HandlerFields, BooksShrink
  <2>3. handler'[d].sp = p /\ handler'[d].parent = q
    BY <2>1 DEF Untouched
  <2>4. /\ BooksOf(handler[d].sp)' \subseteq BooksOf(p) /\ BooksOf(handler[d].parent)' \subseteq BooksOf(q)
        /\ BooksOf(p) \subseteq Books /\ BooksOf(q) \subseteq Books
    BY <2>2, <2>3 DEF BooksOf, Content
  <2>5. \A b \in Books : Brings(handler[d].items, b)' <=> Brings(handler[d].items, b)
    BY DEF Untouched, Brings
  <2> QED BY <2>1, <2>4, <2>5 DEF DeviceHeld, SentHeld, Untouched, HasMore
<1> QED BY <1>1, <1>4, <1>5, <1>6 DEF DeviceHeld
(* A page is the smallest of what is left, so what it leaves is larger. *)
LEMMA LargerIsLeft ==
  ASSUME TypeInv, NEW d \in Devices, At(d, "drain"), NEW h, h = handler[d],
         NEW b \in Rest(h, d), b \notin Page(h, d)
  PROVE  Page(h, d) # Rest(h, d) /\ b > Max(Page(h, d))
<1> DEFINE rest == Rest(h, d)
           page == Page(h, d)
           m == Max(page)
<1>1. /\ rest \in SUBSET Nat /\ IsFiniteSet(rest) /\ page \in SUBSET rest /\ IsFiniteSet(page)
      /\ h.budget \in Nat \ {0}
  <2>1. h.budget \in Nat \ {0} /\ h.cat \in SyncCategory
    BY DEF TypeInv, TypeOK, Handler, CursorInRange, HandlerInRange, At
  <2>2. rest \in SUBSET categoryIDs(d, h.cat, h.parent, h.sp) /\ page \in SUBSET rest /\ IsFiniteSet(page)
    BY PageType
  <2>3. /\ categoryIDs(d, h.cat, h.parent, h.sp) \in SUBSET Nat
        /\ IsFiniteSet(categoryIDs(d, h.cat, h.parent, h.sp))
    BY <2>1, CategoryIDsType
  <2> HIDE DEF rest, page
  <2> QED BY <2>1, <2>2, <2>3, FS_Subset
<1>2. page = {i \in rest : Cardinality({j \in rest : j < i}) < h.budget}
  BY DEF Page, Smallest
<1>3. page # {} /\ b \in rest /\ b \notin page
  BY <1>1, SmallestIsNonempty DEF Page
<1> HIDE DEF rest, page
<1>4. m \in page /\ m \in Nat /\ b \in Nat
  BY <1>1, <1>3, MaxOfFiniteSet
<1>5. Cardinality({j \in rest : j < m}) < h.budget
  BY <1>2, <1>4
<1>6. ASSUME b <= m PROVE FALSE
  <2>1. {j \in rest : j < b} \in SUBSET {j \in rest : j < m}
    <3>1. \A j \in rest : j \in Nat
      BY <1>1
    <3> HIDE DEF m
    <3> QED BY <1>4, <1>6, <3>1
  <2>2. IsFiniteSet({j \in rest : j < m}) /\ Cardinality({j \in rest : j < m}) \in Nat
    BY <1>1, FS_Subset, FS_CardinalityType
  <2>3. /\ Cardinality({j \in rest : j < b}) <= Cardinality({j \in rest : j < m})
        /\ Cardinality({j \in rest : j < b}) \in Nat
    BY <2>1, <2>2, FS_Subset, FS_CardinalityType
  <2>4. Cardinality({j \in rest : j < b}) < h.budget
    BY <1>1, <1>5, <2>2, <2>3
  <2> QED BY <1>2, <1>3, <2>4
<1> QED BY <1>3, <1>4, <1>6 DEF rest, page

(* What a device has, it keeps: a step takes a book for a reason only. *)
LEMMA HasGrows ==
  ASSUME TypeInv, TypeInv', SafeInv, [Next]_vars, NEW d \in Devices
  PROVE  HasMore(d)
<1>1. \A e \in Devices : mayLose[e] \subseteq mayLose'[e]
  <2>1. CASE LibraryStep
    BY <2>1, LibraryStepSafe DEF SafeInv, Grows
  <2>2. ASSUME NEW e \in Devices, NEW b \in Books, DeleteOnDevice(e, b) PROVE <1>1
    BY <2>2 DEF DeleteOnDevice, AddTombstone, TypeInv, TypeOK, LibraryTypeOK
  <2>3. CASE UNCHANGED mayLose
    BY <2>3
  <2>4. ASSUME NEW e \in Devices, HandlerStep(e) \/ StepFails(e) PROVE UNCHANGED mayLose
    BY <2>4 DEF HandlerStep, BeginSync, NothingToSay, SomethingToSay, ResumeSync, AbandonSyncPoint,
       ChooseParent, CreateSyncPoint, DrainCategory, SaveSyncCursor, CompleteSyncPoint, DropParent,
       StepFails, libVars
  <2>5. ASSUME NEW e \in Devices,
               SendSync(e) \/ Receive(e) \/ GiveUp(e) \/ DeviceRestarts(e) \/ ResetDeviceSyncState(e)
               \/ \E b \in Books : ReadOnDevice(e, b) \/ ForgetTombstone(e, b)
        PROVE  UNCHANGED mayLose
    BY <2>5 DEF SendSync, Receive, GiveUp, DeviceRestarts, ResetDeviceSyncState, ReadOnDevice,
       SaveReadingState, ForgetTombstone, RemoveTombstone, libVars
  <2>6. CASE WeekPasses \/ GCSyncPoints \/ ServerRestarts \/ UNCHANGED vars
    BY <2>6 DEF WeekPasses, GCSyncPoints, ServerRestarts, vars, libVars
  <2> QED BY <2>1, <2>2, <2>3, <2>4, <2>5, <2>6 DEF Next, DeviceStep
<1>2. \A b \in Books : client[d].books[b] \in Nat /\ client'[d].books[b] \in Nat
  BY DEF TypeInv, TypeOK, Client
<1>3. \A b \in Books : client[d].books[b] > 0 /\ client'[d].books[b] = 0 => b \in mayLose'[d]
  BY StepLoses DEF LosesForAReason
<1> QED BY <1>1, <1>2, <1>3 DEF HasMore, Has

(***************************************************************************)
(* A device whose request is being handled has nothing else on its way.    *)
(***************************************************************************)
LEMMA Busy ==
  ASSUME NEW d \in Devices, DeviceHeld(d), handler[d].pc # "idle"
  PROVE  /\ inbox[d] = {} /\ ~outbox[d].sent /\ outbox[d].items = {}
         /\ client[d].waiting /\ handler[d].live
         /\ handler[d].last = client[d].last /\ handler[d].ongoing = client[d].ongoing
BY DEF DeviceHeld, OneRequest

(* The handler moves and the device sees nothing of it. *)
Unseen(d) ==
  /\ inbox'[d] = inbox[d] /\ outbox'[d] = outbox[d]
  /\ client'[d].waiting = client[d].waiting
  /\ client'[d].last = client[d].last /\ client'[d].ongoing = client[d].ongoing
  /\ handler'[d].pc # "idle" /\ handler'[d].live = handler[d].live
  /\ handler'[d].last = handler[d].last /\ handler'[d].ongoing = handler[d].ongoing

LEMMA GoesOn ==
  ASSUME NEW d \in Devices, DeviceHeld(d), handler[d].pc # "idle", Unseen(d)
  PROVE  OneRequest(d)'
<1>1. /\ inbox[d] = {} /\ ~outbox[d].sent /\ outbox[d].items = {}
      /\ client[d].waiting /\ handler[d].live
      /\ handler[d].last = client[d].last /\ handler[d].ongoing = client[d].ongoing
  BY Busy
<1> QED BY <1>1 DEF OneRequest, Unseen

(* Nothing on its way, and no snapshot says more than it did. *)
LEMMA SettledPoints ==
  ASSUME TypeInv, NEW d \in Devices, PointsHeld(d), outbox[d].items = {}, handler[d].pc # "drop",
         \A p \in Points : TellsNoMore(p, d), HasMore(d)
  PROVE  PointsHeld(d)'
<1>1. \A p \in Points : StaysOrGoes(p)
  BY DEF TellsNoMore
<1>2. \A p \in Points : Settled(d, p)
  BY IsSettled
<1> QED BY <1>1, <1>2, SettledStays DEF PointsHeld

(* An answer reaches the device whose request it is. *)
LEMMA ReplyHolds ==
  ASSUME TypeInv, NEW d \in Devices, DeviceHeld(d), handler[d].pc # "idle",
         NEW last, NEW ongoing, NEW items, Reply(d, last, ongoing, items),
         client' = client, inbox' = inbox, ongoing # None => last # ongoing
  PROVE  /\ outbox'[d].items = items /\ handler'[d].pc = "idle"
         /\ OneRequest(d)' /\ TokensApart(d)' /\ SentHeld(d)'
<1>1. /\ inbox[d] = {} /\ client[d].waiting /\ handler[d].live
  BY Busy
<1>2. /\ outbox'[d] = [sent |-> TRUE, last |-> last, ongoing |-> ongoing, items |-> items]
      /\ handler'[d] = Idle
  BY <1>1 DEF Reply, TypeInv, TypeOK
<1>3. /\ outbox'[d].items = items /\ outbox'[d].sent /\ outbox'[d].last = last
      /\ outbox'[d].ongoing = ongoing /\ handler'[d].pc = "idle"
  BY <1>2 DEF Idle
<1> QED BY <1>1, <1>3 DEF OneRequest, TokensApart, SentHeld, Sending, DeviceHeld
(***************************************************************************)
(* The handler's steps, for the device whose request it is.                *)
(***************************************************************************)
LEMMA CheckHolds ==
  ASSUME TypeInv, NEW d \in Devices, DeviceHeld(d), HasMore(d),
         BeginSync(d) \/ NothingToSay(d) \/ SomethingToSay(d)
  PROVE  DeviceHeld(d)'
<1>0. handler \in [Devices -> Handler] /\ point' = point /\ UNCHANGED <<client, mayLose>>
  BY DEF TypeInv, TypeOK, BeginSync, NothingToSay, SomethingToSay, libVars
<1>1. \A p \in Points : TellsNoMore(p, d)
  BY <1>0, PointsUnchanged DEF TellsNoMore
<1>2. CASE BeginSync(d)
  <2>1. PICK q \in inbox[d] :
          /\ inbox' = [inbox EXCEPT ![d] = inbox[d] \ {q}]
          /\ handler' = [handler EXCEPT ![d] = [Idle EXCEPT !.pc = "check", !.live = q.live,
                                                !.last = q.last, !.ongoing = q.ongoing]]
    BY <1>2 DEF BeginSync
  <2>2. /\ ~outbox[d].sent /\ client[d].waiting /\ handler[d].pc = "idle" /\ outbox[d].items = {}
        /\ inbox[d] = {[last |-> client[d].last, ongoing |-> client[d].ongoing, live |-> TRUE]}
    BY DEF DeviceHeld, OneRequest
  <2>3. /\ handler'[d].pc = "check" /\ handler'[d].live = q.live
        /\ handler'[d].last = q.last /\ handler'[d].ongoing = q.ongoing
    BY <1>0, <2>1 DEF Idle
  <2>4. inbox'[d] = {} /\ q.live /\ q.last = client[d].last /\ q.ongoing = client[d].ongoing
    <3>1. q = [last |-> client[d].last, ongoing |-> client[d].ongoing, live |-> TRUE]
      BY <2>1, <2>2
    <3>2. inbox[d] \ {q} = {}
      BY <2>2, <3>1
    <3>3. inbox'[d] = inbox[d] \ {q}
      BY <2>1 DEF TypeInv, TypeOK
    <3> QED BY <3>1, <3>2, <3>3
  <2>5. outbox' = outbox
    BY <1>2 DEF BeginSync
  <2>6. PointsHeld(d)'
    BY <1>1, <2>2, SettledPoints DEF DeviceHeld
  <2>7. OneRequest(d)' /\ TokensApart(d)' /\ SentHeld(d)'
    BY <1>0, <2>2, <2>3, <2>4, <2>5 DEF OneRequest, TokensApart, SentHeld, Sending, DeviceHeld
  <2> QED BY <2>6, <2>7 DEF DeviceHeld
<1>3. CASE NothingToSay(d)
  <2>1. /\ handler[d].pc = "check" /\ Reply(d, handler[d].last, None, {}) /\ inbox' = inbox
    BY <1>3 DEF NothingToSay, At
  <2>2. PointsHeld(d)'
    BY <1>1, <2>1, Busy, SettledPoints DEF DeviceHeld
  <2>3. OneRequest(d)' /\ TokensApart(d)' /\ SentHeld(d)'
    BY <1>0, <2>1, ReplyHolds
  <2> QED BY <2>2, <2>3 DEF DeviceHeld
<1>4. CASE SomethingToSay(d)
  <2>1. handler[d].pc = "check" /\ handler' = [handler EXCEPT ![d].pc = "resolve"]
        /\ UNCHANGED <<inbox, outbox>>
    BY <1>4 DEF SomethingToSay, At
  <2>2. handler'[d].pc = "resolve" /\ Unseen(d)
    BY <1>0, <2>1 DEF Unseen, Handler
  <2>3. PointsHeld(d)'
    BY <1>1, <2>1, Busy, SettledPoints DEF DeviceHeld
  <2>4. OneRequest(d)'
    BY <2>1, <2>2, GoesOn
  <2>5. TokensApart(d)' /\ SentHeld(d)'
    BY <1>0, <2>1, <2>2 DEF TokensApart, SentHeld, Sending, DeviceHeld
  <2> QED BY <2>3, <2>4, <2>5 DEF DeviceHeld
<1> QED BY <1>2, <1>3, <1>4

(* A resumed drain goes on where the cursor says, and the device has what   *)
(* lies before it.                                                          *)
LEMMA ResumeHolds ==
  ASSUME TypeInv, NEW d \in Devices, DeviceHeld(d), HasMore(d), ResumeSync(d)
  PROVE  DeviceHeld(d)'
<1>1. PICK sp, parent : sp = handler[d].ongoing /\ parent = point[sp].parent
  OBVIOUS
<1>2. /\ handler[d].pc = "resolve" /\ IsState(sp, d, "ongoing") /\ point' = point
      /\ UNCHANGED <<inbox, outbox, client, mayLose>> /\ handler \in [Devices -> Handler]
      /\ handler' = [handler EXCEPT ![d] = [handler[d] EXCEPT !.pc = "drain", !.sp = sp,
                          !.parent = parent, !.cat = point[sp].cat,
                          !.key = point[sp].key, !.budget = Batch]]
  BY <1>1 DEF ResumeSync, At, libVars, TypeInv, TypeOK
<1>3. /\ handler'[d].pc = "drain" /\ handler'[d].sp = sp /\ handler'[d].parent = parent
      /\ handler'[d].cat = point[sp].cat /\ handler'[d].key = point[sp].key
      /\ handler'[d].last = handler[d].last /\ handler'[d].ongoing = handler[d].ongoing
      /\ handler'[d].live = handler[d].live
  BY <1>2 DEF Handler
<1>4. \A p \in Points : TellsNoMore(p, d)
  BY <1>2, PointsUnchanged DEF TellsNoMore
<1>5. PointsHeld(d)'
  BY <1>2, <1>4, Busy, SettledPoints DEF DeviceHeld
<1>6. OneRequest(d)'
  BY <1>2, <1>3, GoesOn DEF Unseen
<1>7. /\ handler[d].ongoing = client[d].ongoing /\ outbox[d].items = {} /\ ~outbox[d].sent
  BY <1>2, Busy
<1>8. sp \in Points /\ sp # None /\ sp # client[d].last
  BY <1>1, <1>2, <1>7, HandlerFields DEF IsState, DeviceHeld, TokensApart, PointRef
<1>9. Settled(d, sp)
  BY <1>2, <1>7, <1>8, IsSettled DEF DeviceHeld
<1>10. /\ parent # sp
       /\ \A b \in BooksOf(sp) :
            Has(d, b) \/ (b \notin BooksOf(parent) /\ Ahead(point[sp].cat, point[sp].key, b))
  BY <1>1, <1>2, <1>9 DEF Settled
<1>11. TokensApart(d)'
  BY <1>1, <1>2, <1>3, <1>7, <1>8, <1>10 DEF TokensApart, Sending, IsState, DeviceHeld
<1>12. SentHeld(d)'
  <2>1. BooksOf(handler[d].sp)' = BooksOf(sp) /\ BooksOf(handler[d].parent)' = BooksOf(parent)
    BY <1>2, <1>3 DEF BooksOf, Content
  <2>2. \A b \in BooksOf(sp) : Has(d, b)' <=> Has(d, b)
    BY <1>2 DEF Has
  <2> QED BY <1>3, <1>10, <2>1, <2>2 DEF SentHeld, Sending
<1> QED BY <1>5, <1>6, <1>11, <1>12 DEF DeviceHeld
LEMMA ChooseHolds ==
  ASSUME TypeInv, NEW d \in Devices, DeviceHeld(d), HasMore(d),
         AbandonSyncPoint(d) \/ ChooseParent(d)
  PROVE  DeviceHeld(d)'
<1>1. /\ handler \in [Devices -> Handler] /\ point \in [Points -> SyncPoint]
      /\ UNCHANGED <<inbox, outbox, client, mayLose>>
      /\ handler[d].pc \in {"resolve", "parent"}
  BY DEF TypeInv, TypeOK, AbandonSyncPoint, ChooseParent, At, libVars
<1>2. /\ handler'[d].pc \in {"parent", "create"}
      /\ handler'[d].last = handler[d].last /\ handler'[d].ongoing = handler[d].ongoing
      /\ handler'[d].live = handler[d].live
  <2>1. CASE AbandonSyncPoint(d)
    BY <1>1, <2>1 DEF AbandonSyncPoint, Handler
  <2>2. ASSUME NEW parent, handler' = [handler EXCEPT ![d].pc = "create", ![d].parent = parent]
        PROVE  <1>2
    BY <1>1, <2>2 DEF Handler
  <2> QED BY <2>1, <2>2 DEF ChooseParent
<1>3. \A p \in Points : TellsNoMore(p, d)
  <2>1. CASE point' = point
    BY <2>1, PointsUnchanged DEF TellsNoMore
  <2>2. ASSUME NEW p \in PointsIn(d, "ongoing"),
               point' = [point EXCEPT ![p].state = "abandoned", ![p].recent = TRUE]
        PROVE  <1>3
    <3>1. p \in Points /\ point[p].state = "ongoing"
      BY <2>2 DEF PointsIn, IsState
    <3>2. /\ \A q \in Points \ {p} : point'[q] = point[q]
          /\ point'[p].state = "abandoned" /\ point'[p].device = point[p].device
          /\ point'[p].parent = point[p].parent /\ point'[p].books = point[p].books
      BY <1>1, <2>2, <3>1 DEF SyncPoint
    <3> QED BY <3>1, <3>2 DEF TellsNoMore, StaysOrGoes, Stays
  <2> QED BY <2>1, <2>2 DEF AbandonSyncPoint, ChooseParent
<1>4. PointsHeld(d)'
  BY <1>1, <1>3, Busy, SettledPoints DEF DeviceHeld
<1>5. OneRequest(d)'
  BY <1>1, <1>2, GoesOn DEF Unseen
<1>6. TokensApart(d)'
  BY <1>1, <1>2 DEF TokensApart, Sending, DeviceHeld
<1>7. SentHeld(d)'
  <2>1. CASE AbandonSyncPoint(d)
    <3>1. handler'[d].pc = "parent"
      BY <1>1, <2>1 DEF AbandonSyncPoint, Handler
    <3> QED BY <3>1 DEF SentHeld, Sending
  <2>2. CASE ChooseParent(d)
    <3>1. PICK parent :
            /\ parent \in IF IsState(handler[d].last, d, "completed")
                          THEN {handler[d].last} ELSE LastCompleted(d)
            /\ handler' = [handler EXCEPT ![d].pc = "create", ![d].parent = parent]
      BY <2>2 DEF ChooseParent
    <3>2. /\ point' = point /\ handler[d].pc = "parent"
          /\ handler'[d].pc = "create" /\ handler'[d].parent = parent
      BY <1>1, <2>2, <3>1 DEF Handler, ChooseParent, At
    <3>3. parent = None \/ (parent \in Points /\ IsState(parent, d, "completed"))
      BY <3>1, HandlerFields DEF LastCompleted, PointsIn, IsState, PointRef
    <3>4. \A b \in BooksOf(parent) : Has(d, b)
      <4>1. CASE parent = None
        BY <4>1 DEF BooksOf, Content, NoPoint, NoBooks
      <4>2. CASE parent \in Points /\ IsState(parent, d, "completed")
        <5>1. Settled(d, parent)
          BY <3>2, <4>2, Busy, IsSettled DEF DeviceHeld
        <5> QED BY <4>2, <5>1 DEF Settled
      <4> QED BY <3>3, <4>1, <4>2
    <3>5. BooksOf(handler[d].parent)' = BooksOf(parent)
      BY <3>2 DEF BooksOf, Content
    <3>6. \A b \in BooksOf(parent) : Has(d, b)'
      BY <1>1, <3>4 DEF Has
    <3> QED BY <3>2, <3>5, <3>6 DEF SentHeld, Sending
  <2> QED BY <2>1, <2>2
<1> QED BY <1>4, <1>5, <1>6, <1>7 DEF DeviceHeld

(* A new snapshot: the device has what it shares with its parent, and the   *)
(* cursor has the rest before it.                                           *)
LEMMA CreateHolds ==
  ASSUME TypeInv, NEW d \in Devices, DeviceHeld(d), HasMore(d), CreateSyncPoint(d)
  PROVE  DeviceHeld(d)'
<1>1. PICK parent : parent = handler[d].parent
  OBVIOUS
<1>2. PICK p \in Points :
        /\ Unused(p)
        /\ point' = [point EXCEPT ![p] = NewSnapshot(d, parent)]
        /\ handler' = [handler EXCEPT ![d] = [handler[d] EXCEPT !.pc = "drain", !.sp = p,
                                   !.cat = CatNewBooks, !.key = 0, !.budget = Batch]]
  BY <1>1 DEF CreateSyncPoint
<1>3. /\ handler \in [Devices -> Handler] /\ point \in [Points -> SyncPoint]
      /\ UNCHANGED <<inbox, outbox, client, mayLose>> /\ handler[d].pc = "create" /\ p # None
  BY SyncAssumption DEF TypeInv, TypeOK, CreateSyncPoint, At, libVars
<1>4. /\ handler'[d].pc = "drain" /\ handler'[d].sp = p /\ handler'[d].parent = parent
      /\ handler'[d].cat = CatNewBooks /\ handler'[d].key = 0
      /\ handler'[d].last = handler[d].last /\ handler'[d].ongoing = handler[d].ongoing
      /\ handler'[d].live = handler[d].live
  BY <1>1, <1>2, <1>3 DEF Handler
<1>5. /\ point'[p].device = d /\ point'[p].parent = parent /\ point'[p].state = "ongoing"
      /\ point'[p].cat = CatNewBooks /\ point'[p].key = 0
      /\ \A q \in Points \ {p} : point'[q] = point[q]
  BY <1>2, <1>3 DEF NewSnapshot
<1>6. p # client[d].last /\ p # parent /\ parent \in PointRef
  BY <1>1, <1>2, HandlerFields DEF Unused
<1>7. BooksOf(parent)' = BooksOf(parent)
  BY <1>5, <1>6 DEF BooksOf, Content, PointRef
<1>8. \A b \in BooksOf(parent) : Has(d, b)'
  BY <1>1, <1>3 DEF DeviceHeld, SentHeld, Has
<1>9. \A b \in BooksOf(p)' :
        Has(d, b)' \/ (b \notin BooksOf(parent)' /\ Ahead(CatNewBooks, 0, b))
  <2>1. \A b \in BooksOf(p)' : b \in Nat \ {0}
    BY LibraryAssumption DEF BooksOf
  <2> QED BY <1>7, <1>8, <2>1 DEF Ahead
<1>10. OneRequest(d)'
  BY <1>3, <1>4, GoesOn DEF Unseen
<1>11. TokensApart(d)'
  BY <1>3, <1>4, <1>5, <1>6 DEF TokensApart, Sending, DeviceHeld
<1>12. SentHeld(d)'
  <2>1. BooksOf(handler[d].sp)' = BooksOf(p)' /\ BooksOf(handler[d].parent)' = BooksOf(parent)'
    BY <1>4 DEF BooksOf, Content
  <2> QED BY <1>4, <1>9, <2>1 DEF SentHeld, Sending
<1>13. PointsHeld(d)'
  <2>1. \A q \in Points \ {p} : TellsNoMore(q, d)
    BY <1>5 DEF TellsNoMore, StaysOrGoes, Stays
  <2>2. \A q \in Points : StaysOrGoes(q) \/ Unused(q)
    BY <1>2, <2>1 DEF TellsNoMore
  <2>3. \A q \in Points \ {p} : PointHeld(d, q)'
    <3>1. outbox[d].items = {}
      BY <1>3, Busy
    <3>2. \A q \in Points : Settled(d, q)
      BY <1>3, <3>1, IsSettled DEF DeviceHeld
    <3> QED BY <2>1, <2>2, <3>2, SettledStays
  <2>4. PointHeld(d, p)'
    <3>1. BooksOf(point[p].parent)' = BooksOf(parent)'
      BY <1>5 DEF BooksOf, Content
    <3>2. OngoingHeld(d, p)'
      BY <1>5, <1>9, <3>1 DEF OngoingHeld
    <3> QED BY <1>5, <1>6, <3>2 DEF PointHeld, IsState
  <2> QED BY <2>3, <2>4 DEF PointsHeld
<1> QED BY <1>10, <1>11, <1>12, <1>13 DEF DeviceHeld
(* A turn of drain's loop: what the cursor passes goes into the answer. *)
LEMMA DrainHolds ==
  ASSUME TypeInv, NEW d \in Devices, DeviceHeld(d), HasMore(d), DrainCategory(d)
  PROVE  DeviceHeld(d)'
<1>1. PICK h, q, p : h = handler[d] /\ q = handler[d].parent /\ p = handler[d].sp
  OBVIOUS
<1>2. /\ h \in Handler /\ h.pc = "drain" /\ At(d, "drain") /\ h.parent = q /\ h.sp = p
      /\ UNCHANGED <<inbox, outbox, client, mayLose>> /\ point' = point
      /\ handler'[d] = Drained(h, d)
  BY <1>1, HandlerFields DEF DrainCategory, At, TypeInv, TypeOK, libVars
<1>3. /\ Drained(h, d).parent = q /\ Drained(h, d).sp = p
      /\ Drained(h, d).pc \in {"complete", "save", "drain"}
      /\ Drained(h, d).items = h.items \cup {Emit(d, h.cat, i) : i \in Page(h, d)}
      /\ Drained(h, d).cat = IF Page(h, d) = Rest(h, d) THEN h.cat + 1 ELSE h.cat
      /\ Drained(h, d).key = IF Page(h, d) = Rest(h, d) THEN 0 ELSE Max(Page(h, d))
      /\ Drained(h, d).pc = "complete" => Drained(h, d).cat = CatDone
      /\ Drained(h, d).last = h.last /\ Drained(h, d).ongoing = h.ongoing
      /\ Drained(h, d).live = h.live
  BY <1>2 DEF Drained, Handler
<1>4. \A x \in Points : TellsNoMore(x, d)
  BY <1>2, PointsUnchanged DEF TellsNoMore
<1>5. PointsHeld(d)'
  BY <1>1, <1>2, <1>4, Busy, SettledPoints DEF DeviceHeld
<1>6. OneRequest(d)'
  BY <1>1, <1>2, <1>3, GoesOn DEF Unseen
<1>7. TokensApart(d)'
  BY <1>1, <1>2, <1>3 DEF TokensApart, Sending, DeviceHeld
<1>8. ASSUME NEW b \in BooksOf(p)
      PROVE  \/ Has(d, b) \/ Brings(Drained(h, d).items, b)
             \/ b \notin BooksOf(q) /\ Ahead(Drained(h, d).cat, Drained(h, d).key, b)
  <2>1. Has(d, b) \/ Brings(h.items, b) \/ (b \notin BooksOf(q) /\ Ahead(h.cat, h.key, b))
    BY <1>1, <1>2 DEF DeviceHeld, SentHeld, Sending
  <2>2. CASE Brings(h.items, b)
    BY <1>3, <2>2 DEF Brings
  <2>3. CASE b \notin BooksOf(q) /\ Ahead(h.cat, h.key, b)
    <3>1. h.cat = CatNewBooks /\ b > h.key /\ b \in NewBookIDs(q, p)
      BY <2>3 DEF Ahead, NewBookIDs
    <3>2. b \in Rest(h, d)
      BY <1>2, <3>1, CategoryCases DEF Rest
    <3>3. CASE b \in Page(h, d)
      <4>1. Emit(d, h.cat, b) \in Drained(h, d).items
        BY <1>3, <3>3
      <4>2. Emit(d, h.cat, b).cat = CatNewBooks /\ Emit(d, h.cat, b).id = b
        BY <3>1 DEF Emit
      <4> QED BY <4>1, <4>2 DEF Brings
    <3>4. CASE b \notin Page(h, d)
      BY <1>1, <1>2, <1>3, <2>3, <3>1, <3>2, <3>4, LargerIsLeft DEF Ahead
    <3> QED BY <3>3, <3>4
  <2> QED BY <2>1, <2>2, <2>3
<1>9. SentHeld(d)'
  <2>1. BooksOf(handler[d].sp)' = BooksOf(p) /\ BooksOf(handler[d].parent)' = BooksOf(q)
    BY <1>2, <1>3 DEF BooksOf, Content
  <2>2. \A b \in BooksOf(p) : Has(d, b)' <=> Has(d, b)
    BY <1>2 DEF Has
  <2>3. handler'[d].items = Drained(h, d).items /\ handler'[d].cat = Drained(h, d).cat
        /\ handler'[d].key = Drained(h, d).key /\ handler'[d].pc \in Sending
    BY <1>2, <1>3 DEF Sending
  <2>4. \A b \in BooksOf(p) : Brings(handler[d].items, b)' <=> Brings(Drained(h, d).items, b)
    BY <2>3 DEF Brings
  <2>5. handler'[d].pc # "create"
    BY <1>2, <1>3
  <2> QED BY <1>8, <2>1, <2>2, <2>3, <2>4, <2>5 DEF SentHeld
<1> QED BY <1>5, <1>6, <1>7, <1>9 DEF DeviceHeld

(* The cursor that is written says of the snapshot what the handler knew.   *)
LEMMA SaveHolds ==
  ASSUME TypeInv, NEW d \in Devices, DeviceHeld(d), HasMore(d), SaveSyncCursor(d)
  PROVE  DeviceHeld(d)'
<1>1. PICK h, q, p : h = handler[d] /\ q = handler[d].parent /\ p = handler[d].sp
  OBVIOUS
<1>2. /\ h.pc = "save" /\ h.parent = q /\ h.sp = p /\ Reply(d, q, p, h.items)
      /\ UNCHANGED <<inbox, client, mayLose>> /\ point \in [Points -> SyncPoint]
      /\ point' = IF point[p].state = "none" THEN point
                  ELSE [point EXCEPT ![p].cat = h.cat, ![p].key = h.key, ![p].recent = TRUE]
  BY <1>1 DEF SaveSyncCursor, At, libVars, TypeInv, TypeOK
<1>3. /\ p \in Points /\ p # client[d].last /\ p # q
      /\ point[p].state = "none" \/ (point[p].device = d /\ point[p].parent = q)
  BY <1>1, <1>2 DEF DeviceHeld, TokensApart, Sending
<1>4. outbox'[d].items = h.items /\ OneRequest(d)' /\ TokensApart(d)' /\ SentHeld(d)'
  BY <1>1, <1>2, <1>3, ReplyHolds
<1>5. /\ \A x \in Points : Stays(x)
      /\ \A x \in Points \ {p} : TellsNoMore(x, d)
  <2>1. CASE point' = point
    BY <2>1, PointsUnchanged DEF TellsNoMore
  <2>2. CASE point[p].state # "none"
    <3>1. /\ \A x \in Points \ {p} : point'[x] = point[x]
          /\ point'[p].state = point[p].state /\ point'[p].device = point[p].device
          /\ point'[p].parent = point[p].parent /\ point'[p].books = point[p].books
      BY <1>2, <1>3, <2>2 DEF SyncPoint
    <3> QED BY <2>2, <3>1 DEF TellsNoMore, StaysOrGoes, Stays
  <2> QED BY <1>2, <2>1, <2>2
<1>6. \A x \in Points : Settled(d, x) /\ StaysOrGoes(x)
  <2>1. outbox[d].items = {}
    BY <1>1, <1>2, Busy
  <2> QED BY <1>1, <1>2, <1>5, <2>1, IsSettled DEF DeviceHeld, StaysOrGoes
<1>7. \A x \in Points \ {p} : PointHeld(d, x)'
  BY <1>5, <1>6, SettledStays
<1>8. PointHeld(d, p)'
  <2>1. BooksOf(p)' = BooksOf(p) /\ BooksOf(p) \subseteq Books /\ p # None
    BY <1>3, <1>5, SyncAssumption DEF BooksOf, Content, Stays
  <2>2. ASSUME IsState(p, d, "completed")' PROVE CompletedHeld(d, p)'
    <3>1. IsState(p, d, "completed")
      <4>1. point'[p].state = point[p].state /\ point'[p].device = point[p].device
        BY <1>2, <1>3 DEF SyncPoint
      <4> QED BY <2>2, <4>1 DEF IsState
    <3> QED BY <1>6, <1>3, <2>1, <3>1 DEF CompletedHeld, Settled, HasMore
  <2>3. ASSUME IsState(p, d, "ongoing")' PROVE OngoingHeld(d, p)' /\ point'[p].parent # p
    <3>1. point[p].state # "none" /\ point'[p].parent = q
      BY <1>2, <1>3, <1>5, <2>3 DEF IsState, Stays
    <3>2. point'[p].cat = h.cat /\ point'[p].key = h.key
      BY <1>2, <1>3, <3>1 DEF SyncPoint
    <3>3. BooksOf(q)' = BooksOf(q) /\ BooksOf(point[p].parent)' = BooksOf(q)'
      BY <1>1, <1>3, <1>5, <3>1, HandlerFields, SyncAssumption DEF BooksOf, Content, Stays, PointRef
    <3>4. \A b \in BooksOf(p) :
            Has(d, b) \/ Brings(h.items, b) \/ (b \notin BooksOf(q) /\ Ahead(h.cat, h.key, b))
      BY <1>1, <1>2 DEF DeviceHeld, SentHeld, Sending
    <3>5. \A b \in BooksOf(p) : Brings(outbox[d].items, b)' <=> Brings(h.items, b)
      BY <1>4 DEF Brings
    <3> QED BY <1>3, <2>1, <3>1, <3>2, <3>3, <3>4, <3>5 DEF OngoingHeld, HasMore
  <2> QED BY <2>2, <2>3 DEF PointHeld
<1> QED BY <1>4, <1>7, <1>8 DEF PointsHeld, DeviceHeld

(* A snapshot completed: what the device has not is in the answer to come.  *)
LEMMA CompleteHolds ==
  ASSUME TypeInv, NEW d \in Devices, DeviceHeld(d), HasMore(d), CompleteSyncPoint(d)
  PROVE  DeviceHeld(d)'
<1>1. PICK h, q, p : h = handler[d] /\ q = handler[d].parent /\ p = handler[d].sp
  OBVIOUS
<1>2. /\ h.pc = "complete" /\ h.parent = q /\ h.sp = p /\ h \in Handler
      /\ UNCHANGED <<inbox, outbox, client, mayLose>> /\ point \in [Points -> SyncPoint]
      /\ handler' = [handler EXCEPT ![d].pc = "drop"] /\ handler \in [Devices -> Handler]
      /\ point' = IF point[p].state = "none" THEN point
                  ELSE [point EXCEPT ![p].state = "completed", ![p].cat = CatDone,
                                     ![p].recent = TRUE]
  BY <1>1, HandlerFields DEF CompleteSyncPoint, At, libVars, TypeInv, TypeOK
<1>3. /\ p \in Points /\ p # client[d].last /\ p # q /\ h.cat = CatDone
      /\ point[p].state = "none" \/ (point[p].device = d /\ point[p].parent = q)
  BY <1>1, <1>2 DEF DeviceHeld, TokensApart, Sending
<1>4. /\ handler'[d].pc = "drop" /\ handler'[d].sp = p /\ handler'[d].parent = q
      /\ handler'[d].items = h.items /\ handler'[d].cat = CatDone
      /\ handler'[d].last = h.last /\ handler'[d].ongoing = h.ongoing /\ handler'[d].live = h.live
  BY <1>1, <1>2, <1>3 DEF Handler
<1>5. /\ \A x \in Points : Stays(x)
      /\ \A x \in Points \ {p} : TellsNoMore(x, d)
      /\ point'[p].state \in {"none", "completed"}
  <2>1. CASE point' = point /\ point[p].state = "none"
    BY <2>1, PointsUnchanged DEF TellsNoMore
  <2>2. CASE point[p].state # "none"
    <3>1. /\ \A x \in Points \ {p} : point'[x] = point[x]
          /\ point'[p].state = "completed" /\ point'[p].device = point[p].device
          /\ point'[p].parent = point[p].parent /\ point'[p].books = point[p].books
      BY <1>2, <1>3, <2>2 DEF SyncPoint
    <3> QED BY <2>2, <3>1 DEF TellsNoMore, StaysOrGoes, Stays
  <2> QED BY <1>2, <2>1, <2>2
<1>6. BooksOf(p)' = BooksOf(p) /\ BooksOf(p) \subseteq Books /\ p # None
  BY <1>3, <1>5, SyncAssumption DEF BooksOf, Content, Stays
<1>7. /\ \A b \in BooksOf(p) : Has(d, b)' \/ Brings(h.items, b)
      /\ \A b \in BooksOf(p) : Brings(handler[d].items, b)' <=> Brings(h.items, b)
  <2>1. \A b \in BooksOf(p) : Has(d, b) \/ Brings(h.items, b)
    BY <1>1, <1>2, <1>3 DEF DeviceHeld, SentHeld, Sending, Ahead
  <2> QED BY <1>4, <1>6, <2>1 DEF HasMore, Brings
<1>8. OneRequest(d)'
  BY <1>1, <1>2, <1>4, GoesOn DEF Unseen
<1>9. TokensApart(d)'
  <2>1. point'[p].state = "none" \/ (point'[p].device = d /\ point'[p].parent = q)
    BY <1>3, <1>5 DEF Stays
  <2> QED BY <1>1, <1>2, <1>3, <1>4, <2>1 DEF TokensApart, Sending, DeviceHeld
<1>10. SentHeld(d)'
  <2>1. BooksOf(handler[d].sp)' = BooksOf(p)
    BY <1>4, <1>6 DEF BooksOf, Content
  <2> QED BY <1>4, <1>7, <2>1 DEF SentHeld, Sending
<1>11. PointsHeld(d)'
  <2>1. \A x \in Points : Settled(d, x) /\ StaysOrGoes(x)
    <3>1. outbox[d].items = {}
      BY <1>1, <1>2, Busy
    <3> QED BY <1>1, <1>2, <1>5, <3>1, IsSettled DEF DeviceHeld, StaysOrGoes
  <2>2. \A x \in Points \ {p} : PointHeld(d, x)'
    BY <1>5, <2>1, SettledStays
  <2>3. PointHeld(d, p)'
    BY <1>4, <1>5, <1>6, <1>7 DEF PointHeld, CompletedHeld, IsState
  <2> QED BY <2>2, <2>3 DEF PointsHeld
<1> QED BY <1>8, <1>9, <1>10, <1>11 DEF DeviceHeld
(* The answer that ends a sync brings what is missing of its snapshot, and  *)
(* the device's token does not name that snapshot before it arrives.        *)
LEMMA LastAnswerHolds ==
  ASSUME TypeInv, NEW d \in Devices, DeviceHeld(d), HasMore(d), NEW sp, sp = handler[d].sp,
         handler[d].pc \in {"complete", "drop"}, Reply(d, sp, None, handler[d].items),
         client' = client, inbox' = inbox,
         \A p \in Points : TellsNoMore(p, d), point'[sp] = point[sp]
  PROVE  DeviceHeld(d)'
<1>1. /\ outbox'[d].items = handler[d].items /\ handler'[d].pc = "idle"
      /\ OneRequest(d)' /\ TokensApart(d)' /\ SentHeld(d)'
  BY ReplyHolds
<1>2. outbox[d].items = {}
  BY Busy
<1>3. \A p \in Points : StaysOrGoes(p)
  BY DEF TellsNoMore
<1>4. ASSUME NEW p \in Points, p # sp \/ ~IsState(p, d, "completed") PROVE PointHeld(d, p)'
  <2>1. Settled(d, p)
    BY <1>2, <1>4 DEF DeviceHeld, PointsHeld, PointHeld, CompletedHeld, OngoingHeld, Brings, Settled
  <2> QED BY <1>3, <2>1, SettledStays
<1>5. ASSUME IsState(sp, d, "completed"), sp \in Points PROVE PointHeld(d, sp)'
  <2>1. /\ sp # client'[d].last /\ handler[d].cat = CatDone /\ sp # None
    BY SyncAssumption DEF DeviceHeld, TokensApart, Sending
  <2>2. \A b \in BooksOf(sp) : Has(d, b) \/ Brings(handler[d].items, b)
    BY <2>1 DEF DeviceHeld, SentHeld, Sending, Ahead
  <2>3. BooksOf(sp)' = BooksOf(sp) /\ BooksOf(sp) \subseteq Books
    BY <2>1 DEF BooksOf, Content
  <2>4. \A b \in Books : Brings(outbox[d].items, b)' <=> Brings(handler[d].items, b)
    BY <1>1 DEF Brings
  <2>5. point'[sp].state = "completed"
    BY <1>5 DEF IsState
  <2> QED BY <2>1, <2>2, <2>3, <2>4, <2>5 DEF PointHeld, CompletedHeld, HasMore, IsState
<1> QED BY <1>1, <1>4, <1>5 DEF DeviceHeld, PointsHeld

LEMMA DropHolds ==
  ASSUME TypeInv, NEW d \in Devices, DeviceHeld(d), HasMore(d), DropParent(d)
  PROVE  DeviceHeld(d)'
<1>1. PICK q, p : q = handler[d].parent /\ p = handler[d].sp
  OBVIOUS
<1>2. /\ handler[d].pc = "drop" /\ Reply(d, p, None, handler[d].items)
      /\ UNCHANGED <<inbox, client>> /\ p # q /\ p \in Points
      /\ point' = IF q = None THEN point ELSE [point EXCEPT ![q] = NoPoint]
  BY <1>1 DEF DropParent, At, DeviceHeld, TokensApart, Sending
<1>3. \A x \in Points : point'[x] = point[x] \/ point'[x] = NoPoint
  BY <1>2 DEF TypeInv, TypeOK
<1>4. \A x \in Points : TellsNoMore(x, d)
  <2>1. NoPoint.state = "none"
    BY DEF NoPoint
  <2> QED BY <1>3, <2>1, PointsUnchanged DEF TellsNoMore, StaysOrGoes, Stays
<1>5. point'[p] = point[p]
  BY <1>2 DEF TypeInv, TypeOK
<1> QED BY <1>1, <1>2, <1>4, <1>5, LastAnswerHolds

LEMMA StepFailsHolds ==
  ASSUME TypeInv, NEW d \in Devices, DeviceHeld(d), HasMore(d), StepFails(d)
  PROVE  DeviceHeld(d)'
<1>1. /\ UNCHANGED <<inbox, client>> /\ point' = point /\ handler \in [Devices -> Handler]
  BY DEF StepFails, TypeInv, TypeOK
<1>2. \A p \in Points : TellsNoMore(p, d)
  BY <1>1, PointsUnchanged DEF TellsNoMore
<1>3. CASE /\ At(d, "check")
           /\ handler' = [handler EXCEPT ![d].pc = "resolve"]
           /\ UNCHANGED outbox
  <2>1. handler'[d].pc = "resolve" /\ handler[d].pc = "check" /\ Unseen(d)
    BY <1>1, <1>3 DEF Unseen, Handler, At
  <2>2. PointsHeld(d)'
    BY <1>2, <2>1, Busy, SettledPoints DEF DeviceHeld
  <2>3. OneRequest(d)'
    BY <2>1, GoesOn
  <2>4. TokensApart(d)' /\ SentHeld(d)'
    BY <1>1, <1>3, <2>1 DEF TokensApart, SentHeld, Sending, DeviceHeld
  <2> QED BY <2>2, <2>3, <2>4 DEF DeviceHeld
<1>4. CASE /\ handler[d].pc \in {"resolve", "parent", "create", "drain"}
           /\ Reply(d, handler[d].last, handler[d].ongoing, {})
  <2>1. handler[d].ongoing # None => handler[d].last # handler[d].ongoing
    BY <1>4, Busy DEF DeviceHeld, TokensApart
  <2>2. OneRequest(d)' /\ TokensApart(d)' /\ SentHeld(d)'
    BY <1>1, <1>4, <2>1, ReplyHolds
  <2>3. PointsHeld(d)'
    BY <1>2, <1>4, Busy, SettledPoints DEF DeviceHeld
  <2> QED BY <2>2, <2>3 DEF DeviceHeld
<1>5. CASE At(d, "save") /\ Reply(d, handler[d].parent, handler[d].sp, handler[d].items)
  <2>1. handler[d].parent # handler[d].sp /\ handler[d].pc = "save"
    BY <1>5 DEF DeviceHeld, TokensApart, Sending, At
  <2>2. OneRequest(d)' /\ TokensApart(d)' /\ SentHeld(d)'
    BY <1>1, <1>5, <2>1, ReplyHolds
  <2>3. PointsHeld(d)'
    BY <1>2, <2>1, Busy, SettledPoints DEF DeviceHeld
  <2> QED BY <2>2, <2>3 DEF DeviceHeld
<1>6. CASE /\ handler[d].pc \in {"complete", "drop"}
           /\ Reply(d, handler[d].sp, None, handler[d].items)
  BY <1>1, <1>2, <1>6, LastAnswerHolds
<1> QED BY <1>3, <1>4, <1>5, <1>6 DEF StepFails

LEMMA HandlerHolds ==
  ASSUME TypeInv, NEW d \in Devices, DeviceHeld(d), HasMore(d), HandlerStep(d) \/ StepFails(d)
  PROVE  DeviceHeld(d)'
BY CheckHolds, ResumeHolds, ChooseHolds, CreateHolds, DrainHolds, SaveHolds, CompleteHolds, DropHolds,
   StepFailsHolds DEF HandlerStep

(***************************************************************************)
(* The device's own steps.                                                 *)
(***************************************************************************)
LEMMA SendHolds ==
  ASSUME TypeInv, NEW d \in Devices, DeviceHeld(d), HasMore(d), SendSync(d) \/ DeviceRestarts(d)
  PROVE  DeviceHeld(d)'
<1>1. /\ ~client[d].waiting /\ UNCHANGED <<handler, outbox>> /\ point' = point
      /\ inbox \in [Devices -> SUBSET Request] /\ client \in [Devices -> Client]
  BY DEF SendSync, DeviceRestarts, TypeInv, TypeOK
<1>2. inbox[d] = {} /\ ~outbox[d].sent /\ outbox[d].items = {} /\ handler[d].pc = "idle"
  BY <1>1 DEF DeviceHeld, OneRequest
<1>3. \A p \in Points : TellsNoMore(p, d)
  BY <1>1, PointsUnchanged DEF TellsNoMore
<1>4. PointsHeld(d)'
  BY <1>2, <1>3, SettledPoints DEF DeviceHeld
<1>5. CASE SendSync(d)
  <2>1. /\ client'[d].waiting /\ client'[d].last = client[d].last
        /\ client'[d].ongoing = client[d].ongoing
    BY <1>1, <1>5 DEF SendSync, Client
  <2>2. inbox'[d] = {[last |-> client'[d].last, ongoing |-> client'[d].ongoing, live |-> TRUE]}
    BY <1>1, <1>2, <1>5, <2>1 DEF SendSync
  <2>3. OneRequest(d)' /\ TokensApart(d)' /\ SentHeld(d)'
    BY <1>1, <1>2, <2>1, <2>2 DEF OneRequest, TokensApart, SentHeld, Sending, DeviceHeld
  <2> QED BY <1>4, <2>3 DEF DeviceHeld
<1>6. CASE DeviceRestarts(d)
  <2>1. client'[d].ongoing = None /\ inbox' = inbox
    BY <1>1, <1>6 DEF DeviceRestarts, Client
  <2>2. OneRequest(d)' /\ TokensApart(d)' /\ SentHeld(d)'
    BY <1>1, <1>2, <2>1 DEF OneRequest, TokensApart, SentHeld, Sending
  <2> QED BY <1>4, <2>2 DEF DeviceHeld
<1> QED BY <1>5, <1>6

(* What an answer brings, the device then has. *)
LEMMA BroughtIsHad ==
  ASSUME TypeInv, SafeInv, NEW d \in Devices, Receive(d), NEW b \in Books, Brings(outbox[d].items, b)
  PROVE  Has(d, b)'
<1> DEFINE items == outbox[d].items
           put == ItemsOf(items, {CatNewBooks, CatChangedBooks}, b)
<1>1. /\ items \in SUBSET Item /\ IsFiniteSet(items) /\ ItemsSafe(items, d)
  BY DEF TypeInv, TypeOK, Answer, FiniteItems, SafeInv, HandlersSafe
<1>2. client'[d].books = ShelfAfter(client[d].books, items) /\ mayLose' = mayLose
  BY DEF Receive, libVars, TypeInv, TypeOK
<1>3. CASE ItemsOf(items, {CatRemovedBooks}, b) # {}
  <2>1. b \in mayLose[d]
    BY <1>1, <1>3 DEF ItemsOf, ItemsSafe
  <2> QED BY <1>2, <2>1 DEF Has
<1>4. CASE ItemsOf(items, {CatRemovedBooks}, b) = {}
  <2>1. put # {} /\ put \in SUBSET items
    BY DEF Brings, ItemsOf
  <2>2. PICK i \in put : i.rev = Max({j.rev : j \in put})
    BY <1>1, <2>1, MaxOfRevs
  <2>3. i.rev > 0
    BY <1>1, <2>2 DEF ItemsOf, ItemsSafe
  <2>4. client'[d].books[b] = Max({j.rev : j \in put})
    BY <1>2, <1>4, <2>1 DEF ShelfAfter
  <2> QED BY <2>2, <2>3, <2>4 DEF Has
<1> QED BY <1>3, <1>4

LEMMA ReceiveHolds ==
  ASSUME TypeInv, SafeInv, NEW d \in Devices, DeviceHeld(d), HasMore(d), Receive(d)
  PROVE  DeviceHeld(d)'
<1>1. PICK a : a = outbox[d]
  OBVIOUS
<1>2. /\ a.sent /\ point' = point /\ UNCHANGED <<handler, inbox>>
      /\ outbox' = [outbox EXCEPT ![d] = NoAnswer]
      /\ client'[d].last = a.last /\ client'[d].ongoing = a.ongoing
  BY <1>1 DEF Receive, TypeInv, TypeOK
<1>3. outbox'[d].items = {} /\ ~outbox'[d].sent
  BY <1>2 DEF NoAnswer, TypeInv, TypeOK
<1>4. inbox[d] = {} /\ handler[d].pc = "idle"
  BY <1>1, <1>2 DEF DeviceHeld, OneRequest
<1>5. OneRequest(d)' /\ TokensApart(d)' /\ SentHeld(d)'
  BY <1>1, <1>2, <1>3, <1>4 DEF OneRequest, TokensApart, SentHeld, Sending, DeviceHeld
<1>6. \A b \in Books : Has(d, b) \/ Brings(outbox[d].items, b) => Has(d, b)'
  BY BroughtIsHad DEF HasMore
<1>7. ASSUME NEW p \in Points PROVE PointHeld(d, p)'
  <2>0. PointHeld(d, p) /\ p # None
    BY SyncAssumption DEF DeviceHeld, PointsHeld
  <2>1. BooksOf(p)' = BooksOf(p) /\ BooksOf(p) \subseteq Books
    BY <1>2 DEF BooksOf, Content
  <2>2. BooksOf(point[p].parent)' = BooksOf(point[p].parent)
    BY <1>2 DEF BooksOf, Content
  <2>3. IsState(p, d, "completed")' => CompletedHeld(d, p)'
    BY <1>2, <1>4, <1>6, <2>0, <2>1 DEF PointHeld, CompletedHeld, IsState
  <2>4. IsState(p, d, "ongoing")' => OngoingHeld(d, p)' /\ point'[p].parent # p
    BY <1>2, <1>6, <2>0, <2>1, <2>2 DEF PointHeld, OngoingHeld, IsState
  <2> QED BY <2>3, <2>4 DEF PointHeld
<1> QED BY <1>5, <1>7 DEF DeviceHeld, PointsHeld
(* The other devices see no more of a step than that a snapshot of another  *)
(* comes, changes or goes.                                                  *)
LEMMA OthersUntouched ==
  ASSUME TypeInv, NEW d \in Devices, NEW e \in Devices \ {d},
         HandlerStep(d) \/ StepFails(d) \/ SendSync(d) \/ DeviceRestarts(d) \/ Receive(d)
  PROVE  Untouched(e) /\ client'[e] = client[e]
<1>1. /\ handler \in [Devices -> Handler] /\ inbox \in [Devices -> SUBSET Request]
      /\ outbox \in [Devices -> Answer] /\ client \in [Devices -> Client]
  BY DEF TypeInv, TypeOK
<1>2. handler'[e] = handler[e]
  BY <1>1 DEF HandlerStep, BeginSync, NothingToSay, SomethingToSay, ResumeSync, AbandonSyncPoint,
     ChooseParent, CreateSyncPoint, DrainCategory, SaveSyncCursor, CompleteSyncPoint, DropParent,
     StepFails, SendSync, DeviceRestarts, Receive, Reply
<1>3. outbox'[e] = outbox[e]
  BY <1>1 DEF HandlerStep, BeginSync, NothingToSay, SomethingToSay, ResumeSync, AbandonSyncPoint,
     ChooseParent, CreateSyncPoint, DrainCategory, SaveSyncCursor, CompleteSyncPoint, DropParent,
     StepFails, SendSync, DeviceRestarts, Receive, Reply
<1>4. inbox'[e] = inbox[e] /\ client'[e] = client[e]
  BY <1>1 DEF HandlerStep, BeginSync, NothingToSay, SomethingToSay, ResumeSync, AbandonSyncPoint,
     ChooseParent, CreateSyncPoint, DrainCategory, SaveSyncCursor, CompleteSyncPoint, DropParent,
     StepFails, SendSync, DeviceRestarts, Receive
<1> QED BY <1>2, <1>3, <1>4 DEF Untouched

LEMMA OthersHold ==
  ASSUME TypeInv, NEW d \in Devices, DeviceHeld(d), NEW e \in Devices \ {d}, DeviceHeld(e), HasMore(e),
         HandlerStep(d) \/ StepFails(d) \/ SendSync(d) \/ DeviceRestarts(d) \/ Receive(d)
  PROVE  DeviceHeld(e)'
<1>0. point \in [Points -> SyncPoint]
  BY DEF TypeInv, TypeOK
<1>1. Untouched(e)
  BY OthersUntouched
<1>2. ASSUME NEW p \in Points PROVE TellsNoMore(p, e) \/ NewElsewhere(p, e)
  <2>0. point[p] \in SyncPoint /\ NoPoint.state = "none"
    BY <1>0 DEF NoPoint
  <2>1. CASE point'[p] = point[p]
    BY <2>1 DEF TellsNoMore, StaysOrGoes, Stays
  <2>2. CASE point'[p] = NoPoint
    BY <2>0, <2>2 DEF TellsNoMore, StaysOrGoes
  <2>3. CASE AbandonSyncPoint(d)
    <3>1. ASSUME NEW q \in PointsIn(d, "ongoing"),
                 point' = [point EXCEPT ![q].state = "abandoned", ![q].recent = TRUE], p = q
          PROVE  TellsNoMore(p, e)
      <4>1. /\ point'[p].state = "abandoned" /\ point'[p].device = point[p].device
            /\ point'[p].parent = point[p].parent /\ point'[p].books = point[p].books
            /\ point[p].state = "ongoing"
        BY <1>0, <2>0, <3>1 DEF SyncPoint, PointsIn, IsState
      <4> QED BY <4>1 DEF TellsNoMore, StaysOrGoes, Stays
    <3>2. ASSUME NEW q \in PointsIn(d, "ongoing"),
                 point' = [point EXCEPT ![q].state = "abandoned", ![q].recent = TRUE], p # q
          PROVE  point'[p] = point[p]
      BY <1>0, <3>2
    <3> QED BY <2>1, <2>3, <3>1, <3>2 DEF AbandonSyncPoint
  <2>4. CASE CreateSyncPoint(d)
    <3>1. PICK q \in Points : /\ Unused(q)
                              /\ point' = [point EXCEPT ![q] = NewSnapshot(d, handler[d].parent)]
      BY <2>4 DEF CreateSyncPoint
    <3>2. p = q => point'[p].device = d
      BY <1>0, <3>1 DEF NewSnapshot
    <3> QED BY <1>0, <2>1, <3>1, <3>2 DEF NewElsewhere
  <2>5. CASE SaveSyncCursor(d) \/ CompleteSyncPoint(d)
    <3>1. PICK q : q = handler[d].sp
      OBVIOUS
    <3>2. q \in Points /\ (point[q].state = "none" \/ point[q].device = d)
      BY <2>5, <3>1 DEF DeviceHeld, TokensApart, Sending, SaveSyncCursor, CompleteSyncPoint, At
    <3>3. CASE p # q \/ point[q].state = "none"
      BY <1>0, <2>1, <2>5, <3>1, <3>2, <3>3 DEF SaveSyncCursor, CompleteSyncPoint
    <3>4. CASE p = q /\ point[q].state # "none"
      <4>1. /\ point'[p].state \in {point[p].state, "completed"} /\ point'[p].device = point[p].device
            /\ point'[p].parent = point[p].parent /\ point'[p].books = point[p].books
        BY <1>0, <2>0, <2>5, <3>1, <3>4 DEF SaveSyncCursor, CompleteSyncPoint, SyncPoint
      <4> QED BY <3>2, <3>4, <4>1 DEF TellsNoMore, StaysOrGoes, Stays
    <3> QED BY <3>3, <3>4
  <2>6. CASE DropParent(d)
    <3>1. point'[p] = point[p] \/ point'[p] = NoPoint
      BY <1>0, <2>6 DEF DropParent
    <3> QED BY <2>1, <2>2, <3>1
  <2>7. CASE point' = point
    BY <2>1, <2>7
  <2> QED BY <2>3, <2>4, <2>5, <2>6, <2>7 DEF HandlerStep, BeginSync, NothingToSay, SomethingToSay,
     ResumeSync, ChooseParent, DrainCategory, StepFails, SendSync, DeviceRestarts, Receive
<1> QED BY <1>1, <1>2, UntouchedHolds

(* What happens around the syncs: no request, answer or token changes, and  *)
(* of snapshots at most that a device's are thrown away.                    *)
LEMMA AroundHolds ==
  ASSUME TypeInv, NEW d \in Devices, DeviceHeld(d), HasMore(d),
         UNCHANGED <<handler, inbox, outbox>>,
         \A p \in Points : point'[p] = point[p] \/ point'[p] = NoPoint,
         client'[d].waiting = client[d].waiting,
         client'[d].last = client[d].last, client'[d].ongoing = client[d].ongoing
  PROVE  DeviceHeld(d)'
<1>1. NoPoint.state = "none"
  BY DEF NoPoint
<1>2. \A p \in Points : TellsNoMore(p, d)
  BY <1>1 DEF TellsNoMore, StaysOrGoes, Stays
<1> QED BY <1>2, UntouchedHolds DEF Untouched

LEMMA HeldStep ==
  ASSUME NothingIsLost, TypeInv, TypeInv', SafeInv, HeldInv, [Next]_vars
  PROVE  HeldInv'
<1>0. \A d \in Devices : DeviceHeld(d) /\ HasMore(d)
  BY HasGrows DEF HeldInv
<1>1. ASSUME NEW d \in Devices,
             HandlerStep(d) \/ StepFails(d) \/ SendSync(d) \/ DeviceRestarts(d) \/ Receive(d)
      PROVE  HeldInv'
  <2>1. DeviceHeld(d)'
    BY <1>0, <1>1, HandlerHolds, SendHolds, ReceiveHolds
  <2>2. \A e \in Devices \ {d} : DeviceHeld(e)'
    BY <1>0, <1>1, OthersHold
  <2> QED BY <2>1, <2>2 DEF HeldInv
<1>2. ASSUME UNCHANGED <<handler, inbox, outbox>>,
             \A p \in Points : point'[p] = point[p] \/ point'[p] = NoPoint,
             \A d \in Devices : /\ client'[d].waiting = client[d].waiting
                                /\ client'[d].last = client[d].last
                                /\ client'[d].ongoing = client[d].ongoing
      PROVE  HeldInv'
  BY <1>0, <1>2, AroundHolds DEF HeldInv
<1>3. ASSUME NEW d \in Devices, NEW b \in Books, DeleteOnDevice(d, b) \/ ReadOnDevice(d, b) PROVE HeldInv'
  <2>1. client \in [Devices -> Client]
    BY DEF TypeInv, TypeOK
  <2>2. \A e \in Devices : /\ client'[e].waiting = client[e].waiting
                           /\ client'[e].last = client[e].last
                           /\ client'[e].ongoing = client[e].ongoing
    <3>1. CASE DeleteOnDevice(d, b)
      BY <2>1, <3>1 DEF DeleteOnDevice, Client
    <3>2. CASE ReadOnDevice(d, b)
      BY <2>1, <3>2 DEF ReadOnDevice, Client
    <3> QED BY <1>3, <3>1, <3>2
  <2>3. UNCHANGED <<handler, inbox, outbox>> /\ point' = point
    BY <1>3 DEF DeleteOnDevice, ReadOnDevice
  <2> QED BY <1>2, <2>2, <2>3
<1>4. ASSUME NEW d \in Devices, ResetDeviceSyncState(d) PROVE HeldInv'
  <2>1. \A p \in Points : point'[p] = point[p] \/ point'[p] = NoPoint
    BY <1>4 DEF ResetDeviceSyncState
  <2> QED BY <1>2, <1>4, <2>1 DEF ResetDeviceSyncState
<1>5. CASE UNCHANGED syncVars
  BY <1>2, <1>5 DEF syncVars
<1>6. /\ ~WeekPasses /\ ~GCSyncPoints /\ ~ServerRestarts
      /\ \A d \in Devices : ~GiveUp(d)
  BY DEF NothingIsLost, WeekPasses, GCSyncPoints, ServerRestarts, GiveUp, Change
<1> QED BY <1>1, <1>3, <1>4, <1>5, <1>6 DEF Next, DeviceStep, ForgetTombstone, vars

LEMMA InitHeld == Init => HeldInv
<1> SUFFICES ASSUME Init, NEW d \in Devices PROVE DeviceHeld(d)
  BY DEF HeldInv
<1>1. /\ inbox[d] = {} /\ ~outbox[d].sent /\ outbox[d].items = {} /\ handler[d].pc = "idle"
      /\ client[d].ongoing = None
  BY DEF Init, KoboInit, Idle, NoAnswer, FreshClient
<1>2. \A p \in Points : ~IsState(p, d, "completed") /\ ~IsState(p, d, "ongoing")
  BY DEF Init, KoboInit, IsState, NoPoint
<1> QED BY <1>1, <1>2 DEF DeviceHeld, OneRequest, TokensApart, PointsHeld, PointHeld, SentHeld, Sending

(* A device holds every book of the snapshot its token names as complete,   *)
(* apart from those it had a reason to lose.  The snapshot becomes the      *)
(* baseline when CompleteSyncPoint runs, before its last page is answered:  *)
(* until then the token names an older one, and the pages before it were    *)
(* held when the device came back with their cursor.  Failing statements,   *)
(* cancelled handlers, a device that restarts between two pages and resets  *)
(* keep it so; it is stated for a server that neither stops nor clears old  *)
(* snapshots, and a connection that brings the answers made: without these  *)
(* it is false (an answer lost after CompleteSyncPoint).                    *)
THEOREM CreditedIsHeld ==
  ASSUME NothingIsLost
  PROVE  Spec => []SnapshotIsHeld
<1>1. Init => SafeInv /\ HeldInv
  BY InitSafe, InitHeld
<1>2. TypeInv /\ TypeInv' /\ SafeInv /\ [Next]_vars => SafeInv'
  BY SafeStep DEF NothingIsLost
<1>3. TypeInv /\ TypeInv' /\ SafeInv /\ HeldInv /\ [Next]_vars => HeldInv'
  BY HeldStep
<1>4. TypeInv /\ HeldInv => SnapshotIsHeld
  <2> SUFFICES ASSUME TypeInv, HeldInv, NEW d \in Devices, IsState(client[d].last, d, "completed"),
                      NEW b \in BooksOf(client[d].last)
               PROVE  Has(d, b)
    BY DEF SnapshotIsHeld, Has
  <2>1. PICK p : p = client[d].last
    OBVIOUS
  <2>2. p \in Points
    BY <2>1 DEF TypeInv, TypeOK, Client, PointRef, IsState
  <2>3. CompletedHeld(d, p)
    BY <2>1, <2>2 DEF HeldInv, DeviceHeld, PointsHeld, PointHeld
  <2>4. ~(handler[d].pc = "drop" /\ p = handler[d].sp)
    BY <2>1 DEF HeldInv, DeviceHeld, TokensApart, Sending
  <2> QED BY <2>1, <2>3, <2>4 DEF CompletedHeld
<1> QED
  BY <1>1, <1>2, <1>3, <1>4, TypeInvariant, PTL DEF Spec

(***************************************************************************)
(* What a device is not credited with, it does not hold.  As long as no    *)
(* answer is lost and nothing fails or is thrown away, the server knows    *)
(* exactly what is on the device: the books of the snapshot its token      *)
(* names, and while another is half sent those that are still to be        *)
(* removed for it.                                                         *)
(***************************************************************************)
NothingGoesWrong == Happens \cap {"giveup", "fail", "restart", "devrestart", "janitor", "reset"} = {}

Removes(items, b) == \E i \in items : i.cat = CatRemovedBooks /\ i.id = b
BringsOnly(items, books) == \A i \in items : i.cat \in {CatNewBooks, CatChangedBooks} => i.id \in books

(* A removal that comes after the cursor. *)
Pending(from, to, cat, key, b) ==
  b \in from \ to /\ (cat \in {CatNewBooks, CatChangedBooks} \/ (cat = CatRemovedBooks /\ b > key))

Covered(d, from, to, cat, key, items) ==
  /\ BringsOnly(items, to)
  /\ \A b \in Books : client[d].books[b] > 0 =>
       b \in to \/ Removes(items, b) \/ Pending(from, to, cat, key, b)

Baseline(d, last) == PointsIn(d, "completed") = {last} \ {None}
Half(d, last, sp) == IsState(sp, d, "ongoing") /\ point[sp].parent = last

(* A token, and the items on their way with it. *)
Stands(d, last, ongoing, items) ==
  /\ Baseline(d, last)
  /\ IF ongoing = None
     THEN Covered(d, {}, BooksOf(last), CatDone, 0, items)
     ELSE /\ Half(d, last, ongoing)
          /\ Covered(d, BooksOf(last), BooksOf(ongoing), point[ongoing].cat, point[ongoing].key, items)

TokenStands(d) ==
  LET h == handler[d] IN
  h.pc \notin Sending =>
    /\ h.items = {}
    /\ ~outbox[d].sent => /\ Stands(d, client[d].last, client[d].ongoing, {})
                          /\ h.pc \in {"parent", "create"} => client[d].ongoing = None
                          /\ h.pc = "create" => h.parent = client[d].last
AnswerStands(d) == outbox[d].sent => Stands(d, outbox[d].last, outbox[d].ongoing, outbox[d].items)
DrainStands(d) ==
  LET h == handler[d] IN
  /\ h.pc \in {"drain", "save", "complete"} =>
       /\ Baseline(d, h.parent) /\ Half(d, h.parent, h.sp)
       /\ Covered(d, BooksOf(h.parent), BooksOf(h.sp), h.cat, h.key, h.items)
  /\ h.pc = "drop" => /\ PointsIn(d, "completed") = {h.sp} \cup ({h.parent} \ {None})
                      /\ Covered(d, {}, BooksOf(h.sp), CatDone, 0, h.items)
Exact(d) == TokenStands(d) /\ AnswerStands(d) /\ DrainStands(d)
ExactInv == \A d \in Devices : Exact(d)

(* Steps that neither touch the snapshots of a device nor give it a book. *)
NotOf(d, x) == x.device # d \/ x.state \notin {"ongoing", "completed"}
SamePoints(d) ==
  \A p \in Points : point'[p] = point[p] \/ (NotOf(d, point[p]) /\ NotOf(d, point'[p]))
SameEnds(d) ==
  /\ handler'[d] = handler[d] /\ outbox'[d] = outbox[d]
  /\ client'[d].last = client[d].last /\ client'[d].ongoing = client[d].ongoing
KeepsShelf(d) == \A b \in Books : client'[d].books[b] > 0 => client[d].books[b] > 0

LEMMA SameOf ==
  ASSUME NEW d \in Devices, SamePoints(d), NEW p \in PointRef
  PROVE  /\ IsState(p, d, "ongoing")' <=> IsState(p, d, "ongoing")
         /\ IsState(p, d, "completed")' <=> IsState(p, d, "completed")
         /\ p = None \/ IsState(p, d, "ongoing") \/ IsState(p, d, "completed") =>
              BooksOf(p)' = BooksOf(p) /\ (p # None => point'[p] = point[p])
<1>1. CASE p = None
  BY <1>1 DEF IsState, BooksOf, Content, NoPoint, NoBooks
<1>2. CASE p \in Points /\ p # None
  <2>1. CASE point'[p] = point[p]
    BY <1>2, <2>1 DEF IsState, BooksOf, Content
  <2>2. CASE NotOf(d, point[p]) /\ NotOf(d, point'[p])
    BY <1>2, <2>2 DEF IsState, NotOf
  <2> QED BY <1>2, <2>1, <2>2 DEF SamePoints
<1> QED BY <1>1, <1>2 DEF PointRef

LEMMA SameBaseline ==
  ASSUME NEW d \in Devices, SamePoints(d), NEW last
  PROVE  /\ PointsIn(d, "completed")' = PointsIn(d, "completed")
         /\ Baseline(d, last)' <=> Baseline(d, last)
<1>1. \A p \in Points : IsState(p, d, "completed")' <=> IsState(p, d, "completed")
  BY SameOf DEF PointRef
<1>2. PointsIn(d, "completed")' = PointsIn(d, "completed")
  BY <1>1 DEF PointsIn
<1> QED BY <1>2 DEF Baseline

LEMMA CoveredStays ==
  ASSUME NEW d \in Devices, KeepsShelf(d), NEW from, NEW to, NEW cat, NEW key, NEW items,
         Covered(d, from, to, cat, key, items)
  PROVE  Covered(d, from, to, cat, key, items)'
BY DEF Covered, KeepsShelf

LEMMA LastIsThere ==
  ASSUME NEW d \in Devices, NEW last \in PointRef, Baseline(d, last)
  PROVE  last = None \/ IsState(last, d, "completed")
BY DEF Baseline, PointsIn

LEMMA StandsStays ==
  ASSUME NEW d \in Devices, SamePoints(d), KeepsShelf(d),
         NEW last \in PointRef, NEW ongoing \in PointRef, NEW items, Stands(d, last, ongoing, items)
  PROVE  Stands(d, last, ongoing, items)'
<1>1. Baseline(d, last)' /\ BooksOf(last)' = BooksOf(last)
  BY LastIsThere, SameBaseline, SameOf DEF Stands
<1>2. CASE ongoing = None
  <2>1. Covered(d, {}, BooksOf(last), CatDone, 0, items)
    BY <1>2 DEF Stands
  <2>2. PICK to : to = BooksOf(last)
    OBVIOUS
  <2>3. Covered(d, {}, to, CatDone, 0, items)'
    BY <2>1, <2>2, CoveredStays
  <2> QED BY <1>1, <1>2, <2>2, <2>3 DEF Stands
<1>3. CASE ongoing # None
  <2>1. PICK from, to, cat, key :
          /\ from = BooksOf(last) /\ to = BooksOf(ongoing)
          /\ cat = point[ongoing].cat /\ key = point[ongoing].key
    OBVIOUS
  <2>2. Half(d, last, ongoing) /\ Covered(d, from, to, cat, key, items)
    BY <1>3, <2>1 DEF Stands
  <2>3. BooksOf(ongoing)' = to /\ point'[ongoing] = point[ongoing] /\ Half(d, last, ongoing)'
    BY <1>3, <2>1, <2>2, SameOf DEF Half
  <2>4. Covered(d, from, to, cat, key, items)'
    BY <2>2, CoveredStays
  <2> QED BY <1>1, <1>3, <2>1, <2>3, <2>4 DEF Stands
<1> QED BY <1>2, <1>3

LEMMA Tokens ==
  ASSUME TypeInv, NEW d \in Devices
  PROVE  /\ client[d].last \in PointRef /\ client[d].ongoing \in PointRef
         /\ outbox[d].last \in PointRef /\ outbox[d].ongoing \in PointRef
BY DEF TypeInv, TypeOK, Client, Answer

LEMMA UntouchedExact ==
  ASSUME TypeInv, NEW d \in Devices, Exact(d), SameEnds(d), SamePoints(d), KeepsShelf(d)
  PROVE  Exact(d)'
<1>1. PICK h, last, ongoing : h = handler[d] /\ last = client[d].last /\ ongoing = client[d].ongoing
  OBVIOUS
<1>2. /\ handler'[d] = h /\ client'[d].last = last /\ client'[d].ongoing = ongoing
      /\ outbox'[d] = outbox[d]
  BY <1>1 DEF SameEnds
<1>3. TokenStands(d)'
  <2>1. Stands(d, last, ongoing, {}) => Stands(d, last, ongoing, {})'
    BY <1>1, Tokens, StandsStays
  <2> QED BY <1>1, <1>2, <2>1 DEF Exact, TokenStands
<1>4. AnswerStands(d)'
  <2>1. PICK a : a = outbox[d]
    OBVIOUS
  <2>2. Stands(d, a.last, a.ongoing, a.items) => Stands(d, a.last, a.ongoing, a.items)'
    <3>1. PICK l \in PointRef, o \in PointRef : l = a.last /\ o = a.ongoing
      BY <2>1, Tokens
    <3>2. PICK i : i = a.items
      OBVIOUS
    <3>3. Stands(d, l, o, i) => Stands(d, l, o, i)'
      BY StandsStays
    <3> QED BY <3>1, <3>2, <3>3
  <2> QED BY <1>2, <2>1, <2>2 DEF Exact, AnswerStands
<1>5. DrainStands(d)'
  <2>1. PICK sp \in PointRef, parent \in PointRef : sp = h.sp /\ parent = h.parent
    BY <1>1, HandlerFields
  <2>2. PICK from, to : from = BooksOf(parent) /\ to = BooksOf(sp)
    OBVIOUS
  <2>3. ASSUME h.pc \in {"drain", "save", "complete"}
        PROVE  /\ Baseline(d, parent)' /\ Half(d, parent, sp)'
               /\ Covered(d, BooksOf(parent), BooksOf(sp), h.cat, h.key, h.items)'
    <3>1. /\ Baseline(d, parent) /\ Half(d, parent, sp)
          /\ Covered(d, from, to, h.cat, h.key, h.items)
      BY <1>1, <2>1, <2>2, <2>3 DEF Exact, DrainStands
    <3>2. Baseline(d, parent)' /\ BooksOf(parent)' = from
      BY <2>2, <3>1, LastIsThere, SameBaseline, SameOf
    <3>3. Half(d, parent, sp)' /\ BooksOf(sp)' = to
      BY <2>2, <3>1, SameOf DEF Half, IsState
    <3>4. Covered(d, from, to, h.cat, h.key, h.items)'
      BY <3>1, CoveredStays
    <3> QED BY <3>2, <3>3, <3>4
  <2>4. ASSUME h.pc = "drop"
        PROVE  /\ PointsIn(d, "completed")' = {sp} \cup ({parent} \ {None})
               /\ Covered(d, {}, BooksOf(sp), CatDone, 0, h.items)'
    <3>1. /\ PointsIn(d, "completed") = {sp} \cup ({parent} \ {None})
          /\ Covered(d, {}, to, CatDone, 0, h.items)
      BY <1>1, <2>1, <2>2, <2>4 DEF Exact, DrainStands
    <3>2. IsState(sp, d, "completed")
      BY <3>1 DEF PointsIn
    <3>3. BooksOf(sp)' = to /\ PointsIn(d, "completed")' = PointsIn(d, "completed")
      BY <2>2, <3>2, SameOf, SameBaseline
    <3>4. Covered(d, {}, to, CatDone, 0, h.items)'
      BY <3>1, CoveredStays
    <3> QED BY <3>1, <3>3, <3>4
  <2>5. PICK i : i = h.items
    OBVIOUS
  <2>6. BooksOf(h.sp)' = BooksOf(sp)' /\ BooksOf(h.parent)' = BooksOf(parent)'
    BY <2>1
  <2> QED BY <1>2, <2>1, <2>3, <2>4, <2>6 DEF DrainStands
<1> QED BY <1>3, <1>4, <1>5 DEF Exact

(***************************************************************************)
(* The steps of the handler, for the device whose request it is.           *)
(***************************************************************************)

(* What a handler that has begun and sends nothing yet knows. *)
LEMMA Knows ==
  ASSUME NEW d \in Devices, DeviceHeld(d), Exact(d), handler[d].pc # "idle", handler[d].pc \notin Sending
  PROVE  /\ Stands(d, client[d].last, client[d].ongoing, {}) /\ handler[d].items = {}
         /\ handler[d].last = client[d].last /\ handler[d].ongoing = client[d].ongoing
         /\ ~outbox[d].sent /\ handler[d].live
         /\ handler[d].pc \in {"parent", "create"} => client[d].ongoing = None
         /\ handler[d].pc = "create" => handler[d].parent = client[d].last
BY Busy DEF Exact, TokenStands

(* An answer leaves the handler idle, and stands for itself. *)
LEMMA ReplyStands ==
  ASSUME TypeInv, NEW d \in Devices, DeviceHeld(d), handler[d].pc # "idle",
         NEW last, NEW ongoing, NEW items, Reply(d, last, ongoing, items),
         Stands(d, last, ongoing, items)'
  PROVE  Exact(d)'
<1>1. handler[d].live
  BY Busy
<1>2. /\ outbox'[d] = [sent |-> TRUE, last |-> last, ongoing |-> ongoing, items |-> items]
      /\ handler'[d] = Idle
  BY <1>1 DEF Reply, TypeInv, TypeOK
<1>3. /\ outbox'[d].items = items /\ outbox'[d].sent /\ outbox'[d].last = last
      /\ outbox'[d].ongoing = ongoing /\ handler'[d].pc = "idle" /\ handler'[d].items = {}
  BY <1>2 DEF Idle
<1> QED BY <1>3 DEF Exact, TokenStands, AnswerStands, DrainStands

LEMMA SameShelf ==
  ASSUME NEW d \in Devices, client' = client
  PROVE  KeepsShelf(d)
BY DEF KeepsShelf

LEMMA SameAll ==
  ASSUME NEW d \in Devices, point' = point
  PROVE  SamePoints(d)
BY DEF SamePoints

(* The handler goes on before anything is sent. *)
LEMMA GoesOnExact ==
  ASSUME TypeInv, NEW d \in Devices, SamePoints(d), client' = client, outbox' = outbox, ~outbox[d].sent,
         Stands(d, client[d].last, client[d].ongoing, {}),
         handler'[d].items = {}, handler'[d].pc \notin Sending,
         handler'[d].pc \in {"parent", "create"} => client[d].ongoing = None,
         handler'[d].pc = "create" => handler'[d].parent = client[d].last
  PROVE  Exact(d)'
<1>1. PICK last \in PointRef, ongoing \in PointRef : last = client[d].last /\ ongoing = client[d].ongoing
  BY Tokens
<1>2. Stands(d, last, ongoing, {})'
  BY <1>1, SameShelf, StandsStays
<1> QED BY <1>1, <1>2 DEF Exact, TokenStands, AnswerStands, DrainStands, Sending

LEMMA CheckExact ==
  ASSUME TypeInv, NEW d \in Devices, DeviceHeld(d), Exact(d),
         BeginSync(d) \/ NothingToSay(d) \/ SomethingToSay(d)
  PROVE  Exact(d)'
<1>0. handler \in [Devices -> Handler] /\ point' = point /\ client' = client
  BY DEF TypeInv, TypeOK, BeginSync, NothingToSay, SomethingToSay
<1>1. CASE BeginSync(d)
  <2>1. PICK q \in inbox[d] : handler'[d] = [Idle EXCEPT !.pc = "check", !.live = q.live,
                                                         !.last = q.last, !.ongoing = q.ongoing]
    BY <1>0, <1>1 DEF BeginSync
  <2>2. handler'[d].pc = "check" /\ handler'[d].items = {} /\ outbox' = outbox
    BY <1>1, <2>1 DEF Idle, BeginSync
  <2>3. ~outbox[d].sent /\ handler[d].pc = "idle"
    BY <2>1 DEF DeviceHeld, OneRequest
  <2>4. Stands(d, client[d].last, client[d].ongoing, {})
    BY <2>3 DEF Exact, TokenStands, Sending
  <2> QED BY <1>0, <2>2, <2>3, <2>4, SameAll, GoesOnExact DEF Sending
<1>2. CASE NothingToSay(d)
  <2>1. /\ handler[d].pc = "check" /\ Reply(d, handler[d].last, None, {}) /\ handler[d].ongoing = None
    BY <1>2 DEF NothingToSay, At, Unmoved
  <2>2. PICK last \in PointRef : last = handler[d].last
    BY HandlerFields
  <2>3. Stands(d, last, None, {}) /\ None \in PointRef
    BY <2>1, <2>2, Knows DEF Sending, PointRef
  <2>4. Stands(d, last, None, {})'
    BY <1>0, <2>3, SameAll, SameShelf, StandsStays
  <2> QED BY <2>1, <2>2, <2>4, ReplyStands
<1>3. CASE SomethingToSay(d)
  <2>1. /\ handler[d].pc = "check" /\ outbox' = outbox
        /\ handler'[d].pc = "resolve" /\ handler'[d].items = handler[d].items
    BY <1>0, <1>3 DEF SomethingToSay, At, Handler
  <2> QED BY <1>0, <2>1, SameAll, Knows, GoesOnExact DEF Sending
<1> QED BY <1>1, <1>2, <1>3

LEMMA ResumeExact ==
  ASSUME TypeInv, NEW d \in Devices, DeviceHeld(d), Exact(d), ResumeSync(d)
  PROVE  Exact(d)'
<1>1. PICK sp, parent : sp = handler[d].ongoing /\ parent = point[sp].parent
  OBVIOUS
<1>2. /\ handler[d].pc = "resolve" /\ IsState(sp, d, "ongoing") /\ point' = point
      /\ UNCHANGED <<outbox, client>> /\ handler \in [Devices -> Handler]
      /\ handler' = [handler EXCEPT ![d] = [handler[d] EXCEPT !.pc = "drain", !.sp = sp,
                          !.parent = parent, !.cat = point[sp].cat,
                          !.key = point[sp].key, !.budget = Batch]]
  BY <1>1 DEF ResumeSync, At, TypeInv, TypeOK
<1>3. /\ handler'[d].pc = "drain" /\ handler'[d].sp = sp /\ handler'[d].parent = parent
      /\ handler'[d].cat = point[sp].cat /\ handler'[d].key = point[sp].key
      /\ handler'[d].items = handler[d].items
  BY <1>2 DEF Handler
<1>4. PICK last \in PointRef : last = client[d].last
  BY Tokens
<1>5. Stands(d, last, sp, {}) /\ handler[d].items = {} /\ ~outbox[d].sent
  BY <1>1, <1>2, <1>4, Knows DEF Sending
<1>6. sp # None /\ sp \in PointRef
  BY <1>1, <1>2, HandlerFields DEF IsState
<1>7. Stands(d, last, sp, {})'
  BY <1>2, <1>5, <1>6, SameAll, SameShelf, StandsStays
<1>8. /\ Baseline(d, last)' /\ Half(d, last, sp)'
      /\ Covered(d, BooksOf(last), BooksOf(sp), point[sp].cat, point[sp].key, {})' /\ last = parent
  BY <1>1, <1>2, <1>5, <1>6, <1>7 DEF Stands, Half
<1>9. /\ handler'[d].sp = sp /\ handler'[d].parent = last /\ handler'[d].items = {} /\ ~outbox'[d].sent
      /\ handler'[d].cat = point'[sp].cat /\ handler'[d].key = point'[sp].key
  BY <1>2, <1>3, <1>5, <1>8
<1>10. DrainStands(d)'
  <2>1. /\ Baseline(d, handler[d].parent)' /\ Half(d, handler[d].parent, handler[d].sp)'
        /\ Covered(d, BooksOf(handler[d].parent), BooksOf(handler[d].sp), handler[d].cat,
                   handler[d].key, handler[d].items)'
    BY <1>8, <1>9
  <2> QED BY <1>3, <2>1 DEF DrainStands
<1> QED BY <1>3, <1>9, <1>10 DEF Exact, TokenStands, AnswerStands, Sending

(* A device whose token names no half-sent snapshot starts from the one it  *)
(* names as complete, and it is the only one.                               *)
LEMMA ChooseExact ==
  ASSUME TypeInv, NEW d \in Devices, DeviceHeld(d), Exact(d), AbandonSyncPoint(d) \/ ChooseParent(d)
  PROVE  Exact(d)'
<1>1. /\ handler \in [Devices -> Handler] /\ point \in [Points -> SyncPoint]
      /\ UNCHANGED <<outbox, client>> /\ handler[d].pc \in {"resolve", "parent"}
  BY DEF TypeInv, TypeOK, AbandonSyncPoint, ChooseParent, At
<1>2. PICK last \in PointRef : last = client[d].last
  BY Tokens
<1>3. /\ Stands(d, last, client[d].ongoing, {}) /\ handler[d].items = {} /\ ~outbox[d].sent
      /\ handler[d].last = last /\ handler[d].ongoing = client[d].ongoing
      /\ handler[d].pc = "parent" => client[d].ongoing = None
  BY <1>1, <1>2, Knows DEF Sending
<1>4. CASE AbandonSyncPoint(d)
  <2>1. client[d].ongoing = None
    BY <1>3, <1>4 DEF AbandonSyncPoint, Stands, Half
  <2>2. handler'[d].pc = "parent" /\ handler'[d].items = {}
    BY <1>1, <1>3, <1>4 DEF AbandonSyncPoint, Handler
  <2>3. PointsIn(d, "completed")' = PointsIn(d, "completed") /\ BooksOf(last)' = BooksOf(last)
    <3>1. CASE point' = point
      BY <3>1 DEF PointsIn, IsState, BooksOf, Content
    <3>2. ASSUME NEW p \in PointsIn(d, "ongoing"),
                 point' = [point EXCEPT ![p].state = "abandoned", ![p].recent = TRUE]
          PROVE  <2>3
      <4>1. /\ p \in Points /\ point[p].state = "ongoing" /\ point'[p].state = "abandoned"
            /\ point'[p].books = point[p].books /\ \A q \in Points \ {p} : point'[q] = point[q]
        BY <1>1, <3>2 DEF PointsIn, IsState, SyncPoint
      <4> QED BY <4>1 DEF PointsIn, IsState, BooksOf, Content, PointRef
    <3> QED BY <1>4, <3>1, <3>2 DEF AbandonSyncPoint
  <2>4. Stands(d, last, None, {})'
    <3>1. PICK to : to = BooksOf(last)
      OBVIOUS
    <3>2. Covered(d, {}, to, CatDone, 0, {})'
      BY <1>1, <1>3, <2>1, <3>1, SameShelf, CoveredStays DEF Stands
    <3>3. Baseline(d, last)'
      BY <1>3, <2>3 DEF Stands, Baseline
    <3> QED BY <2>3, <3>1, <3>2, <3>3 DEF Stands
  <2> QED BY <1>1, <1>2, <1>3, <2>1, <2>2, <2>4 DEF Exact, TokenStands, AnswerStands, DrainStands, Sending
<1>5. CASE ChooseParent(d)
  <2>1. PICK parent :
          /\ parent \in IF IsState(last, d, "completed") THEN {last} ELSE LastCompleted(d)
          /\ handler' = [handler EXCEPT ![d].pc = "create", ![d].parent = parent]
    BY <1>3, <1>5 DEF ChooseParent
  <2>2. /\ point' = point /\ handler[d].pc = "parent" /\ handler'[d].pc = "create"
        /\ handler'[d].parent = parent /\ handler'[d].items = {}
    BY <1>1, <1>3, <1>5, <2>1 DEF Handler, ChooseParent, At
  <2>3. Baseline(d, last) /\ client[d].ongoing = None
    BY <1>3, <2>2 DEF Stands
  <2>4. parent = last
    BY <1>2, <2>1, <2>3 DEF Baseline, LastCompleted, PointsIn, PointRef
  <2> QED BY <1>1, <1>2, <1>3, <2>2, <2>3, <2>4, SameAll, GoesOnExact DEF Sending
<1> QED BY <1>4, <1>5

(* Of a new snapshot everything the device holds besides is to be removed.  *)
LEMMA CreateExact ==
  ASSUME TypeInv, NEW d \in Devices, DeviceHeld(d), Exact(d), CreateSyncPoint(d)
  PROVE  Exact(d)'
<1>1. PICK parent : parent = handler[d].parent
  OBVIOUS
<1>2. PICK p \in Points :
        /\ Unused(p)
        /\ point' = [point EXCEPT ![p] = NewSnapshot(d, parent)]
        /\ handler' = [handler EXCEPT ![d] = [handler[d] EXCEPT !.pc = "drain", !.sp = p,
                                   !.cat = CatNewBooks, !.key = 0, !.budget = Batch]]
  BY <1>1 DEF CreateSyncPoint
<1>3. /\ handler \in [Devices -> Handler] /\ point \in [Points -> SyncPoint]
      /\ UNCHANGED <<outbox, client>> /\ handler[d].pc = "create" /\ p # None
  BY SyncAssumption DEF TypeInv, TypeOK, CreateSyncPoint, At
<1>4. /\ handler'[d].pc = "drain" /\ handler'[d].sp = p /\ handler'[d].parent = parent
      /\ handler'[d].cat = CatNewBooks /\ handler'[d].key = 0 /\ handler'[d].items = handler[d].items
  BY <1>1, <1>2, <1>3 DEF Handler
<1>5. /\ point'[p].device = d /\ point'[p].parent = parent /\ point'[p].state = "ongoing"
      /\ \A q \in Points \ {p} : point'[q] = point[q]
  BY <1>2, <1>3 DEF NewSnapshot
<1>6. p # parent /\ parent \in PointRef /\ point[p].state = "none"
  BY <1>1, <1>2, HandlerFields DEF Unused
<1>7. /\ Stands(d, parent, None, {}) /\ handler[d].items = {} /\ ~outbox[d].sent
  BY <1>1, <1>3, Knows DEF Sending
<1>8. PointsIn(d, "completed")' = PointsIn(d, "completed")
  BY <1>5, <1>6 DEF PointsIn, IsState
<1>9. BooksOf(parent)' = BooksOf(parent)
  BY <1>5, <1>6 DEF BooksOf, Content, PointRef
<1>10. Baseline(d, parent)' /\ Half(d, parent, p)'
  BY <1>3, <1>5, <1>7, <1>8 DEF Baseline, Half, IsState, Stands
<1>11. PICK from, to : from = BooksOf(parent) /\ to = BooksOf(p)'
  OBVIOUS
<1>12. Covered(d, from, to, CatNewBooks, 0, {})'
  <2>1. \A b \in Books : client[d].books[b] > 0 => b \in from
    BY <1>7, <1>11 DEF Stands, Covered, Removes, Pending
  <2> QED BY <1>3, <2>1 DEF Covered, BringsOnly, Pending
<1>13. DrainStands(d)'
  <2>1. /\ Baseline(d, handler[d].parent)' /\ Half(d, handler[d].parent, handler[d].sp)'
    BY <1>4, <1>10
  <2>2. Covered(d, BooksOf(handler[d].parent), BooksOf(handler[d].sp), handler[d].cat,
                handler[d].key, handler[d].items)'
    <3>1. BooksOf(handler[d].parent)' = from /\ BooksOf(handler[d].sp)' = to
      BY <1>4, <1>9, <1>11 DEF BooksOf, Content
    <3> QED BY <1>4, <1>7, <1>12, <3>1
  <2> QED BY <1>4, <2>1, <2>2 DEF DrainStands
<1> QED BY <1>3, <1>4, <1>7, <1>13 DEF Exact, TokenStands, AnswerStands, Sending

(* What a drain still has to remove is ahead of its cursor, or in its page. *)
LEMMA DrainCovers ==
  ASSUME TypeInv, NEW d \in Devices, At(d, "drain"), NEW h, h = handler[d],
         NEW from, NEW to, from = BooksOf(h.parent), to = BooksOf(h.sp),
         Covered(d, from, to, h.cat, h.key, h.items)
  PROVE  Covered(d, from, to, Drained(h, d).cat, Drained(h, d).key, Drained(h, d).items)
<1>1. /\ Drained(h, d).items = h.items \cup {Emit(d, h.cat, i) : i \in Page(h, d)}
      /\ Drained(h, d).cat = IF Page(h, d) = Rest(h, d) THEN h.cat + 1 ELSE h.cat
      /\ Drained(h, d).key = IF Page(h, d) = Rest(h, d) THEN 0 ELSE Max(Page(h, d))
      /\ h.cat \in SyncCategory
  BY HandlerFields DEF Drained, Handler
<1>2. PICK cat, key, items : cat = Drained(h, d).cat /\ key = Drained(h, d).key /\ items = Drained(h, d).items
  OBVIOUS
<1>3. \A b \in Page(h, d) : b \in Rest(h, d) /\ b \in categoryIDs(d, h.cat, h.parent, h.sp)
  BY PageType
<1>0. /\ categoryIDs(d, CatNewBooks, h.parent, h.sp) = NewBookIDs(h.parent, h.sp)
      /\ categoryIDs(d, CatChangedBooks, h.parent, h.sp) = ChangedBookIDs(h.parent, h.sp)
      /\ categoryIDs(d, CatRemovedBooks, h.parent, h.sp) = RemovedBookIDs(h.parent, h.sp)
  BY CategoryCases
<1>4. BringsOnly(items, to)
  <2> SUFFICES ASSUME NEW i \in items, i.cat \in {CatNewBooks, CatChangedBooks} PROVE i.id \in to
    BY DEF BringsOnly
  <2>1. CASE i \in h.items
    BY <2>1 DEF Covered, BringsOnly
  <2>2. ASSUME NEW b \in Page(h, d), i = Emit(d, h.cat, b) PROVE i.id \in to
    <3>1. i.cat = h.cat /\ i.id = b
      BY <2>2 DEF Emit
    <3>2. b \in NewBookIDs(h.parent, h.sp) \/ b \in ChangedBookIDs(h.parent, h.sp)
      BY <1>0, <1>3, <3>1
    <3> QED BY <3>1, <3>2 DEF NewBookIDs, ChangedBookIDs
  <2> QED BY <1>1, <1>2, <2>1, <2>2
<1>5. ASSUME NEW b \in Books, client[d].books[b] > 0
      PROVE  b \in to \/ Removes(items, b) \/ Pending(from, to, cat, key, b)
  <2>1. b \in to \/ Removes(h.items, b) \/ Pending(from, to, h.cat, h.key, b)
    BY <1>5 DEF Covered
  <2>2. CASE Removes(h.items, b)
    BY <1>1, <1>2, <2>2 DEF Removes
  <2>3. CASE Pending(from, to, h.cat, h.key, b) /\ h.cat = CatNewBooks
    BY <1>1, <1>2, <2>3 DEF Pending, CatNewBooks, CatChangedBooks, CatRemovedBooks
  <2>4. CASE Pending(from, to, h.cat, h.key, b) /\ h.cat = CatChangedBooks
    <3>1. b > 0
      BY LibraryAssumption
    <3>2. cat = CatChangedBooks \/ (cat = CatRemovedBooks /\ key = 0)
      BY <1>1, <1>2, <2>4 DEF CatChangedBooks, CatRemovedBooks
    <3> QED BY <2>4, <3>1, <3>2 DEF Pending
  <2>5. CASE Pending(from, to, h.cat, h.key, b) /\ h.cat = CatRemovedBooks
    <3>1. b \in RemovedBookIDs(h.parent, h.sp) /\ b > h.key
      BY <2>5 DEF Pending, RemovedBookIDs, CatNewBooks, CatChangedBooks, CatRemovedBooks
    <3>2. b \in Rest(h, d)
      BY <1>0, <2>5, <3>1 DEF Rest
    <3>3. CASE b \in Page(h, d)
      <4>1. Emit(d, h.cat, b) \in items
        BY <1>1, <1>2, <3>3
      <4>2. Emit(d, h.cat, b).cat = h.cat /\ Emit(d, h.cat, b).id = b
        BY DEF Emit
      <4> QED BY <2>5, <4>1, <4>2 DEF Removes
    <3>4. CASE b \notin Page(h, d)
      <4>1. Page(h, d) # Rest(h, d) /\ b > Max(Page(h, d))
        BY <3>2, <3>4, LargerIsLeft
      <4>2. cat = CatRemovedBooks /\ b > key
        BY <1>1, <1>2, <2>5, <4>1
      <4> QED BY <2>5, <4>2 DEF Pending
    <3> QED BY <3>3, <3>4
  <2> QED BY <2>1, <2>2, <2>3, <2>4, <2>5 DEF Pending
<1> QED BY <1>2, <1>4, <1>5 DEF Covered

LEMMA DrainExact ==
  ASSUME TypeInv, NEW d \in Devices, DeviceHeld(d), Exact(d), DrainCategory(d)
  PROVE  Exact(d)'
<1>1. PICK h : h = handler[d]
  OBVIOUS
<1>2. PICK q \in PointRef, p \in PointRef : q = h.parent /\ p = h.sp
  BY <1>1, HandlerFields
<1>3. /\ h \in Handler /\ h.pc = "drain" /\ At(d, "drain") /\ point' = point
      /\ UNCHANGED <<client, outbox>> /\ handler'[d] = Drained(h, d)
  BY <1>1, HandlerFields DEF DrainCategory, At, TypeInv, TypeOK
<1>4. /\ Drained(h, d).parent = q /\ Drained(h, d).sp = p
      /\ Drained(h, d).pc \in {"complete", "save", "drain"}
  BY <1>2, <1>3 DEF Drained, Handler
<1>5. PICK from, to : from = BooksOf(q) /\ to = BooksOf(p)
  OBVIOUS
<1>6. PICK cat, key, items : cat = Drained(h, d).cat /\ key = Drained(h, d).key /\ items = Drained(h, d).items
  OBVIOUS
<1>7. Baseline(d, q) /\ Half(d, q, p) /\ Covered(d, from, to, h.cat, h.key, h.items)
  BY <1>1, <1>2, <1>3, <1>5 DEF Exact, DrainStands
<1>8. Covered(d, from, to, cat, key, items)
  BY <1>1, <1>2, <1>3, <1>5, <1>6, <1>7, DrainCovers
<1>9. Covered(d, from, to, cat, key, items)'
  BY <1>3, <1>8, SameShelf, CoveredStays
<1>10. Baseline(d, q)' /\ Half(d, q, p)' /\ BooksOf(q)' = from /\ BooksOf(p)' = to
  BY <1>3, <1>5, <1>7 DEF Baseline, PointsIn, Half, IsState, BooksOf, Content
<1>11. DrainStands(d)'
  <2>1. Covered(d, BooksOf(handler[d].parent), BooksOf(handler[d].sp), handler[d].cat,
                handler[d].key, handler[d].items)'
    <3>1. BooksOf(handler[d].parent)' = from /\ BooksOf(handler[d].sp)' = to
      BY <1>3, <1>4, <1>10 DEF BooksOf, Content
    <3> QED BY <1>3, <1>6, <1>9, <3>1
  <2>2. Baseline(d, handler[d].parent)' /\ Half(d, handler[d].parent, handler[d].sp)'
    BY <1>3, <1>4, <1>10
  <2> QED BY <1>3, <1>4, <2>1, <2>2 DEF DrainStands
<1>12. ~outbox[d].sent
  BY <1>1, <1>3, Busy
<1> QED BY <1>3, <1>4, <1>11, <1>12 DEF Exact, TokenStands, AnswerStands, Sending

LEMMA SaveExact ==
  ASSUME TypeInv, NEW d \in Devices, DeviceHeld(d), Exact(d), SaveSyncCursor(d)
  PROVE  Exact(d)'
<1>1. PICK h, items : h = handler[d] /\ items = h.items
  OBVIOUS
<1>2. PICK q \in PointRef, p \in PointRef : q = h.parent /\ p = h.sp
  BY <1>1, HandlerFields
<1>3. /\ h.pc = "save" /\ Reply(d, q, p, items) /\ client' = client /\ point \in [Points -> SyncPoint]
      /\ h.cat \in SyncCategory /\ h.key \in Nat
      /\ point' = IF point[p].state = "none" THEN point
                  ELSE [point EXCEPT ![p].cat = h.cat, ![p].key = h.key, ![p].recent = TRUE]
  BY <1>1, <1>2, HandlerFields DEF SaveSyncCursor, At, TypeInv, TypeOK
<1>4. PICK from, to : from = BooksOf(q) /\ to = BooksOf(p)
  OBVIOUS
<1>5. Baseline(d, q) /\ Half(d, q, p) /\ Covered(d, from, to, h.cat, h.key, items)
  BY <1>1, <1>2, <1>3, <1>4 DEF Exact, DrainStands
<1>6. /\ p \in Points /\ p # q
  BY <1>1, <1>2, <1>3 DEF DeviceHeld, TokensApart, Sending
<1>7. p # None /\ point[p].state = "ongoing" /\ point[p].device = d /\ point[p].parent = q
  BY <1>5 DEF Half, IsState
<1>8. /\ \A x \in Points \ {p} : point'[x] = point[x]
      /\ point'[p].state = "ongoing" /\ point'[p].device = d /\ point'[p].parent = q
      /\ point'[p].books = point[p].books /\ point'[p].cat = h.cat /\ point'[p].key = h.key
  BY <1>3, <1>6, <1>7 DEF SyncPoint
<1>9. Baseline(d, q)'
  <2>1. PointsIn(d, "completed")' = PointsIn(d, "completed")
    BY <1>7, <1>8 DEF PointsIn, IsState
  <2> QED BY <1>5, <2>1 DEF Baseline
<1>10. Half(d, q, p)' /\ BooksOf(q)' = from /\ BooksOf(p)' = to
  <2>1. Half(d, q, p)'
    BY <1>7, <1>8 DEF Half, IsState
  <2>2. BooksOf(q)' = from
    BY <1>4, <1>6, <1>8 DEF BooksOf, Content, PointRef
  <2>3. BooksOf(p)' = to
    BY <1>4, <1>7, <1>8 DEF BooksOf, Content
  <2> QED BY <2>1, <2>2, <2>3
<1>11. PICK cat, key : cat = h.cat /\ key = h.key
  OBVIOUS
<1>12. Covered(d, from, to, cat, key, items)'
  BY <1>3, <1>5, <1>11, SameShelf, CoveredStays
<1>13. Stands(d, q, p, items)'
  BY <1>7, <1>8, <1>9, <1>10, <1>11, <1>12 DEF Stands
<1> QED BY <1>1, <1>3, <1>13, ReplyStands

(* The snapshot just completed and its parent are both there until the      *)
(* parent is dropped.                                                       *)
LEMMA CompleteExact ==
  ASSUME TypeInv, NEW d \in Devices, DeviceHeld(d), Exact(d), CompleteSyncPoint(d)
  PROVE  Exact(d)'
<1>1. PICK h, items : h = handler[d] /\ items = h.items
  OBVIOUS
<1>2. PICK q \in PointRef, p \in PointRef : q = h.parent /\ p = h.sp
  BY <1>1, HandlerFields
<1>3. /\ h \in Handler /\ h.pc = "complete" /\ UNCHANGED <<outbox, client>>
      /\ point \in [Points -> SyncPoint]
      /\ handler' = [handler EXCEPT ![d].pc = "drop"] /\ handler \in [Devices -> Handler]
      /\ point' = IF point[p].state = "none" THEN point
                  ELSE [point EXCEPT ![p].state = "completed", ![p].cat = CatDone,
                                     ![p].recent = TRUE]
  BY <1>1, <1>2, HandlerFields DEF CompleteSyncPoint, At, TypeInv, TypeOK
<1>4. PICK from, to : from = BooksOf(q) /\ to = BooksOf(p)
  OBVIOUS
<1>5. Baseline(d, q) /\ Half(d, q, p) /\ Covered(d, from, to, h.cat, h.key, items)
  BY <1>1, <1>2, <1>3, <1>4 DEF Exact, DrainStands
<1>6. /\ p \in Points /\ p # q /\ h.cat = CatDone
  BY <1>1, <1>2, <1>3 DEF DeviceHeld, TokensApart, Sending
<1>7. p # None /\ point[p].state = "ongoing" /\ point[p].device = d
  BY <1>5 DEF Half, IsState
<1>8. /\ \A x \in Points \ {p} : point'[x] = point[x]
      /\ point'[p].state = "completed" /\ point'[p].device = d /\ point'[p].books = point[p].books
  BY <1>3, <1>6, <1>7 DEF SyncPoint
<1>9. /\ handler'[d].pc = "drop" /\ handler'[d].sp = p /\ handler'[d].parent = q
      /\ handler'[d].items = items
  BY <1>1, <1>2, <1>3 DEF Handler
<1>10. PointsIn(d, "completed")' = {p} \cup ({q} \ {None})
  <2>1. PointsIn(d, "completed") = {q} \ {None}
    BY <1>5 DEF Baseline
  <2>2. PointsIn(d, "completed")' = PointsIn(d, "completed") \cup {p}
    BY <1>6, <1>7, <1>8 DEF PointsIn, IsState
  <2> QED BY <2>1, <2>2
<1>11. BooksOf(p)' = to
  BY <1>4, <1>7, <1>8 DEF BooksOf, Content
<1>12. Covered(d, {}, to, CatDone, 0, items)'
  <2>1. Covered(d, {}, to, CatDone, 0, items)
    BY <1>5, <1>6 DEF Covered, Pending, CatDone, CatNewBooks, CatChangedBooks, CatRemovedBooks
  <2> QED BY <1>3, <2>1, SameShelf, CoveredStays
<1>13. DrainStands(d)'
  <2>1. BooksOf(handler[d].sp)' = to
    BY <1>9, <1>11 DEF BooksOf, Content
  <2>2. Covered(d, {}, BooksOf(handler[d].sp), CatDone, 0, handler[d].items)'
    BY <1>9, <1>12, <2>1
  <2> QED BY <1>9, <1>10, <2>2 DEF DrainStands
<1>14. ~outbox[d].sent
  BY <1>1, <1>3, Busy
<1> QED BY <1>3, <1>9, <1>13, <1>14 DEF Exact, TokenStands, AnswerStands, Sending

LEMMA DropExact ==
  ASSUME TypeInv, NEW d \in Devices, DeviceHeld(d), Exact(d), DropParent(d)
  PROVE  Exact(d)'
<1>1. PICK h, items : h = handler[d] /\ items = h.items
  OBVIOUS
<1>2. PICK q \in PointRef, p \in PointRef : q = h.parent /\ p = h.sp
  BY <1>1, HandlerFields
<1>3. /\ h.pc = "drop" /\ Reply(d, p, None, items) /\ client' = client
      /\ point \in [Points -> SyncPoint]
      /\ point' = IF q = None THEN point ELSE [point EXCEPT ![q] = NoPoint]
  BY <1>1, <1>2 DEF DropParent, At, TypeInv, TypeOK
<1>4. PICK to : to = BooksOf(p)
  OBVIOUS
<1>5. PointsIn(d, "completed") = {p} \cup ({q} \ {None}) /\ Covered(d, {}, to, CatDone, 0, items)
  BY <1>1, <1>2, <1>3, <1>4 DEF Exact, DrainStands
<1>6. p \in Points /\ p # q /\ p # None
  BY <1>1, <1>2, <1>3, SyncAssumption DEF DeviceHeld, TokensApart, Sending
<1>7. /\ \A x \in Points \ {q} : point'[x] = point[x]
      /\ q \in Points => point'[q] = NoPoint
  BY <1>3, SyncAssumption
<1>8. PointsIn(d, "completed")' = {p}
  <2>1. NoPoint.state = "none"
    BY DEF NoPoint
  <2> QED BY <1>5, <1>6, <1>7, <2>1 DEF PointsIn, IsState
<1>9. Baseline(d, p)' /\ BooksOf(p)' = to
  BY <1>4, <1>6, <1>7, <1>8 DEF Baseline, BooksOf, Content
<1>10. Covered(d, {}, to, CatDone, 0, items)'
  BY <1>3, <1>5, SameShelf, CoveredStays
<1>11. Stands(d, p, None, items)'
  BY <1>9, <1>10 DEF Stands
<1> QED BY <1>1, <1>3, <1>11, ReplyStands

(***************************************************************************)
(* The device's own steps, and what a device sees of the steps of others.  *)
(***************************************************************************)
LEMMA SendExact ==
  ASSUME TypeInv, NEW d \in Devices, Exact(d), SendSync(d)
  PROVE  Exact(d)'
<1>1. /\ client \in [Devices -> Client] /\ UNCHANGED <<handler, outbox>> /\ point' = point
  BY DEF TypeInv, TypeOK, SendSync
<1>2. /\ client'[d].last = client[d].last /\ client'[d].ongoing = client[d].ongoing
      /\ client'[d].books = client[d].books
  BY <1>1 DEF SendSync, Client
<1>3. SameEnds(d) /\ KeepsShelf(d) /\ SamePoints(d)
  BY <1>1, <1>2, SameAll DEF SameEnds, KeepsShelf
<1> QED BY <1>3, UntouchedExact

(* An answer leaves nothing on the device that it takes back, and brings    *)
(* nothing that its snapshot does not hold.                                 *)
LEMMA ShelfIsCovered ==
  ASSUME TypeInv, NEW d \in Devices, Receive(d), NEW items, items = outbox[d].items,
         NEW from, NEW to, NEW cat, NEW key, Covered(d, from, to, cat, key, items)
  PROVE  Covered(d, from, to, cat, key, {})'
<1>1. client'[d].books = ShelfAfter(client[d].books, items)
  BY DEF Receive, TypeInv, TypeOK
<1>2. ASSUME NEW b \in Books, client'[d].books[b] > 0
      PROVE  b \in to \/ Pending(from, to, cat, key, b)
  <2> DEFINE put == ItemsOf(items, {CatNewBooks, CatChangedBooks}, b)
  <2>0. ItemsOf(items, {CatRemovedBooks}, b) = {}
    <3> SUFFICES ASSUME ItemsOf(items, {CatRemovedBooks}, b) # {} PROVE FALSE
      OBVIOUS
    <3>1. ShelfAfter(client[d].books, items)[b] = 0
      BY DEF ShelfAfter
    <3> QED BY <1>1, <1>2, <3>1
  <2>1. ~Removes(items, b)
    BY <2>0 DEF Removes, ItemsOf
  <2>2. CASE put = {}
    <3>1. client[d].books[b] > 0
      BY <1>1, <1>2, <2>0, <2>2 DEF ShelfAfter
    <3> QED BY <2>1, <3>1 DEF Covered
  <2>3. CASE put # {}
    BY <2>3 DEF ItemsOf, Covered, BringsOnly
  <2> QED BY <2>2, <2>3
<1> QED BY <1>2 DEF Covered, BringsOnly, Removes

LEMMA ReceiveExact ==
  ASSUME TypeInv, NEW d \in Devices, DeviceHeld(d), Exact(d), Receive(d)
  PROVE  Exact(d)'
<1>0. PICK items : items = outbox[d].items
  OBVIOUS
<1>1. PICK last \in PointRef, ongoing \in PointRef : last = outbox[d].last /\ ongoing = outbox[d].ongoing
  BY Tokens
<1>2. /\ outbox[d].sent /\ point' = point /\ handler' = handler
      /\ outbox' = [outbox EXCEPT ![d] = NoAnswer]
      /\ client'[d].last = last /\ client'[d].ongoing = ongoing
  BY <1>0, <1>1 DEF Receive, TypeInv, TypeOK
<1>3. ~outbox'[d].sent
  BY <1>2 DEF NoAnswer, TypeInv, TypeOK
<1>4. handler[d].pc = "idle" /\ handler[d].items = {}
  BY <1>2 DEF DeviceHeld, OneRequest, Exact, TokenStands, Sending
<1>5. Stands(d, last, ongoing, items)
  BY <1>0, <1>1, <1>2 DEF Exact, AnswerStands
<1>6. Stands(d, last, ongoing, {})'
  <2>1. Baseline(d, last)' /\ BooksOf(last)' = BooksOf(last) /\ BooksOf(ongoing)' = BooksOf(ongoing)
    BY <1>2, <1>5 DEF Stands, Baseline, PointsIn, IsState, BooksOf, Content
  <2>2. CASE ongoing = None
    <3>1. PICK to : to = BooksOf(last)
      OBVIOUS
    <3>2. Covered(d, {}, to, CatDone, 0, items)
      BY <1>5, <2>2, <3>1 DEF Stands
    <3>3. Covered(d, {}, to, CatDone, 0, {})'
      BY <1>0, <3>2, ShelfIsCovered
    <3> QED BY <2>1, <2>2, <3>1, <3>3 DEF Stands
  <2>3. CASE ongoing # None
    <3>1. PICK from, to, cat, key :
            /\ from = BooksOf(last) /\ to = BooksOf(ongoing)
            /\ cat = point[ongoing].cat /\ key = point[ongoing].key
      OBVIOUS
    <3>2. Half(d, last, ongoing) /\ Covered(d, from, to, cat, key, items)
      BY <1>5, <2>3, <3>1 DEF Stands
    <3>3. Covered(d, from, to, cat, key, {})'
      BY <1>0, <3>2, ShelfIsCovered
    <3>4. Half(d, last, ongoing)'
      BY <1>2, <3>2 DEF Half, IsState
    <3> QED BY <1>2, <2>1, <2>3, <3>1, <3>3, <3>4 DEF Stands
  <2> QED BY <2>2, <2>3
<1> QED BY <1>2, <1>3, <1>4, <1>6 DEF Exact, TokenStands, AnswerStands, DrainStands

LEMMA OthersPoints ==
  ASSUME TypeInv, NEW d \in Devices, DeviceHeld(d), Exact(d), NEW e \in Devices \ {d},
         HandlerStep(d) \/ SendSync(d) \/ Receive(d)
  PROVE  SamePoints(e)
<1>0. point \in [Points -> SyncPoint] /\ NoPoint.state = "none"
  BY DEF TypeInv, TypeOK, NoPoint
<1>1. CASE point' = point
  BY <1>1, SameAll
<1>2. CASE AbandonSyncPoint(d)
  <2>1. ASSUME NEW p \in PointsIn(d, "ongoing"),
               point' = [point EXCEPT ![p].state = "abandoned", ![p].recent = TRUE]
        PROVE  SamePoints(e)
    <3>1. /\ p \in Points /\ point[p].device = d /\ point'[p].state = "abandoned"
          /\ \A x \in Points \ {p} : point'[x] = point[x]
      BY <1>0, <2>1 DEF PointsIn, IsState, SyncPoint
    <3> QED BY <3>1 DEF SamePoints, NotOf
  <2> QED BY <1>1, <1>2, <2>1 DEF AbandonSyncPoint
<1>3. CASE CreateSyncPoint(d)
  <2>1. PICK p \in Points : Unused(p) /\ point' = [point EXCEPT ![p] = NewSnapshot(d, handler[d].parent)]
    BY <1>3 DEF CreateSyncPoint
  <2>2. /\ point[p].state = "none" /\ point'[p].device = d
        /\ \A x \in Points \ {p} : point'[x] = point[x]
    BY <1>0, <2>1 DEF Unused, NewSnapshot
  <2> QED BY <2>2 DEF SamePoints, NotOf
<1>4. CASE SaveSyncCursor(d) \/ CompleteSyncPoint(d)
  <2>1. PICK p : p = handler[d].sp
    OBVIOUS
  <2>2. p \in Points /\ (point[p].state = "none" \/ point[p].device = d)
    BY <1>4, <2>1 DEF SaveSyncCursor, CompleteSyncPoint, At, DeviceHeld, TokensApart, Sending
  <2>3. ASSUME point[p].state # "none"
        PROVE  point'[p].device = d /\ \A x \in Points \ {p} : point'[x] = point[x]
    BY <1>0, <1>4, <2>1, <2>2, <2>3 DEF SaveSyncCursor, CompleteSyncPoint, SyncPoint
  <2>4. point[p].state = "none" => point' = point
    BY <1>4, <2>1 DEF SaveSyncCursor, CompleteSyncPoint
  <2> QED BY <1>1, <2>2, <2>3, <2>4 DEF SamePoints, NotOf
<1>5. CASE DropParent(d)
  <2>1. PICK q : q = handler[d].parent
    OBVIOUS
  <2>2. q # None => IsState(q, d, "completed")
    BY <1>5, <2>1 DEF DropParent, At, Exact, DrainStands, PointsIn
  <2>3. /\ \A x \in Points \ {q} : point'[x] = point[x]
        /\ q # None /\ q \in Points => point'[q] = NoPoint
    BY <1>0, <1>5, <2>1 DEF DropParent
  <2>4. q = None => point' = point
    BY <1>5, <2>1 DEF DropParent
  <2> QED BY <1>0, <1>1, <2>2, <2>3, <2>4 DEF SamePoints, NotOf, IsState
<1> QED
  BY <1>1, <1>2, <1>3, <1>4, <1>5 DEF HandlerStep, BeginSync, NothingToSay, SomethingToSay, ResumeSync,
     ChooseParent, DrainCategory, SendSync, Receive

LEMMA OthersExact ==
  ASSUME TypeInv, NEW d \in Devices, DeviceHeld(d), Exact(d), NEW e \in Devices \ {d}, Exact(e),
         HandlerStep(d) \/ SendSync(d) \/ Receive(d)
  PROVE  Exact(e)'
<1>1. Untouched(e) /\ client'[e] = client[e]
  BY OthersUntouched
<1> QED BY <1>1, OthersPoints, UntouchedExact DEF SameEnds, Untouched, KeepsShelf

LEMMA InitExact == Init => ExactInv
<1> SUFFICES ASSUME Init, NEW d \in Devices PROVE Exact(d)
  BY DEF ExactInv
<1>1. /\ handler[d].pc = "idle" /\ handler[d].items = {} /\ ~outbox[d].sent
      /\ client[d].last = None /\ client[d].ongoing = None
      /\ \A b \in Books : client[d].books[b] = 0
  BY DEF Init, KoboInit, Idle, NoAnswer, FreshClient, NoBooks
<1>2. PointsIn(d, "completed") = {}
  BY DEF Init, KoboInit, PointsIn, IsState, NoPoint
<1> QED BY <1>1, <1>2 DEF Exact, TokenStands, AnswerStands, DrainStands, Stands, Baseline, Covered,
           BringsOnly, Sending

LEMMA ExactStep ==
  ASSUME NothingGoesWrong, TypeInv, HeldInv, ExactInv, [Next]_vars
  PROVE  ExactInv'
<1>0. \A d \in Devices : DeviceHeld(d) /\ Exact(d)
  BY DEF HeldInv, ExactInv
<1>1. ASSUME NEW d \in Devices, HandlerStep(d) \/ SendSync(d) \/ Receive(d) PROVE ExactInv'
  <2>1. Exact(d)'
    BY <1>0, <1>1, CheckExact, ResumeExact, ChooseExact, CreateExact, DrainExact, SaveExact,
       CompleteExact, DropExact, SendExact, ReceiveExact DEF HandlerStep
  <2>2. \A e \in Devices \ {d} : Exact(e)'
    BY <1>0, <1>1, OthersExact
  <2> QED BY <2>1, <2>2 DEF ExactInv
<1>2. ASSUME UNCHANGED <<handler, outbox>>, point' = point,
             \A d \in Devices : /\ client'[d].last = client[d].last
                                /\ client'[d].ongoing = client[d].ongoing
                                /\ KeepsShelf(d)
      PROVE  ExactInv'
  BY <1>0, <1>2, SameAll, UntouchedExact DEF ExactInv, SameEnds
<1>3. ASSUME NEW d \in Devices, NEW b \in Books, DeleteOnDevice(d, b) \/ ReadOnDevice(d, b)
      PROVE  ExactInv'
  <2>1. client \in [Devices -> Client]
    BY DEF TypeInv, TypeOK
  <2>2. \A e \in Devices : /\ client'[e].last = client[e].last
                           /\ client'[e].ongoing = client[e].ongoing
                           /\ KeepsShelf(e)
    <3>1. CASE DeleteOnDevice(d, b)
      BY <2>1, <3>1 DEF DeleteOnDevice, Client, KeepsShelf
    <3>2. CASE ReadOnDevice(d, b)
      BY <2>1, <3>2 DEF ReadOnDevice, Client, KeepsShelf
    <3> QED BY <1>3, <3>1, <3>2
  <2>3. UNCHANGED <<handler, outbox>> /\ point' = point
    BY <1>3 DEF DeleteOnDevice, ReadOnDevice
  <2> QED BY <1>2, <2>2, <2>3
<1>4. CASE UNCHANGED syncVars
  BY <1>2, <1>4 DEF syncVars, KeepsShelf
<1>5. /\ ~WeekPasses /\ ~GCSyncPoints /\ ~ServerRestarts
      /\ \A d \in Devices : ~GiveUp(d) /\ ~DeviceRestarts(d) /\ ~ResetDeviceSyncState(d)
  BY DEF NothingGoesWrong, WeekPasses, GCSyncPoints, ServerRestarts, GiveUp, DeviceRestarts,
     ResetDeviceSyncState, Change
<1>6. \A d \in Devices : ~StepFails(d)
  <2> SUFFICES ASSUME NEW d \in Devices, StepFails(d) PROVE FALSE
    OBVIOUS
  <2>1. handler[d].pc # "idle"
    BY DEF StepFails, At
  <2>2. handler[d].live
    BY <1>0, <2>1, Busy
  <2> QED BY <2>2 DEF StepFails, Change, NothingGoesWrong
<1> QED BY <1>1, <1>3, <1>4, <1>5, <1>6 DEF Next, DeviceStep, ForgetTombstone, vars

(* A device that is not waiting has nothing on its way.                     *)
LEMMA AtRest ==
  ASSUME NEW d \in Devices, DeviceHeld(d), Exact(d), ~client[d].waiting, client[d].ongoing = None
  PROVE  Baseline(d, client[d].last) /\ Covered(d, {}, BooksOf(client[d].last), CatDone, 0, {})
<1>1. handler[d].pc = "idle" /\ ~outbox[d].sent
  BY DEF DeviceHeld, OneRequest
<1> QED BY <1>1 DEF Exact, TokenStands, Stands, Sending

LEMMA AlwaysExact ==
  ASSUME NothingGoesWrong
  PROVE  Spec => [](HeldInv /\ ExactInv)
<1>1. NothingIsLost
  BY DEF NothingGoesWrong, NothingIsLost
<1>2. Init => SafeInv /\ HeldInv /\ ExactInv
  BY InitSafe, InitHeld, InitExact
<1>3. TypeInv /\ TypeInv' /\ SafeInv /\ [Next]_vars => SafeInv'
  BY SafeStep DEF NothingGoesWrong
<1>4. TypeInv /\ TypeInv' /\ SafeInv /\ HeldInv /\ [Next]_vars => HeldInv'
  BY <1>1, HeldStep
<1>5. TypeInv /\ HeldInv /\ ExactInv /\ [Next]_vars => ExactInv'
  BY ExactStep
<1> QED BY <1>2, <1>3, <1>4, <1>5, TypeInvariant, PTL DEF Spec

(* A device that is done with a sync holds nothing outside the snapshot of  *)
(* its token.  Every condition is needed: a removal in an answer that is    *)
(* lost, or in a page of a half-sent snapshot that is forgotten, is not     *)
(* sent again.                                                              *)
THEOREM NothingElseIsHeld ==
  ASSUME NothingGoesWrong
  PROVE  Spec => []NothingExtra
<1>1. HeldInv /\ ExactInv => NothingExtra
  BY AtRest DEF HeldInv, ExactInv, NothingExtra, Covered, Removes, Pending
<1> QED BY <1>1, AlwaysExact, PTL

(* Between two syncs a device has exactly one completed snapshot, the one   *)
(* its token names: DropParent deletes what CompleteSyncPoint supersedes,   *)
(* and no third one is ever left.                                           *)
THEOREM BaselineIsSingle ==
  ASSUME NothingGoesWrong
  PROVE  Spec => []OneBaseline
<1>1. HeldInv /\ ExactInv => OneBaseline
  BY AtRest DEF HeldInv, ExactInv, OneBaseline, Baseline
<1> QED BY <1>1, AlwaysExact, PTL
=============================================================================
