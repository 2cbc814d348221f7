-------------------------- MODULE WebImportProofs --------------------------
(***************************************************************************)
(* For any links, titles, chapters, ranges and requests: if no two links   *)
(* lead to one title, two imports never work on one title, and no failure, *)
(* crash or repeated download loses a chapter of a book.                   *)
(***************************************************************************)
EXTENDS WebImport, TLAPS

-----------------------------------------------------------------------------
(* Types *)

\* An import under way is of a link, and after it asked for the book it is the link's.
Linked == \A a \in Runs : run[a].at # "idle" =>
             run[a].link \in Links /\ run[a].range \in Ranges

Typed == TypeOK /\ Linked

LEMMA IdleTyped == Idle \in ImportState /\ Nothing \in Content
BY WebImportAssumption DEF Idle, Nothing, Content, ImportState, Places, Kinds

LEMMA PartTyped == ASSUME NEW x \in Content, NEW range
                   PROVE  /\ Part(x, range) \in Content
                          /\ Has(Part(x, range)) = Has(x) \cap range
BY WebImportAssumption DEF Part, Content, Has

LEMMA InitTyped == Init => Typed
<1> SUFFICES ASSUME Init PROVE Typed
  OBVIOUS
<1>1. site \in [Titles -> Content]
  BY WebImportAssumption DEF Init, Content
<1>2. PICK imported \in SUBSET Links, range \in Ranges :
        /\ source = IF imported = {} THEN "none" ELSE "web"
        /\ row = [l \in Links |-> IF l \in imported
                    THEN [range |-> range, holds |-> Part(site[TitleOf[l]], range)]
                    ELSE None]
        /\ LET known == {TitleOf[l] : l \in imported} IN
           /\ cache = [t \in Titles |->
                         IF t \in known THEN Part(site[t], range) ELSE Nothing]
           /\ file = [t \in Titles |->
                         IF t \in known THEN Part(site[t], range) ELSE None]
  BY DEF Init
<1>3. \A t \in Titles : Part(site[t], range) \in Content
  BY <1>1, PartTyped
<1>4. /\ row \in [Links -> Row \cup {None}]
      /\ cache \in [Titles -> Content]
      /\ file \in [Titles -> Content \cup {None}]
  BY <1>2, <1>3, IdleTyped, WebImportAssumption DEF Row
<1>5. source \in {"none", "calibre", "web"}
  BY <1>2
<1>8. run \in [Runs -> ImportState]
  BY IdleTyped DEF Init
<1>9. 0 \in 0..MaxChanges
  BY WebImportAssumption
<1>6. /\ aside \in [Titles -> Content \cup {None}] /\ claimed \subseteq Links
      /\ toCheck \in [Links -> Ranges \cup {None}]
      /\ sweeping \in BOOLEAN /\ purged \subseteq Titles
      /\ stranded \in [Titles -> SUBSET Chapters]
      /\ orphaned \subseteq Titles /\ changes \in 0..MaxChanges
  BY <1>9 DEF Init
<1>7. Linked
  BY DEF Init, Linked, Idle
<1> QED BY <1>1, <1>4, <1>5, <1>6, <1>7, <1>8 DEF Typed, TypeOK

LEMMA RunFacts ==
    ASSUME Typed, NEW a \in Runs
    PROVE  /\ run[a] \in ImportState
           /\ run[a].at # "idle" => /\ run[a].link \in Links /\ run[a].range \in Ranges
                                    /\ Title(a) \in Titles
BY WebImportAssumption DEF Typed, TypeOK, Linked, Title

LEMMA ChangeTyped == ASSUME Typed, NEW w, Change(w) PROVE changes' \in 0..MaxChanges
BY WebImportAssumption DEF Typed, TypeOK, Change

LEMMA MoveTyped ==
    ASSUME Typed, NEW a \in Runs, ~At(a, "idle"), NEW p \in Places, Move(a, p)
    PROVE  run' \in [Runs -> ImportState] /\ Linked'
<1>1. run[a] \in ImportState
  BY RunFacts
<1> QED BY <1>1 DEF Typed, TypeOK, Linked, Move, At, ImportState

LEMMA EndTyped ==
    ASSUME Typed, NEW a \in Runs, End(a)
    PROVE  run' \in [Runs -> ImportState] /\ Linked' /\ claimed' \subseteq Links
<1>1. run' \in [Runs -> ImportState] /\ claimed' \subseteq Links
  BY IdleTyped DEF Typed, TypeOK, End
<1>2. Linked'
  BY DEF Typed, TypeOK, Linked, End, Idle
<1> QED BY <1>1, <1>2

LEMMA BeginsTyped ==
    ASSUME Typed, NEW a \in Runs, NEW l \in Links, NEW kind \in Kinds,
           NEW range \in Ranges, Begins(a, l, kind, range)
    PROVE  run' \in [Runs -> ImportState] /\ Linked' /\ claimed' \subseteq Links
<1>1. [Idle EXCEPT !.at = "webSource", !.link = l, !.kind = kind, !.range = range]
        \in ImportState
  BY IdleTyped DEF ImportState, Places
<1>2. run' \in [Runs -> ImportState] /\ claimed' \subseteq Links
  BY <1>1 DEF Typed, TypeOK, Begins
<1>3. Linked'
  BY DEF Typed, TypeOK, Linked, Begins, Idle
<1> QED BY <1>2, <1>3

LEMMA RestoreTyped ==
    ASSUME Typed, NEW t \in Titles, RestoreCache(t)
    PROVE  cache' \in [Titles -> Content] /\ aside' \in [Titles -> Content \cup {None}]
BY DEF Typed, TypeOK, RestoreCache

LEMMA FetchedTyped ==
    ASSUME Typed, NEW a \in Runs, ~At(a, "idle")
    PROVE  NewlyDone(a) \subseteq Chapters /\ Fetched(a) \subseteq Chapters
BY DEF NewlyDone, Has, Fetched

LEMMA ImportTyped == ASSUME Typed, NEW a \in Runs, ImportStep(a) PROVE Typed'
<1>0. run[a] \in ImportState
  BY RunFacts
<1>1. CASE WebSource(a)
  <2>1. CASE source = "web" /\ Move(a, "existing") /\ UNCHANGED <<source, claimed>>
    BY <1>1, <2>1, MoveTyped DEF WebSource, At, Typed, TypeOK, Places, sweep
  <2>2. CASE source = "none" /\ source' = "calibre" /\ Move(a, "mark") /\ UNCHANGED claimed
    BY <1>1, <2>2, MoveTyped DEF WebSource, At, Typed, TypeOK, Places, sweep
  <2>3. CASE source = "calibre" /\ End(a) /\ UNCHANGED source
    BY <1>1, <2>3, EndTyped DEF WebSource, At, Typed, TypeOK, sweep
  <2> QED BY <1>1, <2>1, <2>2, <2>3 DEF WebSource, Typed, TypeOK
<1>2. CASE MarkWebSource(a)
  BY <1>2, MoveTyped DEF MarkWebSource, At, Typed, TypeOK, Places, sweep
<1>3. CASE ReadExisting(a)
  <2>1. Title(a) \in Titles /\ run[a].link \in Links
    BY <1>3, RunFacts DEF ReadExisting, At
  <2>2. cache' \in [Titles -> Content] /\ aside' \in [Titles -> Content \cup {None}]
    BY <1>3, <2>1, RestoreTyped DEF ReadExisting, Typed, TypeOK
  <2>3. row[run[a].link] \in Row \cup {None}
    BY <2>1 DEF Typed, TypeOK
  <2>4. run' \in [Runs -> ImportState]
    BY <1>0, <1>3, <2>3 DEF ReadExisting, Typed, TypeOK, ImportState, Places
  <2>5. Linked'
    BY <1>3 DEF ReadExisting, At, Typed, TypeOK, Linked, ImportState
  <2> QED BY <1>3, <2>2, <2>4, <2>5 DEF ReadExisting, Typed, TypeOK, sweep
<1>4. CASE SetCacheAside(a)
  <2>1. Title(a) \in Titles
    BY <1>4, RunFacts DEF SetCacheAside, At
  <2>2. cache' \in [Titles -> Content] /\ aside' \in [Titles -> Content \cup {None}]
    BY <1>4, <2>1, IdleTyped DEF SetCacheAside, Typed, TypeOK
  <2> QED BY <1>4, <2>2, MoveTyped DEF SetCacheAside, At, Typed, TypeOK, Places, sweep
<1>5. CASE Plan(a)
  <2>1. run' \in [Runs -> ImportState]
    BY <1>0, <1>5 DEF Plan, Typed, TypeOK, ImportState, Places, Has
  <2>2. Linked'
    BY <1>5 DEF Plan, At, Typed, TypeOK, Linked, ImportState
  <2> QED BY <1>5, <2>1, <2>2 DEF Plan, Typed, TypeOK, sweep
<1>6. CASE Fetch(a)
  <2>1. PICK c \in run[a].todo :
          /\ cache' = [cache EXCEPT ![Title(a)][c] = site[Title(a)][c]]
          /\ run' = [run EXCEPT ![a].todo = @ \ {c}]
    BY <1>6 DEF Fetch
  <2>2. Title(a) \in Titles /\ c \in Chapters
    BY <1>0, <1>6, RunFacts DEF Fetch, At, ImportState
  <2>3. cache' \in [Titles -> Content]
    BY <2>1, <2>2 DEF Typed, TypeOK, Content
  <2>4. run' \in [Runs -> ImportState]
    BY <1>0, <2>1 DEF Typed, TypeOK, ImportState
  <2>5. Linked'
    BY <2>1 DEF Typed, TypeOK, Linked, ImportState
  <2> QED BY <1>6, <2>3, <2>4, <2>5 DEF Fetch, Typed, TypeOK, sweep
<1>7. CASE Downloaded(a)
  <2>1. aside' \in [Titles -> Content \cup {None}]
    BY <1>7 DEF Downloaded, Typed, TypeOK
  <2> QED BY <1>7, <2>1, MoveTyped DEF Downloaded, At, Typed, TypeOK, Places, sweep
<1>8. CASE Decide(a)
  <2>1. CASE End(a)
    BY <1>8, <2>1, EndTyped DEF Decide, Typed, TypeOK, sweep
  <2>2. CASE /\ run' = [run EXCEPT ![a].at = "build",
                                   ![a].state = Part(cache[Title(a)], run[a].range)]
             /\ UNCHANGED claimed
    <3>1. Title(a) \in Titles
      BY <1>8, RunFacts DEF Decide, At
    <3>2. Part(cache[Title(a)], run[a].range) \in Content
      BY <3>1, PartTyped DEF Typed, TypeOK
    <3>3. run' \in [Runs -> ImportState]
      BY <1>0, <2>2, <3>2 DEF Typed, TypeOK, ImportState, Places
    <3>4. Linked'
      BY <1>8, <2>2 DEF Decide, At, Typed, TypeOK, Linked, ImportState
    <3> QED BY <1>8, <2>2, <3>3, <3>4 DEF Decide, Typed, TypeOK, sweep
  <2> QED BY <1>8, <2>1, <2>2 DEF Decide
<1>9. CASE Build(a)
  <2>1. file' \in [Titles -> Content \cup {None}]
    BY <1>0, <1>9 DEF Build, Typed, TypeOK, ImportState
  <2> QED BY <1>9, <2>1, MoveTyped DEF Build, At, Typed, TypeOK, Places, sweep
<1>10. CASE Record(a)
  <2>1. run[a].link \in Links /\ Title(a) \in Titles /\ run[a].range \in Ranges
    BY <1>10, RunFacts DEF Record, At
  <2>2. NewlyDone(a) \subseteq Chapters
    BY DEF NewlyDone, Has
  <2>3. stranded' \in [Titles -> SUBSET Chapters]
    BY <1>10, <2>1, <2>2 DEF Record, Typed, TypeOK
  <2>4. [range |-> run[a].range, holds |-> run[a].state] \in Row
    BY <1>0, <2>1 DEF Row, ImportState
  <2>5. row' \in [Links -> Row \cup {None}]
    BY <1>10, <2>1, <2>4 DEF Record, Typed, TypeOK
  <2> QED BY <1>10, <2>3, <2>5, EndTyped DEF Record, Typed, TypeOK, sweep
<1> QED BY <1>1, <1>2, <1>3, <1>4, <1>5, <1>6, <1>7, <1>8, <1>9, <1>10 DEF ImportStep

LEMMA StoppingTyped ==
    ASSUME Typed, NEW a \in Runs, DownloadStops(a) \/ Fails(a) PROVE Typed'
<1>1. ~At(a, "idle") /\ Title(a) \in Titles
  BY RunFacts DEF DownloadStops, Fails, At
<1>2. changes' \in 0..MaxChanges
  BY ChangeTyped DEF DownloadStops, Fails
<1>3. cache' \in [Titles -> Content] /\ aside' \in [Titles -> Content \cup {None}]
  <2>1. CASE RestoreCache(Title(a))
    BY <1>1, <2>1, RestoreTyped
  <2>2. CASE UNCHANGED <<cache, aside>>
    BY <2>2 DEF Typed, TypeOK
  <2> QED BY <2>1, <2>2 DEF DownloadStops, Fails
<1>4. CASE DownloadStops(a)
  <2>1. run' \in [Runs -> ImportState] /\ Linked' /\ claimed' \subseteq Links
    <3>1. CASE End(a)
      BY <3>1, EndTyped
    <3>2. CASE Move(a, "decide") /\ UNCHANGED claimed
      BY <1>1, <3>2, MoveTyped DEF Places, Typed, TypeOK
    <3> QED BY <1>4, <3>1, <3>2 DEF DownloadStops
  <2> QED BY <1>2, <1>3, <1>4, <2>1 DEF DownloadStops, Typed, TypeOK, sweep
<1>5. CASE Fails(a)
  <2>1. stranded' \in [Titles -> SUBSET Chapters]
    BY <1>1, <1>5, FetchedTyped DEF Fails, Typed, TypeOK
  <2> QED BY <1>2, <1>3, <1>5, <2>1, EndTyped DEF Fails, Typed, TypeOK, sweep
<1> QED BY <1>4, <1>5

LEMMA StartTyped ==
    ASSUME Typed, NEW r \in Requests, NEW l \in Links,
           StartAgain(r, l) \/ \E range \in Ranges : StartImport(r, l, range)
    PROVE  Typed'
<1>0. r \in Runs
  BY DEF Runs
<1>1. PICK kind \in Kinds, range \in Ranges : Begins(r, l, kind, range)
  <2>1. CASE StartAgain(r, l)
    <3>1. row[l].range \in Ranges
      BY <2>1 DEF StartAgain, Typed, TypeOK, Row
    <3> QED BY <2>1, <3>1 DEF StartAgain, Kinds
  <2>2. CASE \E range \in Ranges : StartImport(r, l, range)
    BY <2>2 DEF StartImport, Kinds
  <2> QED BY <2>1, <2>2
<1>2. changes' \in 0..MaxChanges
  BY ChangeTyped DEF StartAgain, StartImport
<1>3. UNCHANGED <<site, cache, aside, file, source, row, sweep, purged, stranded, orphaned>>
  BY DEF StartAgain, StartImport
<1> QED BY <1>0, <1>1, <1>2, <1>3, BeginsTyped DEF Typed, TypeOK, sweep

LEMMA SweepTyped == ASSUME Typed, SweepStep PROVE Typed'
<1>1. CASE BeginSweep
  <2>1. toCheck' \in [Links -> Ranges \cup {None}]
    BY <1>1 DEF BeginSweep, Typed, TypeOK, Row
  <2> QED BY <1>1, <2>1 DEF BeginSweep, Typed, TypeOK, Linked
<1>2. CASE EndSweep
  BY <1>2 DEF EndSweep, Typed, TypeOK, Linked
<1>3. CASE \E l \in Links : CheckNext(l)
  <2> PICK l \in Links : CheckNext(l)
    BY <1>3
  <2>1. toCheck[l] \in Ranges
    BY DEF CheckNext, Typed, TypeOK
  <2>3. toCheck' \in [Links -> Ranges \cup {None}]
    BY DEF CheckNext, Typed, TypeOK
  <2>2. run' \in [Runs -> ImportState] /\ Linked' /\ claimed' \subseteq Links
    <3>1. CASE Begins(Sweeper, l, "check", toCheck[l])
      BY <2>1, <3>1, BeginsTyped DEF Runs, Kinds
    <3>2. CASE UNCHANGED <<run, claimed>>
      BY <3>2 DEF Typed, TypeOK, Linked
    <3> QED BY <3>1, <3>2 DEF CheckNext
  <2> QED BY <2>2, <2>3 DEF CheckNext, Typed, TypeOK
<1> QED BY <1>1, <1>2, <1>3 DEF SweepStep

LEMMA WorldTyped ==
    ASSUME Typed,
           \/ \E l \in Links : PurgeRows(l)
           \/ \E t \in Titles : PurgeFiles(t) \/ \E c \in Chapters : Publish(t, c)
           \/ Crash
    PROVE  Typed'
<1>1. CASE \E l \in Links : PurgeRows(l)
  <2> PICK l \in Links : PurgeRows(l)
    BY <1>1
  <2>1. TitleOf[l] \in Titles
    BY WebImportAssumption
  <2>2. changes' \in 0..MaxChanges
    BY ChangeTyped DEF PurgeRows
  <2>3. row' \in [Links -> Row \cup {None}] /\ purged' \subseteq Titles
    BY <2>1 DEF PurgeRows, Typed, TypeOK
  <2>4. orphaned' \subseteq Titles
    BY <2>1 DEF PurgeRows, Typed, TypeOK
  <2> QED BY <2>2, <2>3, <2>4 DEF PurgeRows, Typed, TypeOK, Linked, sweep
<1>2. CASE \E t \in Titles : PurgeFiles(t)
  BY <1>2 DEF PurgeFiles, Typed, TypeOK, Linked, sweep
<1>3. CASE \E t \in Titles, c \in Chapters : Publish(t, c)
  <2> PICK t \in Titles, c \in Chapters : Publish(t, c)
    BY <1>3
  <2>1. site[t][c] + 1 \in 0..MaxVersion
    BY WebImportAssumption DEF Publish, Typed, TypeOK, Content
  <2>2. site' \in [Titles -> Content]
    BY <2>1 DEF Publish, Typed, TypeOK, Content
  <2>3. changes' \in 0..MaxChanges
    BY ChangeTyped DEF Publish
  <2> QED BY <2>2, <2>3 DEF Publish, Typed, TypeOK, Linked, sweep
<1>4. CASE Crash
  <2>1. run' \in [Runs -> ImportState] /\ Linked'
    BY <1>4, IdleTyped DEF Crash, Linked, Idle
  <2>2. stranded' \in [Titles -> SUBSET Chapters]
    <3>1. \A a \in Runs : Fetched(a) \subseteq Chapters
      BY DEF Fetched, NewlyDone, Has
    <3> QED BY <1>4, <3>1 DEF Crash, Typed, TypeOK
  <2>3. changes' \in 0..MaxChanges
    BY <1>4, ChangeTyped DEF Crash
  <2> QED BY <1>4, <2>1, <2>2, <2>3 DEF Crash, Typed, TypeOK
<1> QED BY <1>1, <1>2, <1>3, <1>4

LEMMA NextTyped == Typed /\ [Next]_vars => Typed'
<1> SUFFICES ASSUME Typed, [Next]_vars PROVE Typed'
  OBVIOUS
<1>1. CASE UNCHANGED vars
  BY <1>1 DEF Typed, TypeOK, Linked, vars, sweep
<1>2. CASE Next
  BY <1>2, ImportTyped, StoppingTyped, StartTyped, SweepTyped, WorldTyped DEF Next
<1> QED BY <1>1, <1>2

\* Type correctness (webimport.go, background.go): no step of an import leaves the
\* types of its state, for any links, titles, chapters and requests.
THEOREM ImportTypes == Spec => []TypeOK
<1>1. Typed => TypeOK
  BY DEF Typed
<1> QED BY <1>1, InitTyped, NextTyped, PTL DEF Spec

-----------------------------------------------------------------------------
(* One import for each title *)

\* Whoever works on a link has claimed it, alone.
Claims == /\ \A a \in Runs : ~At(a, "idle") => run[a].link \in claimed
          /\ \A a, b \in Runs : a # b /\ ~At(a, "idle") /\ ~At(b, "idle")
                                => run[a].link # run[b].link

LEMMA InitClaims == Init => Claims
BY DEF Init, Claims, At, Idle

\* A step that only takes an import of a link further.
LEMMA ClaimsMove ==
    ASSUME Typed, Claims, NEW a \in Runs, ~At(a, "idle"), NEW r, r.link = run[a].link,
           run' = [run EXCEPT ![a] = r], UNCHANGED claimed
    PROVE  Claims'
BY DEF Claims, Typed, TypeOK, At

LEMMA ClaimsEnd ==
    ASSUME Typed, Claims, NEW a \in Runs, ~At(a, "idle"), End(a)
    PROVE  Claims'
BY DEF Claims, Typed, TypeOK, At, End, Idle

LEMMA ClaimsBegin ==
    ASSUME Typed, Claims, NEW a \in Runs, At(a, "idle"), NEW l \in Links, MayClaim(l),
           NEW kind, NEW range, Begins(a, l, kind, range)
    PROVE  Claims'
BY DEF Claims, Typed, TypeOK, At, Begins, Idle, MayClaim

\* What a step of an import does to it and its claim.
LEMMA EndsOrGoesOn ==
    ASSUME Typed, NEW a \in Runs, ImportStep(a) \/ DownloadStops(a) \/ Fails(a)
    PROVE  /\ ~At(a, "idle")
           /\ \/ End(a)
              \/ /\ UNCHANGED claimed
                 /\ \E r \in ImportState :
                      r.link = run[a].link /\ run' = [run EXCEPT ![a] = r]
<1>1. run[a] \in ImportState
  BY RunFacts
<1>2. ASSUME NEW p \in Places, Move(a, p)
      PROVE  \E r \in ImportState : r.link = run[a].link /\ run' = [run EXCEPT ![a] = r]
  BY <1>1, <1>2 DEF Move, ImportState
<1>3. CASE WebSource(a)
  <2>1. CASE source = "web" /\ Move(a, "existing") /\ UNCHANGED <<source, claimed>>
    BY <1>2, <1>3, <2>1 DEF WebSource, At, Places
  <2>2. CASE source = "none" /\ source' = "calibre" /\ Move(a, "mark") /\ UNCHANGED claimed
    BY <1>2, <1>3, <2>2 DEF WebSource, At, Places
  <2>3. CASE source = "calibre" /\ End(a) /\ UNCHANGED source
    BY <1>3, <2>3 DEF WebSource, At
  <2> QED BY <1>3, <2>1, <2>2, <2>3 DEF WebSource, Typed, TypeOK
<1>4. CASE MarkWebSource(a) \/ SetCacheAside(a) \/ Downloaded(a) \/ Build(a)
  BY <1>2, <1>4 DEF MarkWebSource, SetCacheAside, Downloaded, Build, At, Places
<1>5. CASE Record(a) \/ Fails(a)
  BY <1>5 DEF Record, Fails, At
<1>6. CASE DownloadStops(a)
  BY <1>2, <1>6 DEF DownloadStops, At, Places
<1>7. CASE ReadExisting(a) \/ Plan(a) \/ Fetch(a) \/ Decide(a)
  <2>1. ~At(a, "idle") /\ (End(a) \/ UNCHANGED claimed)
    BY <1>7 DEF ReadExisting, Plan, Fetch, Decide, At
  <2>2. CASE End(a)
    BY <2>1, <2>2
  <2>3. CASE UNCHANGED claimed /\ ~End(a)
    <3>1. run'[a] \in ImportState
      BY <1>7, ImportTyped DEF Typed, TypeOK, ImportStep
    <3>2. run'[a].link = run[a].link /\ run' = [run EXCEPT ![a] = run'[a]]
      <4>1. CASE ReadExisting(a)
        BY <1>1, <4>1 DEF ReadExisting, Typed, TypeOK, ImportState
      <4>2. CASE Plan(a)
        BY <1>1, <4>2 DEF Plan, Typed, TypeOK, ImportState
      <4>3. CASE Fetch(a)
        BY <1>1, <4>3 DEF Fetch, Typed, TypeOK, ImportState
      <4>4. CASE Decide(a)
        <5>1. run' = [run EXCEPT ![a].at = "build",
                                 ![a].state = Part(cache[Title(a)], run[a].range)]
          BY <2>3, <4>4 DEF Decide
        <5> QED BY <1>1, <5>1 DEF Typed, TypeOK, ImportState
      <4> QED BY <1>7, <4>1, <4>2, <4>3, <4>4
    <3> QED BY <2>1, <2>3, <3>1, <3>2
  <2> QED BY <2>1, <2>2, <2>3
<1> QED BY <1>3, <1>4, <1>5, <1>6, <1>7 DEF ImportStep

LEMMA NextClaims == Typed /\ Claims /\ [Next]_vars => Claims'
<1> SUFFICES ASSUME Typed, Claims, [Next]_vars PROVE Claims'
  OBVIOUS
<1>1. ASSUME NEW a \in Runs, ImportStep(a) \/ DownloadStops(a) \/ Fails(a) PROVE Claims'
  <2>1. CASE End(a)
    BY <1>1, <2>1, EndsOrGoesOn, ClaimsEnd
  <2>2. ASSUME UNCHANGED claimed, NEW r \in ImportState, r.link = run[a].link,
               run' = [run EXCEPT ![a] = r]
        PROVE  Claims'
    BY <1>1, <2>2, EndsOrGoesOn, ClaimsMove
  <2> QED BY <1>1, <2>1, <2>2, EndsOrGoesOn
<1>2. ASSUME NEW r \in Requests, NEW l \in Links,
             StartAgain(r, l) \/ \E range \in Ranges : StartImport(r, l, range)
      PROVE  Claims'
  <2>1. r \in Runs /\ At(r, "idle") /\ MayClaim(l)
    BY <1>2 DEF StartAgain, StartImport, Runs
  <2>2. PICK kind, range : Begins(r, l, kind, range)
    BY <1>2 DEF StartAgain, StartImport
  <2> QED BY <2>1, <2>2, ClaimsBegin
<1>3. CASE SweepStep
  <2>1. CASE UNCHANGED <<run, claimed>>
    BY <2>1 DEF Claims, At
  <2>2. ASSUME NEW l \in Links, CheckNext(l), ~UNCHANGED <<run, claimed>> PROVE Claims'
    <3>1. /\ Sweeper \in Runs /\ At(Sweeper, "idle") /\ MayClaim(l)
          /\ Begins(Sweeper, l, "check", toCheck[l])
      BY <2>2 DEF CheckNext, Runs
    <3> QED BY <3>1, ClaimsBegin
  <2> QED BY <1>3, <2>1, <2>2 DEF SweepStep, BeginSweep, EndSweep
<1>4. CASE Crash
  BY <1>4 DEF Crash, Claims, At, Idle
<1>5. CASE \/ \E l \in Links : PurgeRows(l)
           \/ \E t \in Titles : PurgeFiles(t) \/ \E c \in Chapters : Publish(t, c)
           \/ UNCHANGED vars
  BY <1>5 DEF PurgeRows, PurgeFiles, Publish, vars, Claims, At
<1> QED BY <1>1, <1>2, <1>3, <1>4, <1>5 DEF Next

\* No two links lead to one title. The code does not see to it: it tells imports apart
\* by the text of the link.
EachItsTitle == \A l, m \in Links : TitleOf[l] = TitleOf[m] => l = m

LEMMA ClaimsApart == ASSUME EachItsTitle, Typed, Claims PROVE OneAtATime
BY DEF OneAtATime, EachItsTitle, Typed, Linked, Claims, At, Title

\* One import works on a title at a time, in its cache and over its file, among any
\* number of requests and the sweep (runner.acquire and runner.finish, background.go).
THEOREM OneImportPerTitle == ASSUME EachItsTitle PROVE Spec => []OneAtATime
<1>1. Init => Claims
  BY InitClaims
<1>2. Typed /\ Claims => OneAtATime
  BY ClaimsApart
<1> QED BY <1>1, <1>2, InitTyped, NextTyped, NextClaims, PTL DEF Spec

-----------------------------------------------------------------------------
(* No chapter is lost *)

\* What a title has in the end, if nothing else happens.
Backing(t) == IF aside[t] = None THEN cache[t] ELSE aside[t]

FromSite(t) == /\ Has(cache[t]) \subseteq Has(site[t])
               /\ aside[t] # None => Has(aside[t]) \subseteq Has(site[t])

\* A book holds chapters of its range that the site has, and they are kept; and
\* nothing is set aside for a link that has no book.
Book(l) ==
    LET t == TitleOf[l] IN
    /\ row[l] # None =>
         /\ Has(row[l].holds) \subseteq row[l].range \cap Has(site[t])
         /\ t \notin orphaned => Has(row[l].holds) \subseteq Has(Backing(t))
    /\ row[l] = None /\ t \notin orphaned => aside[t] = None

\* What is known of an import under way: while it downloads a book again, the book is
\* there, its range is the import's, and what the book holds is here or on the way.
Work(a) ==
    LET l == run[a].link t == TitleOf[l] place == run[a].at IN
    /\ place \in {"webSource", "mark", "existing"} => run[a].known = None
    /\ place = "aside" => Redownloading(a)
    /\ run[a].kind = "redownload" /\ row[l] # None => row[l].range = run[a].range
    /\ Redownloading(a) /\ t \notin orphaned => row[l] # None
    /\ /\ place \in {"aside", "plan", "download", "decide", "build", "record"}
       /\ ~(Redownloading(a) /\ place \in {"plan", "download"})
       /\ t \notin orphaned
       => aside[t] = None
    /\ place = "download" =>
         /\ run[a].todo \subseteq Has(site[t])
         /\ Redownloading(a) /\ row[l] # None
            => Has(row[l].holds) \subseteq Has(cache[t]) \cup run[a].todo
    /\ place \in {"build", "record"} =>
         /\ Has(run[a].state) \subseteq Has(cache[t]) \cap run[a].range
         /\ row[l] # None /\ row[l].range = run[a].range /\ t \notin orphaned
            => Has(row[l].holds) \subseteq Has(run[a].state)

Kept == /\ \A t \in Titles : FromSite(t)
        /\ \A l \in Links : Book(l)
        /\ \A a \in Runs : ~At(a, "idle") => Work(a)

LEMMA InitKept == ASSUME EachItsTitle PROVE Init => Kept
<1> SUFFICES ASSUME Init PROVE Kept
  OBVIOUS
<1>1. PICK imported \in SUBSET Links, range \in Ranges :
        /\ row = [l \in Links |-> IF l \in imported
                    THEN [range |-> range, holds |-> Part(site[TitleOf[l]], range)]
                    ELSE None]
        /\ cache = [t \in Titles |-> IF t \in {TitleOf[l] : l \in imported}
                                     THEN Part(site[t], range) ELSE Nothing]
  BY DEF Init
<1>2. \A t \in Titles : site[t] \in Content
  BY InitTyped DEF Typed, TypeOK
<1>3. \A t \in Titles : Has(Part(site[t], range)) = Has(site[t]) \cap range
  BY <1>2, PartTyped
<1>4. Has(Nothing) = {}
  BY DEF Has, Nothing
<1>5. \A t \in Titles : aside[t] = None
  BY DEF Init
<1>6. \A t \in Titles : FromSite(t)
  BY <1>1, <1>3, <1>4, <1>5 DEF FromSite
<1>7. ASSUME NEW l \in Links PROVE Book(l)
  <2>1. TitleOf[l] \in Titles
    BY WebImportAssumption
  <2>2. CASE l \in imported
    <3>1. row[l] = [range |-> range, holds |-> Part(site[TitleOf[l]], range)]
      BY <1>1, <2>2
    <3>2. cache[TitleOf[l]] = Part(site[TitleOf[l]], range)
      BY <1>1, <2>1, <2>2
    <3> QED BY <1>3, <1>5, <2>1, <3>1, <3>2 DEF Book, Backing
  <2>3. CASE l \notin imported
    <3>1. row[l] = None
      BY <1>1, <2>3
    <3> QED BY <1>5, <2>1, <3>1 DEF Book
  <2> QED BY <2>2, <2>3
<1>8. \A a \in Runs : At(a, "idle")
  BY DEF Init, At, Idle
<1> QED BY <1>6, <1>7, <1>8 DEF Kept

\* What a step does not touch.
LEMMA SameSite ==
    ASSUME NEW t, FromSite(t), site'[t] = site[t], cache'[t] = cache[t], aside'[t] = aside[t]
    PROVE  FromSite(t)'
BY DEF FromSite, Has

LEMMA SameBook ==
    ASSUME NEW l, Book(l), row'[l] = row[l], site'[TitleOf[l]] = site[TitleOf[l]],
           cache'[TitleOf[l]] = cache[TitleOf[l]], aside'[TitleOf[l]] = aside[TitleOf[l]],
           UNCHANGED orphaned
    PROVE  Book(l)'
BY DEF Book, Backing, Has

LEMMA SameWork ==
    ASSUME NEW a \in Runs, Work(a), run'[a] = run[a], row'[run[a].link] = row[run[a].link],
           site'[Title(a)] = site[Title(a)], cache'[Title(a)] = cache[Title(a)],
           aside'[Title(a)] = aside[Title(a)], UNCHANGED orphaned
    PROVE  Work(a)'
BY DEF Work, Redownloading, Title, Has

\* An import touches its own link and title only.
LEMMA ImportTouches ==
    ASSUME Typed, NEW a \in Runs, ImportStep(a) \/ DownloadStops(a) \/ Fails(a)
    PROVE  /\ UNCHANGED <<site, orphaned>>
           /\ \A m \in Links \ {run[a].link} : row'[m] = row[m]
           /\ \A u \in Titles \ {Title(a)} : cache'[u] = cache[u] /\ aside'[u] = aside[u]
           /\ \A b \in Runs \ {a} : run'[b] = run[b]
<1>1. UNCHANGED <<site, orphaned>>
  BY DEF ImportStep, WebSource, MarkWebSource, ReadExisting, SetCacheAside, Plan, Fetch,
     Downloaded, Decide, Build, Record, DownloadStops, Fails
<1>2. \A m \in Links \ {run[a].link} : row'[m] = row[m]
  BY DEF ImportStep, WebSource, MarkWebSource, ReadExisting, SetCacheAside, Plan, Fetch,
     Downloaded, Decide, Build, Record, DownloadStops, Fails, Typed, TypeOK
<1>3. \A u \in Titles \ {Title(a)} : cache'[u] = cache[u] /\ aside'[u] = aside[u]
  BY DEF ImportStep, WebSource, MarkWebSource, ReadExisting, SetCacheAside, Plan, Fetch,
     Downloaded, Decide, Build, Record, DownloadStops, Fails, RestoreCache, Typed, TypeOK
<1>4. \A b \in Runs \ {a} : run'[b] = run[b]
  BY EndsOrGoesOn DEF End, Typed, TypeOK
<1> QED BY <1>1, <1>2, <1>3, <1>4

\* Putting back what was set aside.
LEMMA RestoreKeeps ==
    ASSUME Typed, NEW l \in Links, NEW t, t = TitleOf[l], FromSite(t), Book(l),
           RestoreCache(t), UNCHANGED <<site, row, orphaned>>
    PROVE  FromSite(t)' /\ Book(l)' /\ aside'[t] = None
<1>1. t \in Titles
  BY WebImportAssumption
<1>2. aside'[t] = None /\ cache'[t] = Backing(t)
  BY <1>1 DEF RestoreCache, Backing, Typed, TypeOK
<1>3. Backing(t)' = Backing(t)
  BY <1>2 DEF Backing
<1> QED BY <1>2, <1>3 DEF FromSite, Book, Backing, Has

\* A step of an import keeps what is known of its title, its link and itself.
LEMMA ImportKeepsItsOwn ==
    ASSUME Typed, NEW a \in Runs, ImportStep(a), NEW l, l = run[a].link,
           NEW t, t = TitleOf[l], FromSite(t), Book(l), Work(a)
    PROVE  /\ FromSite(t)' /\ Book(l)'
           /\ ~At(a, "idle")' => Work(a)'
<1>0. /\ run[a] \in ImportState /\ ~At(a, "idle") /\ l \in Links /\ t \in Titles
      /\ t = Title(a) /\ UNCHANGED <<site, orphaned>>
  BY EndsOrGoesOn, RunFacts, ImportTouches DEF At, Title
<1>1. ASSUME UNCHANGED <<site, orphaned>>, cache'[t] = cache[t], aside'[t] = aside[t],
             row'[l] = row[l]
      PROVE  FromSite(t)' /\ Book(l)'
  BY <1>1, SameSite, SameBook
<1>2. ASSUME End(a) PROVE At(a, "idle")'
  BY <1>2 DEF End, At, Idle, Typed, TypeOK
<1>3. CASE WebSource(a)
  <2>1. UNCHANGED <<site, cache, aside, row, orphaned>>
    BY <1>3 DEF WebSource
  <2>2. CASE End(a)
    BY <1>1, <1>2, <2>1, <2>2
  <2>3. ASSUME NEW p \in {"existing", "mark"}, Move(a, p) PROVE Work(a)'
    <3>1. run'[a] = [run[a] EXCEPT !.at = p]
      BY <2>3 DEF Move, Typed, TypeOK
    <3> QED BY <1>0, <1>3, <2>1, <3>1
            DEF WebSource, At, Work, Redownloading, ImportState
  <2> QED BY <1>1, <1>3, <2>1, <2>2, <2>3 DEF WebSource
<1>4. CASE MarkWebSource(a)
  <2>1. UNCHANGED <<site, cache, aside, row, orphaned>>
    BY <1>4 DEF MarkWebSource
  <2>2. run'[a] = [run[a] EXCEPT !.at = "existing"]
    BY <1>4 DEF MarkWebSource, Move, Typed, TypeOK
  <2>3. Work(a)'
    BY <1>0, <1>4, <2>1, <2>2 DEF MarkWebSource, At, Work, Redownloading, ImportState
  <2> QED BY <1>1, <2>1, <2>3
<1>5. CASE ReadExisting(a)
  <2>1. /\ run'[a].link = l /\ run'[a].kind = run[a].kind /\ run'[a].range = run[a].range
        /\ run'[a].known = row[l]
        /\ run'[a].at = IF run[a].kind = "redownload" /\ row[l] # None
                        THEN "aside" ELSE "plan"
    BY <1>0, <1>5 DEF ReadExisting, Typed, TypeOK, ImportState
  <2>2. UNCHANGED <<site, row, orphaned>>
    BY <1>5 DEF ReadExisting
  <2>3. FromSite(t)' /\ Book(l)' /\ (row[l] # None => aside'[t] = None)
        /\ (row[l] = None => aside'[t] = aside[t])
    <3>1. CASE row[l] = None
      BY <1>0, <1>1, <1>5, <2>2, <3>1 DEF ReadExisting
    <3>2. CASE row[l] # None
      <4>1. RestoreCache(t)
        BY <1>0, <1>5, <3>2 DEF ReadExisting
      <4> QED BY <1>0, <2>2, <3>2, <4>1, RestoreKeeps
    <3> QED BY <3>1, <3>2
  <2>4. t \notin orphaned => aside'[t] = None
    BY <2>3 DEF Book
  <2>5. Work(a)'
    BY <1>0, <2>1, <2>2, <2>4 DEF Work, Redownloading
  <2> QED BY <2>3, <2>5
<1>6. CASE SetCacheAside(a)
  <2>1. run'[a] = [run[a] EXCEPT !.at = "plan"]
    BY <1>6 DEF SetCacheAside, Move, Typed, TypeOK
  <2>2. UNCHANGED <<site, row, orphaned>>
    BY <1>6 DEF SetCacheAside
  <2>3. aside'[t] = cache[t] /\ cache'[t] = Nothing
    BY <1>0, <1>6 DEF SetCacheAside, Typed, TypeOK
  <2>4. cache[t] # None /\ Has(Nothing) = {}
    <3>1. cache[t] \in Content
      BY <1>0 DEF Typed, TypeOK
    <3>2. Content \subseteq [Chapters -> Nat]
      BY WebImportAssumption DEF Content
    <3> QED BY <3>1, <3>2, WebImportAssumption DEF Has, Nothing
  <2>5. t \notin orphaned => aside[t] = None
    BY <1>6, <1>0 DEF SetCacheAside, At, Work
  <2>6. FromSite(t)'
    BY <2>2, <2>3, <2>4 DEF FromSite, Has
  <2>7. Redownloading(a) /\ (t \notin orphaned => row[l] # None)
    BY <1>0, <1>6 DEF SetCacheAside, At, Work
  <2>8. Book(l)'
    BY <2>2, <2>3, <2>4, <2>5, <2>7 DEF Book, Backing, Has
  <2>9. Work(a)'
    BY <1>0, <2>1, <2>2, <2>7 DEF Work, Redownloading, ImportState
  <2> QED BY <2>6, <2>8, <2>9
<1>7. CASE Plan(a)
  <2>1. UNCHANGED <<site, cache, aside, row, orphaned>>
    BY <1>7 DEF Plan
  <2>2. /\ run'[a].link = l /\ run'[a].kind = run[a].kind /\ run'[a].range = run[a].range
        /\ run'[a].known = run[a].known /\ run'[a].at = "download"
        /\ run'[a].todo = (Has(site[t]) \cap run[a].range) \ Has(cache[t])
    BY <1>0, <1>7 DEF Plan, Typed, TypeOK, ImportState
  <2>3. Redownloading(a) /\ row[l] # None => Has(row[l].holds) \subseteq Has(site[t]) \cap run[a].range
    BY <1>0 DEF Book, Work, Redownloading
  <2>4. /\ run'[a].todo \subseteq Has(site[t])
        /\ Redownloading(a) /\ row[l] # None
           => Has(row[l].holds) \subseteq Has(cache[t]) \cup run'[a].todo
    BY <2>2, <2>3
  <2>5. Work(a)'
    <3>1. Redownloading(a)' <=> Redownloading(a)
      BY <2>2 DEF Redownloading
    <3>2. t \notin orphaned /\ ~Redownloading(a) => aside[t] = None
      BY <1>0, <1>7 DEF Plan, At, Work
    <3> QED BY <1>0, <1>7, <2>1, <2>2, <2>4, <3>1, <3>2 DEF Work, Plan, At, Has
  <2> QED BY <1>1, <2>1, <2>5
<1>8. CASE Fetch(a)
  <2>1. PICK c \in run[a].todo :
          /\ cache' = [cache EXCEPT ![Title(a)][c] = site[Title(a)][c]]
          /\ run' = [run EXCEPT ![a].todo = @ \ {c}]
    BY <1>8 DEF Fetch
  <2>2. UNCHANGED <<site, aside, row, orphaned>>
    BY <1>8 DEF Fetch
  <2>3. c \in Chapters /\ c \in Has(site[t])
    BY <1>0, <1>8 DEF Fetch, At, Work, ImportState
  <2>4. cache'[t] = [cache[t] EXCEPT ![c] = site[t][c]]
    BY <1>0, <2>1 DEF Typed, TypeOK
  <2>5. Has(cache'[t]) = Has(cache[t]) \cup {c}
    <3>1. cache[t] \in [Chapters -> 0..MaxVersion] /\ site[t][c] # 0
      BY <1>0, <2>3 DEF Typed, TypeOK, Content, Has
    <3> QED BY <2>3, <2>4, <3>1 DEF Has
  <2>6. run'[a] = [run[a] EXCEPT !.todo = @ \ {c}]
    BY <2>1 DEF Typed, TypeOK
  <2>7. FromSite(t)'
    BY <2>2, <2>3, <2>5 DEF FromSite, Has
  <2>8. Book(l)'
    <3>1. Has(Backing(t)) \subseteq Has(Backing(t)')
      BY <2>2, <2>5 DEF Backing
    <3>2. \A x : Has(x)' = Has(x)
      BY DEF Has
    <3> QED BY <2>2, <3>1 DEF Book, Has
  <2>9. Work(a)'
    <3>1. Redownloading(a)' <=> Redownloading(a)
      BY <1>0, <2>6 DEF Redownloading, ImportState
    <3>2. /\ run'[a].todo \subseteq Has(site[t])
          /\ Redownloading(a) /\ row[l] # None
             => Has(row[l].holds) \subseteq Has(cache'[t]) \cup run'[a].todo
      BY <1>0, <1>8, <2>5, <2>6 DEF Fetch, At, Work, ImportState
    <3>3. /\ run'[a].link = l /\ run'[a].kind = run[a].kind
          /\ run'[a].range = run[a].range /\ run'[a].at = "download"
      BY <1>0, <1>8, <2>6 DEF Fetch, At, ImportState
    <3>4. ~Redownloading(a) /\ t \notin orphaned => aside[t] = None
      BY <1>0, <1>8 DEF Fetch, At, Work
    <3>5. row[l] # None /\ run[a].kind = "redownload" => row[l].range = run[a].range
      BY <1>0 DEF Work
    <3>6. Redownloading(a) /\ t \notin orphaned => row[l] # None
      BY <1>0 DEF Work
    <3> QED BY <1>0, <2>2, <3>1, <3>2, <3>3, <3>4, <3>5, <3>6 DEF Work, Has
  <2> QED BY <2>7, <2>8, <2>9
<1>9. CASE Downloaded(a)
  <2>1. run'[a] = [run[a] EXCEPT !.at = "decide"]
    BY <1>9 DEF Downloaded, Move, Typed, TypeOK
  <2>2. UNCHANGED <<site, cache, row, orphaned>>
    BY <1>9 DEF Downloaded
  <2>3. CASE Redownloading(a)
    <3>1. aside'[t] = None
      BY <1>0, <1>9, <2>3 DEF Downloaded, Typed, TypeOK
    <3>2. row[l] # None => Has(row[l].holds) \subseteq Has(cache[t])
      BY <1>0, <1>9, <2>3 DEF Downloaded, At, Work
    <3>3. FromSite(t)'
      BY <2>2, <3>1 DEF FromSite, Has
    <3>4. Book(l)'
      BY <2>2, <3>1, <3>2 DEF Book, Backing, Has
    <3>5. Work(a)'
      BY <1>0, <2>1, <2>2, <3>1 DEF Work, Redownloading, ImportState
    <3> QED BY <3>3, <3>4, <3>5
  <2>4. CASE ~Redownloading(a)
    <3>1. UNCHANGED aside /\ (t \notin orphaned => aside[t] = None)
      BY <1>0, <1>9, <2>4 DEF Downloaded, At, Work
    <3>2. /\ run'[a].link = l /\ run'[a].kind = run[a].kind
          /\ run'[a].range = run[a].range /\ run'[a].at = "decide"
          /\ ~Redownloading(a)'
      BY <1>0, <2>1, <2>4 DEF Redownloading, ImportState
    <3>3. row[l] # None /\ run[a].kind = "redownload" => row[l].range = run[a].range
      BY <1>0 DEF Work
    <3>4. Work(a)'
      BY <1>0, <2>2, <3>1, <3>2, <3>3 DEF Work
    <3> QED BY <1>1, <2>2, <3>1, <3>4
  <2> QED BY <2>3, <2>4
<1>10. CASE Decide(a)
  <2>1. UNCHANGED <<site, cache, aside, row, orphaned>>
    BY <1>10 DEF Decide
  <2>2. CASE End(a)
    BY <1>1, <1>2, <2>1, <2>2
  <2>3. CASE run' = [run EXCEPT ![a].at = "build",
                                ![a].state = Part(cache[Title(a)], run[a].range)]
    <3>1. /\ run'[a].link = l /\ run'[a].kind = run[a].kind /\ run'[a].range = run[a].range
          /\ run'[a].known = run[a].known /\ run'[a].at = "build"
          /\ run'[a].state = Part(cache[t], run[a].range)
      BY <1>0, <2>3 DEF Typed, TypeOK, ImportState
    <3>2. Has(run'[a].state) = Has(cache[t]) \cap run[a].range
      BY <1>0, <3>1, PartTyped DEF Typed, TypeOK
    <3>3. t \notin orphaned => aside[t] = None
      BY <1>0, <1>10 DEF Decide, At, Work
    <3>4. row[l] # None /\ row[l].range = run[a].range /\ t \notin orphaned
          => Has(row[l].holds) \subseteq Has(run'[a].state)
      BY <3>2, <3>3 DEF Book, Backing
    <3>5. Redownloading(a)' <=> Redownloading(a)
      BY <3>1 DEF Redownloading
    <3>6. Work(a)'
      BY <1>0, <2>1, <3>1, <3>2, <3>3, <3>4, <3>5 DEF Work, Has
    <3> QED BY <1>1, <2>1, <3>6
  <2> QED BY <1>10, <2>2, <2>3 DEF Decide
<1>11. CASE Build(a)
  <2>1. UNCHANGED <<site, cache, aside, row, orphaned>>
    BY <1>11 DEF Build
  <2>2. run'[a] = [run[a] EXCEPT !.at = "record"]
    BY <1>11 DEF Build, Move, Typed, TypeOK
  <2>3. Work(a)'
    BY <1>0, <1>11, <2>1, <2>2 DEF Build, At, Work, Redownloading, ImportState, Has
  <2> QED BY <1>1, <2>1, <2>3
<1>12. CASE Record(a)
  <2>1. UNCHANGED <<site, cache, aside, orphaned>> /\ End(a)
    BY <1>12 DEF Record
  <2>2. CASE UNCHANGED row
    BY <1>1, <1>2, <2>1, <2>2
  <2>3. CASE row' = [row EXCEPT ![run[a].link] = [range |-> run[a].range, holds |-> run[a].state]]
    <3>1. row'[l] = [range |-> run[a].range, holds |-> run[a].state]
      BY <1>0, <2>3 DEF Typed, TypeOK
    <3>2. Has(run[a].state) \subseteq Has(cache[t]) \cap run[a].range
      BY <1>0, <1>12 DEF Record, At, Work
    <3>3. t \notin orphaned => aside[t] = None
      BY <1>0, <1>12 DEF Record, At, Work
    <3>4. Book(l)'
      BY <2>1, <3>1, <3>2, <3>3 DEF Book, Backing, FromSite, Has
    <3> QED BY <1>2, <2>1, <3>4, SameSite
  <2> QED BY <1>12, <2>2, <2>3 DEF Record
<1> QED BY <1>3, <1>4, <1>5, <1>6, <1>7, <1>8, <1>9, <1>10, <1>11, <1>12 DEF ImportStep

LEMMA StoppingKeepsItsOwn ==
    ASSUME Typed, NEW a \in Runs, DownloadStops(a) \/ Fails(a), NEW l, l = run[a].link,
           NEW t, t = TitleOf[l], FromSite(t), Book(l), Work(a)
    PROVE  /\ FromSite(t)' /\ Book(l)'
           /\ ~At(a, "idle")' => Work(a)'
<1>0. /\ run[a] \in ImportState /\ ~At(a, "idle") /\ l \in Links /\ t \in Titles
      /\ t = Title(a)
  BY EndsOrGoesOn, RunFacts DEF At, Title
<1>1. UNCHANGED <<site, row, orphaned>>
  BY DEF DownloadStops, Fails
<1>2. FromSite(t)' /\ Book(l)'
  <2>1. CASE RestoreCache(t)
    BY <1>0, <1>1, <2>1, RestoreKeeps
  <2>2. CASE UNCHANGED <<cache, aside>>
    BY <1>1, <2>2, SameSite, SameBook
  <2> QED BY <1>0, <2>1, <2>2 DEF DownloadStops, Fails
<1>3. CASE End(a)
  BY <1>2, <1>3 DEF End, At, Idle, Typed, TypeOK
<1>4. CASE /\ DownloadStops(a) /\ ~Redownloading(a)
           /\ Move(a, "decide") /\ UNCHANGED <<cache, aside>>
  <2>1. /\ run'[a].link = l /\ run'[a].kind = run[a].kind
        /\ run'[a].range = run[a].range /\ run'[a].at = "decide"
        /\ ~Redownloading(a)'
    BY <1>0, <1>4 DEF Move, Typed, TypeOK, Redownloading, ImportState
  <2>2. t \notin orphaned => aside[t] = None
    BY <1>0, <1>4 DEF DownloadStops, At, Work
  <2>3. row[l] # None /\ run[a].kind = "redownload" => row[l].range = run[a].range
    BY <1>0 DEF Work
  <2>4. Work(a)'
    BY <1>0, <1>1, <1>4, <2>1, <2>2, <2>3 DEF Work
  <2> QED BY <1>2, <2>4
<1> QED BY <1>3, <1>4 DEF DownloadStops, Fails

LEMMA ImportKept ==
    ASSUME EachItsTitle, Typed, Claims, Kept, NEW a \in Runs,
           ImportStep(a) \/ DownloadStops(a) \/ Fails(a)
    PROVE  Kept'
<1> PICK l : l = run[a].link
  OBVIOUS
<1> PICK t : t = TitleOf[l]
  OBVIOUS
<1>1. ~At(a, "idle") /\ l \in Links /\ t \in Titles /\ t = Title(a)
  BY EndsOrGoesOn, RunFacts DEF At, Title
<1>2. FromSite(t)' /\ Book(l)' /\ (~At(a, "idle")' => Work(a)')
  BY <1>1, ImportKeepsItsOwn, StoppingKeepsItsOwn DEF Kept
<1>3. /\ UNCHANGED <<site, orphaned>>
      /\ \A m \in Links \ {l} : row'[m] = row[m]
      /\ \A u \in Titles \ {t} : cache'[u] = cache[u] /\ aside'[u] = aside[u]
      /\ \A b \in Runs \ {a} : run'[b] = run[b]
  BY <1>1, ImportTouches
<1>4. ASSUME NEW u \in Titles PROVE FromSite(u)'
  BY <1>2, <1>3, SameSite DEF Kept
<1>5. ASSUME NEW m \in Links PROVE Book(m)'
  <2>1. CASE m = l
    BY <1>2, <2>1
  <2>2. CASE m # l
    <3>1. TitleOf[m] \in Titles \ {t}
      BY <1>1, <2>2, WebImportAssumption DEF EachItsTitle
    <3> QED BY <1>3, <2>2, <3>1, SameBook DEF Kept
  <2> QED BY <2>1, <2>2
<1>6. ASSUME NEW b \in Runs, ~At(b, "idle")' PROVE Work(b)'
  <2>1. CASE b = a
    BY <1>2, <1>6, <2>1
  <2>2. CASE b # a
    <3>1. run'[b] = run[b] /\ ~At(b, "idle")
      BY <1>3, <1>6, <2>2 DEF At
    <3>2. run[b].link \in Links \ {l} /\ Title(b) \in Titles \ {t}
      BY <1>1, <2>2, <3>1, RunFacts DEF Claims, EachItsTitle, Title, At
    <3> QED BY <1>3, <3>1, <3>2, SameWork DEF Kept
  <2> QED BY <2>1, <2>2
<1> QED BY <1>4, <1>5, <1>6 DEF Kept

\* An import that begins.
LEMMA BeginsKept ==
    ASSUME Typed, Kept, NEW a \in Runs, NEW l \in Links, NEW kind \in Kinds, NEW range,
           kind = "redownload" => row[l].range = range, Begins(a, l, kind, range),
           UNCHANGED <<site, cache, aside, row, orphaned>>
    PROVE  Kept'
<1>1. run'[a] = [Idle EXCEPT !.at = "webSource", !.link = l, !.kind = kind, !.range = range]
  BY DEF Begins, Typed, TypeOK
<1>2. /\ run'[a].at = "webSource" /\ run'[a].link = l /\ run'[a].kind = kind
      /\ run'[a].range = range /\ run'[a].known = None
  BY <1>1 DEF Idle
<1>3. Work(a)'
  BY <1>2 DEF Work, Redownloading
<1>4. ASSUME NEW b \in Runs, b # a, ~At(b, "idle")' PROVE Work(b)'
  <2>1. run'[b] = run[b]
    BY <1>4 DEF Begins, Typed, TypeOK
  <2> QED BY <1>4, <2>1, SameWork DEF Kept, At
<1>5. (\A t \in Titles : FromSite(t)') /\ (\A m \in Links : Book(m)')
  BY SameSite, SameBook DEF Kept
<1> QED BY <1>3, <1>4, <1>5 DEF Kept

LEMMA StartKept ==
    ASSUME Typed, Kept, NEW r \in Requests, NEW l \in Links,
           StartAgain(r, l) \/ \E range \in Ranges : StartImport(r, l, range)
    PROVE  Kept'
<1>1. r \in Runs /\ UNCHANGED <<site, cache, aside, row, orphaned>>
  BY DEF Runs, StartAgain, StartImport
<1>2. PICK kind, range : /\ kind \in Kinds /\ Begins(r, l, kind, range)
                         /\ kind = "redownload" => row[l].range = range
  BY DEF StartAgain, StartImport, Kinds
<1> QED BY <1>1, <1>2, BeginsKept

\* Nothing but what the sweep has to do changes.
LEMMA SameKept ==
    ASSUME Kept, UNCHANGED <<site, cache, aside, row, run, orphaned>> PROVE Kept'
<1>1. ASSUME NEW a \in Runs, ~At(a, "idle")' PROVE Work(a)'
  BY <1>1, SameWork DEF Kept, At
<1>2. (\A t \in Titles : FromSite(t)') /\ (\A m \in Links : Book(m)')
  BY SameSite, SameBook DEF Kept
<1> QED BY <1>1, <1>2 DEF Kept

LEMMA SweepKept == ASSUME Typed, Kept, SweepStep PROVE Kept'
<1>1. CASE UNCHANGED <<site, cache, aside, row, run, orphaned>>
  BY <1>1, SameKept
<1>2. ASSUME NEW l \in Links, CheckNext(l), Begins(Sweeper, l, "check", toCheck[l])
      PROVE  Kept'
  <2>1. Sweeper \in Runs /\ UNCHANGED <<site, cache, aside, row, orphaned>>
    BY <1>2 DEF CheckNext, Runs
  <2> QED BY <1>2, <2>1, BeginsKept DEF Kinds
<1> QED BY <1>1, <1>2 DEF SweepStep, BeginSweep, EndSweep, CheckNext

LEMMA PurgeKept == ASSUME Typed, Kept, NEW l \in Links, PurgeRows(l) PROVE Kept'
<1> DEFINE t == TitleOf[l]
<1>1. /\ UNCHANGED <<site, cache, aside, run>>
      /\ row' = [row EXCEPT ![l] = None]
      /\ orphaned \subseteq orphaned'
      /\ aside[t] # None => t \in orphaned'
      /\ \A a \in Runs : run[a].link = l /\ Redownloading(a) => t \in orphaned'
  BY DEF PurgeRows
<1>2. row'[l] = None /\ \A m \in Links \ {l} : row'[m] = row[m]
  BY <1>1 DEF Typed, TypeOK
<1>3. \A u \in Titles : FromSite(u)'
  BY <1>1, SameSite DEF Kept
<1>4. ASSUME NEW m \in Links PROVE Book(m)'
  BY <1>1, <1>2 DEF Kept, Book, Backing, Has
<1>5. ASSUME NEW a \in Runs, ~At(a, "idle")' PROVE Work(a)'
  <2>1. ~At(a, "idle") /\ Work(a) /\ run'[a] = run[a] /\ run[a].link \in Links
    BY <1>1, <1>5, RunFacts DEF Kept, At
  <2>2. Redownloading(a)' <=> Redownloading(a)
    BY <2>1 DEF Redownloading
  <2>3. CASE run[a].link = l
    BY <1>1, <1>2, <2>1, <2>2, <2>3 DEF Work, Has
  <2>4. CASE run[a].link # l
    BY <1>1, <1>2, <2>1, <2>2, <2>4 DEF Work, Has
  <2> QED BY <2>3, <2>4
<1> QED BY <1>3, <1>4, <1>5 DEF Kept

LEMMA PublishKept ==
    ASSUME Typed, Kept, NEW u \in Titles, NEW c \in Chapters, Publish(u, c) PROVE Kept'
<1>1. UNCHANGED <<cache, aside, row, run, orphaned>>
  BY DEF Publish
<1>2. \A t \in Titles : Has(site[t]) \subseteq Has(site'[t])
  BY WebImportAssumption DEF Publish, Typed, TypeOK, Content, Has
<1>3. \A t \in Titles : FromSite(t)'
  BY <1>1, <1>2 DEF Kept, FromSite, Has
<1>4. ASSUME NEW m \in Links PROVE Book(m)'
  <2>1. TitleOf[m] \in Titles
    BY WebImportAssumption
  <2>2. Has(site[TitleOf[m]]) \subseteq Has(site'[TitleOf[m]])
    BY <1>2, <2>1
  <2> QED BY <1>1, <2>2 DEF Kept, Book, Backing, Has
<1>5. ASSUME NEW a \in Runs, ~At(a, "idle")' PROVE Work(a)'
  <2>1. ~At(a, "idle") /\ Work(a) /\ Title(a) \in Titles
    BY <1>1, <1>5, RunFacts DEF Kept, At
  <2>2. Has(site[Title(a)]) \subseteq Has(site'[Title(a)])
    BY <1>2, <2>1
  <2> QED BY <1>1, <2>1, <2>2 DEF Work, Redownloading, Title, Has
<1> QED BY <1>3, <1>4, <1>5 DEF Kept

LEMMA NextKept == ASSUME EachItsTitle PROVE Typed /\ Claims /\ Kept /\ [Next]_vars => Kept'
<1> SUFFICES ASSUME Typed, Claims, Kept, [Next]_vars PROVE Kept'
  OBVIOUS
<1>1. CASE \E a \in Runs : ImportStep(a) \/ DownloadStops(a) \/ Fails(a)
  BY <1>1, ImportKept
<1>2. CASE \E r \in Requests, l \in Links :
             StartAgain(r, l) \/ \E range \in Ranges : StartImport(r, l, range)
  BY <1>2, StartKept
<1>3. CASE SweepStep
  BY <1>3, SweepKept
<1>4. CASE \E l \in Links : PurgeRows(l)
  BY <1>4, PurgeKept
<1>5. CASE \E t \in Titles, c \in Chapters : Publish(t, c)
  BY <1>5, PublishKept
<1>6. CASE (\E t \in Titles : PurgeFiles(t)) \/ UNCHANGED vars
  BY <1>6, SameKept DEF PurgeFiles, vars
<1>7. CASE Crash
  <2>1. \A a \in Runs : At(a, "idle")'
    BY <1>7 DEF Crash, At, Idle
  <2>2. (\A t \in Titles : FromSite(t)') /\ (\A m \in Links : Book(m)')
    BY <1>7, SameSite, SameBook DEF Kept, Crash
  <2> QED BY <2>1, <2>2 DEF Kept
<1> QED BY <1>1, <1>2, <1>3, <1>4, <1>5, <1>6, <1>7 DEF Next

LEMMA KeptChapters == ASSUME Typed, Kept PROVE KeepsChapters
<1> SUFFICES ASSUME NEW l \in Links, row[l] # None, TitleOf[l] \notin orphaned
             PROVE  Has(row[l].holds) \subseteq
                      Has(cache[TitleOf[l]]) \cup
                      (IF aside[TitleOf[l]] = None THEN {} ELSE Has(aside[TitleOf[l]]))
  BY DEF KeepsChapters
<1> QED BY DEF Kept, Book, Backing

\* However often a book is downloaded again, and wherever that fails or is interrupted,
\* the chapters it holds are in its cache or set aside beside it, unless it is purged in
\* the middle (setCacheAside, restoreCache and dropCacheAside, webimport.go).
THEOREM ChaptersAreKept == ASSUME EachItsTitle PROVE Spec => []KeepsChapters
<1>1. Init => Claims /\ Kept
  BY InitClaims, InitKept
<1>2. Typed /\ Kept => KeepsChapters
  BY KeptChapters
<1>3. Typed /\ Claims /\ Kept /\ [Next]_vars => Kept'
  BY NextKept
<1> QED BY <1>1, <1>2, <1>3, InitTyped, NextTyped, NextClaims, PTL DEF Spec

\* One step does not shorten a book.
Longer == \A l \in Links :
    (/\ row[l] # None /\ row'[l] # None /\ row[l].range = row'[l].range
     /\ TitleOf[l] \notin orphaned)
    => Has(row[l].holds) \subseteq Has(row'[l].holds)

LEMMA StepLonger ==
    ASSUME Typed, Kept, [Next]_vars PROVE Longer
<1>1. CASE UNCHANGED row
  BY <1>1 DEF Longer, Has
<1>2. ASSUME NEW a \in Runs, Record(a), ~UNCHANGED row PROVE Longer
  <2>1. /\ run[a].link \in Links /\ Work(a)
        /\ row' = [row EXCEPT ![run[a].link] =
                     [range |-> run[a].range, holds |-> run[a].state]]
    BY <1>2, RunFacts DEF Record, At, Kept
  <2>2. ASSUME NEW l \in Links, l # run[a].link PROVE row'[l] = row[l]
    BY <2>1, <2>2 DEF Typed, TypeOK
  <2>3. row'[run[a].link] = [range |-> run[a].range, holds |-> run[a].state]
    BY <2>1 DEF Typed, TypeOK
  <2>4. run[a].at = "record"
    BY <1>2 DEF Record, At
  <2> QED BY <2>1, <2>2, <2>3, <2>4 DEF Longer, Work, Has
<1>3. ASSUME NEW l \in Links, PurgeRows(l) PROVE Longer
  BY <1>3 DEF PurgeRows, Longer, Typed, TypeOK, Has
<1> QED BY <1>1, <1>2, <1>3 DEF Next, ImportStep, WebSource, MarkWebSource, ReadExisting,
   SetCacheAside, Plan, Fetch, Downloaded, Decide, Build, DownloadStops, Fails, StartImport,
   StartAgain, PurgeFiles, Publish, SweepStep, BeginSweep, CheckNext, EndSweep, Crash, vars

\* A book that is assembled again over the same range has every chapter it had, whatever
\* failed on the way (the re-download that is undone when it fails, docs/NOTES.md).
THEOREM BooksNeverShrink == ASSUME EachItsTitle PROVE Spec => NeverShorter
<1>1. Init => Claims /\ Kept
  BY InitClaims, InitKept
<1>2. Typed /\ Kept /\ [Next]_vars => Longer
  BY StepLonger
<1>3. Typed /\ Claims /\ Kept /\ [Next]_vars => Kept'
  BY NextKept
<1>4. Longer => [Longer]_vars
  OBVIOUS
<1>5. Spec => [][Longer]_vars
  BY <1>1, <1>2, <1>3, <1>4, InitTyped, NextTyped, NextClaims, PTL DEF Spec
<1> QED BY <1>5 DEF NeverShorter, Longer
=============================================================================
