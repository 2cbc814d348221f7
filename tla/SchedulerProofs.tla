-------------------------- MODULE SchedulerProofs --------------------------
(***************************************************************************)
(* For any libraries, books, requests and floor: a scan that is skipped    *)
(* would have found nothing, and a book is flagged missing only if its     *)
(* library was there without it.                                           *)
(***************************************************************************)
EXTENDS Scheduler, TLAPS

\* Every change of metadata.db that is or will be made was a change of the world.
Bounded == \A s \in Sources :
    library[s].sig + (IF library[s].saved THEN 0 ELSE 1) <= changes + 1

Typed == TypeOK /\ Bounded

-----------------------------------------------------------------------------
(* Types *)

LEMMA InitTyped == Init => Typed
BY SchedulerAssumption DEF Init, Typed, TypeOK, Bounded, Idle, Nothing, Contents, Row,
   ScanState, Places, Statuses, Stamps, Scanners

\* What most steps do not disturb.
LEMMA BoundedKept ==
    ASSUME Typed, UNCHANGED library, changes' \in {changes, changes + 1}
    PROVE  Bounded'
<1> SUFFICES ASSUME NEW s \in Sources
             PROVE  library[s].sig + (IF library[s].saved THEN 0 ELSE 1) <= changes' + 1
  BY DEF Bounded
<1>1. library[s].sig \in Int /\ changes \in Int
  BY SchedulerAssumption DEF Typed, TypeOK, Stamps
<1>2. library[s].sig + (IF library[s].saved THEN 0 ELSE 1) <= changes + 1
  BY DEF Typed, Bounded
<1> QED BY <1>1, <1>2

LibraryState == [books : Contents, sig : Stamps, saved : BOOLEAN, mounted : BOOLEAN]

\* A step that changes one library.
LEMMA OneLibrary ==
    ASSUME Typed, NEW s \in Sources, NEW l \in LibraryState,
           library' = [library EXCEPT ![s] = l],
           l.sig + (IF l.saved THEN 0 ELSE 1) <= changes' + 1,
           changes' \in {changes, changes + 1}
    PROVE  library' \in [Sources -> LibraryState] /\ Bounded'
<1>1. library' \in [Sources -> LibraryState]
  BY DEF Typed, TypeOK, LibraryState
<1>2. ASSUME NEW x \in Sources
      PROVE  library'[x].sig + (IF library'[x].saved THEN 0 ELSE 1) <= changes' + 1
  <2>1. CASE x = s
    BY <2>1 DEF Typed, TypeOK
  <2>2. CASE x # s
    <3>1. library[x].sig \in Int /\ changes \in Int
      BY SchedulerAssumption DEF Typed, TypeOK, Stamps
    <3>2. library[x].sig + (IF library[x].saved THEN 0 ELSE 1) <= changes + 1
      BY DEF Typed, Bounded
    <3>3. library'[x] = library[x]
      BY <2>2 DEF Typed, TypeOK
    <3> QED BY <3>1, <3>2, <3>3
  <2> QED BY <2>1, <2>2
<1> QED BY <1>1, <1>2 DEF Bounded

LEMMA LibraryFacts ==
    ASSUME Typed, NEW s \in Sources
    PROVE  /\ library[s] \in LibraryState
           /\ library[s].sig \in Int /\ changes \in Int
           /\ library[s].sig + (IF library[s].saved THEN 0 ELSE 1) <= changes + 1
BY SchedulerAssumption DEF Typed, TypeOK, Bounded, LibraryState, Stamps

LEMMA IdleTyped == Idle \in ScanState /\ Nothing \in Contents
BY SchedulerAssumption DEF Idle, Nothing, Contents, ScanState, Places, Statuses, Stamps

\* Beginning, moving and ending a scan.
LEMMA BeginsTyped ==
    ASSUME Typed, NEW a \in Scanners, NEW s \in Sources, NEW f \in BOOLEAN,
           NEW c \in BOOLEAN, Begins(a, s, f, c)
    PROVE  /\ scan' \in [Scanners -> ScanState]
           /\ overlapped' \subseteq Sources
<1>1. [Idle EXCEPT !.at = "begin", !.source = s, !.force = f, !.confirm = c] \in ScanState
  BY IdleTyped DEF ScanState, Places
<1> QED BY <1>1 DEF Typed, TypeOK, Begins

LEMMA EndTyped ==
    ASSUME Typed, NEW a \in Scanners, End(a)
    PROVE  /\ scan' \in [Scanners -> ScanState]
           /\ worker' \in [Sources -> {"none", "waiting", "awake", "leaving", "slot", "scanning"}]
BY IdleTyped DEF Typed, TypeOK, End

LEMMA StatusTyped ==
    ASSUME Typed, NEW s \in Sources, NEW status \in Statuses, SetStatus(s, status)
    PROVE  source' \in [Sources -> [added : BOOLEAN, enabled : BOOLEAN,
                                    status : Statuses, sig : Stamps]]
BY DEF Typed, TypeOK, SetStatus

\* A scan that runs is of a source.
Sourced == \A a \in Scanners : scan[a].at # "idle" => scan[a].source \in Sources

LEMMA ScanTyped ==
    ASSUME Typed, Sourced, NEW a \in Scanners, ScanStep(a)
    PROVE  Typed'
<1>0. scan[a] \in ScanState
  BY DEF Typed, TypeOK
<1>1. CASE ReadSource(a)
  BY <1>0, <1>1 DEF ReadSource, At, Typed, TypeOK, Bounded, ScanState, Places, Sourced
<1>2. CASE StatLibrary(a)
  <2> DEFINE s == scan[a].source
  <2>1. s \in Sources
    BY <1>2 DEF StatLibrary, At, Sourced
  <2>2. CASE Reachable(s)
    <3>1. library[s].sig \in Stamps
      BY <2>1 DEF Typed, TypeOK
    <3>2. scan' \in [Scanners -> ScanState]
      BY <1>0, <1>2, <2>2, <3>1 DEF StatLibrary, Typed, TypeOK, ScanState, Places
    <3> QED BY <1>2, <2>2, <3>2 DEF StatLibrary, Typed, TypeOK, Bounded
  <2>3. CASE ~Reachable(s)
    <3>1. SetStatus(s, "failed") /\ End(a)
      BY <1>2, <2>3 DEF StatLibrary
    <3>2. "failed" \in Statuses
      BY DEF Statuses
    <3> QED BY <1>2, <2>1, <3>1, <3>2, StatusTyped, EndTyped
            DEF StatLibrary, Typed, TypeOK, Bounded
  <2> QED BY <2>2, <2>3
<1>3. CASE Compare(a)
  <2> DEFINE s == scan[a].source
  <2>1. s \in Sources
    BY <1>3 DEF Compare, At, Sourced
  <2>2. CASE End(a) /\ UNCHANGED source
    BY <1>3, <2>2, EndTyped DEF Compare, Typed, TypeOK, Bounded
  <2>3. CASE /\ SetStatus(s, "running")
             /\ scan' = [scan EXCEPT ![a].at = "open", ![a].status = "running"]
             /\ UNCHANGED worker
    <3>1. "running" \in Statuses
      BY DEF Statuses
    <3>2. scan' \in [Scanners -> ScanState]
      BY <1>0, <2>3 DEF Typed, TypeOK, ScanState, Places, Statuses
    <3> QED BY <1>3, <2>1, <2>3, <3>1, <3>2, StatusTyped DEF Compare, Typed, TypeOK, Bounded
  <2> QED BY <1>3, <2>2, <2>3 DEF Compare
<1>4. CASE OpenLibrary(a)
  <2> DEFINE s == scan[a].source
  <2>1. s \in Sources
    BY <1>4 DEF OpenLibrary, At, Sourced
  <2>2. CASE Reachable(s)
    <3>1. Found(s) \in Contents
      BY <2>1, SchedulerAssumption DEF Found, Nothing, Contents, Stamps, Typed, TypeOK
    <3>2. scan' = [scan EXCEPT ![a].at = "stored", ![a].read = Found(s)]
      BY <1>4, <2>2 DEF OpenLibrary
    <3>3. scan' \in [Scanners -> ScanState]
      BY <1>0, <3>1, <3>2 DEF Typed, TypeOK, ScanState, Places
    <3> QED BY <1>4, <2>2, <3>3 DEF OpenLibrary, Typed, TypeOK, Bounded
  <2>3. CASE ~Reachable(s)
    <3>1. SetStatus(s, "failed") /\ End(a)
      BY <1>4, <2>3 DEF OpenLibrary
    <3>2. "failed" \in Statuses
      BY DEF Statuses
    <3> QED BY <1>4, <2>1, <3>1, <3>2, StatusTyped, EndTyped
            DEF OpenLibrary, Typed, TypeOK, Bounded
  <2> QED BY <2>2, <2>3
<1>5. CASE ReadStored(a)
  <2> DEFINE s == scan[a].source
             changed == Changed(rows[s], scan[a].read)
             write == [b \in CBooks |-> IF b \in changed THEN scan[a].read[b] ELSE 0]
             gone == Vanished(rows[s], scan[a].read)
  <2>1. s \in Sources
    BY <1>5 DEF ReadStored, At, Sourced
  <2>2. CASE SetStatus(s, "suspicious") /\ End(a)
    <3>1. "suspicious" \in Statuses
      BY DEF Statuses
    <3> QED BY <1>5, <2>1, <2>2, <3>1, StatusTyped, EndTyped
            DEF ReadStored, Typed, TypeOK, Bounded
  <2>3. CASE /\ scan' = [scan EXCEPT ![a].at = "commit", ![a].write = write, ![a].gone = gone]
             /\ UNCHANGED <<source, worker>>
    <3>1. write \in Contents
      <4> HIDE DEF changed
      <4> QED BY <1>0, SchedulerAssumption DEF ScanState, Contents, Stamps
    <3>2. gone \in SUBSET CBooks
      BY DEF Vanished, Known
    <3>3. scan' \in [Scanners -> ScanState]
      <4> HIDE DEF write, gone
      <4> QED BY <1>0, <2>3, <3>1, <3>2 DEF Typed, TypeOK, ScanState, Places
    <3> QED BY <1>5, <2>3, <3>3 DEF ReadStored, Typed, TypeOK, Bounded
  <2> QED BY <1>5, <2>2, <2>3 DEF ReadStored
<1>6. CASE Commit(a)
  <2> DEFINE s == scan[a].source
             after == [b \in CBooks |->
                IF b \in scan[a].gone THEN [rows[s][b] EXCEPT !.missing = TRUE]
                ELSE IF scan[a].write[b] # 0
                THEN [stamp |-> scan[a].write[b], missing |-> FALSE]
                ELSE rows[s][b]]
  <2>1. s \in Sources
    BY <1>6 DEF Commit, At, Sourced
  <2>2. after \in [CBooks -> Row]
    <3>1. rows[s] \in [CBooks -> Row]
      BY <2>1 DEF Typed, TypeOK
    <3>2. scan[a].write \in Contents
      BY <1>0 DEF ScanState
    <3> QED BY <3>1, <3>2 DEF Row, Contents
  <2>3. rows' \in [Sources -> [CBooks -> Row]]
    <3>1. rows' = [rows EXCEPT ![s] = after]
      BY <1>6 DEF Commit
    <3> HIDE DEF after
    <3> QED BY <2>1, <2>2, <3>1 DEF Typed, TypeOK
  <2>4. scan' \in [Scanners -> ScanState]
    <3>1. scan' = [scan EXCEPT ![a].at = "save", ![a].read = Nothing,
                               ![a].write = Nothing, ![a].gone = {}]
      BY <1>6 DEF Commit
    <3> QED BY <1>0, <3>1, IdleTyped DEF Typed, TypeOK, ScanState, Places
  <2> QED BY <1>6, <2>3, <2>4 DEF Commit, Typed, TypeOK, Bounded
<1>7. CASE SaveSignature(a)
  <2>1. scan[a].sig \in Stamps /\ scan[a].source \in Sources
    BY <1>0, <1>7 DEF SaveSignature, At, Sourced, ScanState
  <2>2. scan' \in [Scanners -> ScanState]
    BY <1>0, <1>7 DEF SaveSignature, Move, Typed, TypeOK, ScanState, Places
  <2> QED BY <1>7, <2>1, <2>2 DEF SaveSignature, Signature, Typed, TypeOK, Bounded
<1>8. CASE Finish(a)
  <2>1. scan[a].source \in Sources /\ "ok" \in Statuses
    BY <1>8 DEF Finish, At, Sourced, Statuses
  <2> QED BY <1>8, <2>1, StatusTyped, EndTyped DEF Finish, Typed, TypeOK, Bounded
<1> QED BY <1>1, <1>2, <1>3, <1>4, <1>5, <1>6, <1>7, <1>8 DEF ScanStep

LEMMA NextTyped ==
    ASSUME Typed, Sourced, Next
    PROVE  Typed'
<1>1. ASSUME NEW s \in Sources, WorkerStep(s)
      PROVE  Typed'
  BY <1>1 DEF WorkerStep, Wake, CheckSource, Leave, Typed, TypeOK, Bounded
<1>2. ASSUME NEW s \in Sources, TakeSlot(s)
      PROVE  Typed'
  <2>1. s \in Scanners
    BY DEF Scanners
  <2>2. Begins(s, s, FALSE, FALSE)
    BY <1>2 DEF TakeSlot
  <2> QED BY <1>2, <2>1, <2>2, BeginsTyped DEF TakeSlot, Typed, TypeOK, Bounded
<1>3. ASSUME NEW s \in Sources, AddSource(s) \/ ToggleSource(s)
      PROVE  Typed'
  <2>1. UNCHANGED library /\ changes' = changes + 1 /\ changes < MaxChanges
    BY <1>3 DEF AddSource, ToggleSource, Change
  <2>2. changes' \in 0..MaxChanges /\ Bounded'
    BY <2>1, BoundedKept, SchedulerAssumption DEF Typed, TypeOK
  <2>3. source' \in [Sources -> [added : BOOLEAN, enabled : BOOLEAN,
                                 status : Statuses, sig : Stamps]]
    <3>1. CASE AddSource(s)
      BY <3>1 DEF AddSource, Typed, TypeOK
    <3>2. CASE ToggleSource(s)
      <4>1. PICK on \in BOOLEAN : source' = [source EXCEPT ![s].enabled = on]
        BY <3>2 DEF ToggleSource
      <4> QED BY <4>1 DEF Typed, TypeOK
    <3> QED BY <1>3, <3>1, <3>2
  <2>4. pending' \subseteq registered
    BY <1>3 DEF AddSource, ToggleSource, Trigger, Typed, TypeOK
  <2> QED BY <1>3, <2>2, <2>3, <2>4 DEF AddSource, ToggleSource, Typed, TypeOK
<1>4. ASSUME NEW s \in Sources, Checkpoint(s) \/ Unmount(s) \/ Mount(s)
      PROVE  Typed'
  <2>1. CASE Checkpoint(s)
    <3> DEFINE l == [library[s] EXCEPT !.saved = TRUE, !.sig = @ + 1]
    <3>1. library[s].sig + 1 <= changes + 1 /\ library[s].sig + 1 \in Stamps
      BY <2>1, LibraryFacts, SchedulerAssumption
         DEF Checkpoint, Typed, TypeOK, LibraryState, Stamps
    <3>2. library' = [library EXCEPT ![s] = l] /\ UNCHANGED changes
      BY <2>1 DEF Checkpoint, Typed, TypeOK
    <3>3. l \in LibraryState /\ l.saved /\ l.sig = library[s].sig + 1
      BY <3>1, LibraryFacts DEF LibraryState
    <3>4. l.sig + (IF l.saved THEN 0 ELSE 1) <= changes' + 1
      BY <3>1, <3>2, <3>3, LibraryFacts
    <3>5. library' \in [Sources -> LibraryState] /\ Bounded'
      <4> HIDE DEF l
      <4> QED BY <3>2, <3>3, <3>4, OneLibrary
    <3> QED BY <2>1, <3>5 DEF Checkpoint, Typed, TypeOK, LibraryState
  <2>2. ASSUME NEW m \in BOOLEAN, library' = [library EXCEPT ![s].mounted = m],
               changes' \in {changes, changes + 1}
        PROVE  library' \in [Sources -> LibraryState] /\ Bounded'
    <3> DEFINE l == [library[s] EXCEPT !.mounted = m]
    <3>1. library' = [library EXCEPT ![s] = l]
      BY <2>2 DEF Typed, TypeOK
    <3>2. l \in LibraryState /\ l.saved = library[s].saved /\ l.sig = library[s].sig
      BY LibraryFacts DEF LibraryState
    <3>3. l.sig + (IF l.saved THEN 0 ELSE 1) <= changes' + 1
      BY <2>2, <3>2, LibraryFacts
    <3> HIDE DEF l
    <3> QED BY <2>2, <3>1, <3>2, <3>3, OneLibrary
  <2>3. CASE Unmount(s)
    <3>1. changes' \in {changes, changes + 1} /\ changes' \in 0..MaxChanges
      BY <2>3, SchedulerAssumption DEF Unmount, Change, Typed, TypeOK
    <3>2. library' \in [Sources -> LibraryState] /\ Bounded'
      BY <2>2, <2>3, <3>1 DEF Unmount
    <3> QED BY <2>3, <3>1, <3>2 DEF Unmount, Typed, TypeOK, LibraryState
  <2>4. CASE Mount(s)
    <3>1. library' \in [Sources -> LibraryState] /\ Bounded'
      BY <2>2, <2>4 DEF Mount
    <3> QED BY <2>4, <3>1 DEF Mount, Typed, TypeOK, LibraryState
  <2> QED BY <1>4, <2>1, <2>3, <2>4
<1>5. ASSUME NEW a \in Scanners, ScanStep(a)
      PROVE  Typed'
  BY <1>5, ScanTyped
<1>6. ASSUME NEW a \in Scanners, ScanFails(a)
      PROVE  Typed'
  <2>1. scan[a].source \in Sources /\ "failed" \in Statuses
    BY <1>6 DEF ScanFails, At, Sourced, Statuses
  <2>2. End(a) /\ Change("fail")
    BY <1>6 DEF ScanFails
  <2>3. source' \in [Sources -> [added : BOOLEAN, enabled : BOOLEAN,
                                 status : Statuses, sig : Stamps]]
    BY <1>6, <2>1, StatusTyped DEF ScanFails, Typed, TypeOK
  <2>4. changes' \in 0..MaxChanges /\ Bounded'
    BY <1>6, <2>2, BoundedKept, SchedulerAssumption DEF ScanFails, Change, Typed, TypeOK
  <2> QED BY <1>6, <2>2, <2>3, <2>4, EndTyped DEF ScanFails, Typed, TypeOK
<1>7. ASSUME NEW r \in Requests, NEW s \in Sources, ScanNow(r, s)
      PROVE  Typed'
  <2>1. r \in Scanners
    BY DEF Scanners
  <2>2. PICK confirm \in BOOLEAN : Begins(r, s, TRUE, confirm)
    BY <1>7 DEF ScanNow
  <2>3. changes' \in 0..MaxChanges /\ Bounded'
    BY <1>7, BoundedKept, SchedulerAssumption DEF ScanNow, Change, Typed, TypeOK
  <2>4. scan' \in [Scanners -> ScanState] /\ overlapped' \subseteq Sources
    BY <2>1, <2>2, BeginsTyped
  <2> QED BY <1>7, <2>3, <2>4 DEF ScanNow, Typed, TypeOK
<1>8. ASSUME NEW s \in Sources, NEW b \in CBooks, Edit(s, b)
      PROVE  Typed'
  <2>1. changes < MaxChanges /\ changes' = changes + 1 /\ changes' \in 0..MaxChanges
    BY <1>8, SchedulerAssumption DEF Edit, Change, Typed, TypeOK
  <2>2. library[s].books \in Contents /\ library[s].sig \in Stamps
    BY DEF Typed, TypeOK
  <2>3. [library[s].books EXCEPT ![b] = changes' + 1] \in Contents
        /\ [library[s].books EXCEPT ![b] = 0] \in Contents
    BY <2>1, <2>2, LibraryFacts, SchedulerAssumption DEF Contents, Stamps
  <2>4. PICK n \in {0, changes' + 1} :
            \/ /\ library[s].saved
               /\ library' = [library EXCEPT ![s].books[b] = n, ![s].sig = @ + 1]
            \/ library' = [library EXCEPT ![s].books[b] = n, ![s].saved = FALSE]
    BY <1>8 DEF Edit
  <2>5. [library[s].books EXCEPT ![b] = n] \in Contents
    BY <2>3
  <2>6. library' \in [Sources -> LibraryState] /\ Bounded'
    <3>1. CASE /\ library[s].saved
               /\ library' = [library EXCEPT ![s].books[b] = n, ![s].sig = @ + 1]
      <4> DEFINE l == [library[s] EXCEPT !.books[b] = n, !.sig = @ + 1]
      <4>1. library' = [library EXCEPT ![s] = l]
        BY <3>1 DEF Typed, TypeOK
      <4>2. library[s].sig + 1 <= changes' + 1 /\ library[s].sig + 1 \in Stamps
        BY <2>1, <2>2, <3>1, LibraryFacts, SchedulerAssumption DEF Stamps
      <4>3. l \in LibraryState /\ l.saved /\ l.sig = library[s].sig + 1
        BY <2>5, <3>1, <4>2, LibraryFacts DEF LibraryState
      <4>4. l.sig + (IF l.saved THEN 0 ELSE 1) <= changes' + 1
        BY <2>1, <4>2, <4>3, LibraryFacts
      <4> HIDE DEF l
      <4> QED BY <2>1, <4>1, <4>3, <4>4, OneLibrary
    <3>2. CASE library' = [library EXCEPT ![s].books[b] = n, ![s].saved = FALSE]
      <4> DEFINE l == [library[s] EXCEPT !.books[b] = n, !.saved = FALSE]
      <4>1. library' = [library EXCEPT ![s] = l]
        BY <3>2 DEF Typed, TypeOK
      <4>2. library[s].sig + 1 <= changes' + 1
        BY <2>1, LibraryFacts
      <4>3. l \in LibraryState /\ ~l.saved /\ l.sig = library[s].sig
        BY <2>5, LibraryFacts DEF LibraryState
      <4>4. l.sig + (IF l.saved THEN 0 ELSE 1) <= changes' + 1
        BY <4>2, <4>3
      <4> HIDE DEF l
      <4> QED BY <2>1, <4>1, <4>3, <4>4, OneLibrary
    <3> QED BY <2>4, <3>1, <3>2
  <2>7. absent' \in [Sources -> SUBSET CBooks]
    <3>1. absent' \in {absent, [absent EXCEPT ![s] = @ \cup {b}]}
      BY <1>8 DEF Edit
    <3>2. absent[s] \cup {b} \in SUBSET CBooks
      BY DEF Typed, TypeOK
    <3> QED BY <3>1, <3>2 DEF Typed, TypeOK
  <2> QED BY <1>8, <2>1, <2>6, <2>7 DEF Edit, Typed, TypeOK, LibraryState
<1>9. ASSUME Crash
      PROVE  Typed'
  <2>1. changes' \in 0..MaxChanges /\ Bounded'
    BY <1>9, BoundedKept, SchedulerAssumption DEF Crash, Change, Typed, TypeOK
  <2>2. scan' \in [Scanners -> ScanState]
    BY <1>9, IdleTyped DEF Crash
  <2>3. /\ worker' \in [Sources -> {"none", "waiting", "awake", "leaving", "slot", "scanning"}]
        /\ registered' \subseteq Sources
        /\ pending' \subseteq registered'
    BY <1>9 DEF Crash, Start
  <2> QED BY <1>9, <2>1, <2>2, <2>3 DEF Crash, Typed, TypeOK
<1>10. ASSUME NEW s \in Sources, Stray(s)
       PROVE  Typed'
  <2>1. UNCHANGED library /\ changes' \in 0..MaxChanges /\ Bounded'
    BY <1>10, BoundedKept, SchedulerAssumption DEF Stray, Change, Typed, TypeOK
  <2> QED BY <1>10, <2>1 DEF Stray, Typed, TypeOK
<1> QED
  BY <1>1, <1>2, <1>3, <1>4, <1>5, <1>6, <1>7, <1>8, <1>9, <1>10 DEF Next

-----------------------------------------------------------------------------
(* What a scan knows *)

\* The scans of a source that never overlapped are one at a time.
Alone == \A a, c \in Scanners :
    (/\ scan[a].at # "idle" /\ scan[c].at # "idle"
     /\ scan[a].source = scan[c].source /\ scan[a].source \notin overlapped) => a = c

\* The kept signature is not of the future, and if it is the present one the rows
\* are as the library is.
SavedOK == \A s \in Sources \ overlapped :
    /\ source[s].sig <= library[s].sig
    /\ (library[s].saved /\ source[s].sig = library[s].sig) => Matches(s)

\* A scan whose signature is still the present one.
Current(a) == /\ library[scan[a].source].saved
              /\ scan[a].sig = library[scan[a].source].sig

\* What a scan is about to write makes the rows match.
WillMatch(a) ==
    LET s == scan[a].source IN \A b \in CBooks :
        IF library[s].books[b] = 0
        THEN \/ b \in scan[a].gone
             \/ /\ scan[a].write[b] = 0
                /\ rows[s][b].stamp = 0 \/ rows[s][b].missing
        ELSE /\ b \notin scan[a].gone
             /\ \/ scan[a].write[b] = library[s].books[b]
                \/ /\ scan[a].write[b] = 0
                   /\ rows[s][b] = [stamp |-> library[s].books[b], missing |-> FALSE]

Signed == {"compare", "open", "stored", "commit", "save", "finish"}

ScanOK(a) ==
    LET s == scan[a].source IN
    (scan[a].at \in Signed /\ s \notin overlapped) =>
        /\ source[s].sig <= scan[a].sig
        /\ scan[a].sig <= library[s].sig
        /\ (scan[a].at = "stored" /\ Current(a)) => scan[a].read = library[s].books
        /\ (scan[a].at = "commit" /\ Current(a)) => WillMatch(a)
        /\ (scan[a].at \in {"save", "finish"} /\ Current(a)) => Matches(s)

ScansOK == \A a \in Scanners : ScanOK(a)

\* Whatever is flagged missing, or about to be, was found gone.
AbsentOK == \A s \in Sources, b \in CBooks :
    library[s].books[b] = 0 \/ rows[s][b].missing => b \in absent[s]
GoneOK == \A a \in Scanners, b \in CBooks :
    /\ (scan[a].at = "stored" /\ scan[a].read[b] = 0) => b \in absent[scan[a].source]
    /\ (scan[a].at = "commit" /\ b \in scan[a].gone) => b \in absent[scan[a].source]

IInv == Typed /\ Sourced /\ Alone /\ SavedOK /\ ScansOK /\ AbsentOK /\ GoneOK

LEMMA InitIInv == Init => IInv
<1> SUFFICES ASSUME Init PROVE IInv
  OBVIOUS
<1>1. Typed
  BY InitTyped
<1>2. \A a \in Scanners : scan[a] = Idle
  BY DEF Init
<1>3. Sourced /\ Alone /\ ScansOK /\ GoneOK
  BY <1>2 DEF Sourced, Alone, ScansOK, ScanOK, Signed, GoneOK, Idle
<1>4. SavedOK
  BY DEF Init, SavedOK
<1>5. AbsentOK
  BY DEF Init, AbsentOK
<1> QED BY <1>1, <1>3, <1>4, <1>5 DEF IInv

-----------------------------------------------------------------------------
(* Steps that leave the scans of the other sources, and the libraries, alone. *)

\* A scan keeps what it knows if it, its source, its rows and its library stay.
LEMMA SameScan ==
    ASSUME IInv, NEW x \in Scanners, scan'[x] = scan[x], overlapped \subseteq overlapped',
           scan[x].at # "idle" /\ scan[x].source \notin overlapped =>
               /\ library'[scan[x].source] = library[scan[x].source]
               /\ source'[scan[x].source].sig = source[scan[x].source].sig
               /\ rows'[scan[x].source] = rows[scan[x].source]
    PROVE  ScanOK(x)'
<1>1. ScanOK(x)
  BY DEF IInv, ScansOK
<1>2. CASE scan[x].at \in Signed /\ scan[x].source \notin overlapped
  <2>1. scan[x].at # "idle"
    BY <1>2 DEF Signed
  <2> QED BY <1>1, <1>2, <2>1 DEF ScanOK, Current, WillMatch, Matches
<1>3. CASE ~(scan[x].at \in Signed /\ scan[x].source \notin overlapped)
  BY <1>3 DEF ScanOK
<1> QED BY <1>2, <1>3

\* One scan moves on or ends; what it writes is of its own source.
LEMMA OneScan ==
    ASSUME IInv, Typed', NEW a \in Scanners,
           \A x \in Scanners \ {a} : scan'[x] = scan[x],
           \/ scan[a].at # "idle" /\ scan'[a].at # "idle" /\ scan'[a].source = scan[a].source
           \/ scan[a].at # "idle" /\ scan'[a] = Idle,
           UNCHANGED <<library, overlapped>>,
           \A s \in Sources \ {scan[a].source} :
               source'[s].sig = source[s].sig /\ rows'[s] = rows[s],
           ScanOK(a)'
    PROVE  Sourced' /\ Alone' /\ ScansOK'
<1>1. Sourced'
  BY DEF IInv, Sourced, Idle
<1>2. Alone'
  BY DEF IInv, Alone, Idle
<1>3. ASSUME NEW x \in Scanners, x # a
      PROVE  ScanOK(x)'
  <2>1. scan'[x] = scan[x]
    BY <1>3
  <2>2. scan[x].at # "idle" /\ scan[x].source \notin overlapped =>
            scan[x].source \in Sources \ {scan[a].source}
    BY <1>3 DEF IInv, Alone, Sourced
  <2> QED BY <2>1, <2>2, SameScan
<1> QED BY <1>1, <1>2, <1>3 DEF ScansOK

\* A scan that ends, having written no more than a status.
LEMMA EndIInv ==
    ASSUME IInv, Typed', NEW a \in Scanners, scan[a].at # "idle", End(a),
           UNCHANGED <<library, rows, overlapped, absent>>,
           \A x \in Sources : source'[x].sig = source[x].sig
    PROVE  IInv'
<1>1. /\ \A x \in Scanners \ {a} : scan'[x] = scan[x]
      /\ scan'[a] = Idle
  BY DEF End, IInv, Typed, TypeOK
<1>2. ScanOK(a)'
  BY <1>1 DEF ScanOK, Idle, Signed
<1>3. Sourced' /\ Alone' /\ ScansOK'
  BY <1>1, <1>2, OneScan
<1>4. SavedOK'
  BY DEF IInv, SavedOK, Matches
<1>5. AbsentOK'
  BY DEF IInv, AbsentOK
<1>6. GoneOK'
  BY <1>1 DEF IInv, GoneOK, Idle
<1> QED BY <1>3, <1>4, <1>5, <1>6 DEF IInv

LEMMA ScanStepIInv ==
    ASSUME IInv, Typed', NEW a \in Scanners, ScanStep(a)
    PROVE  IInv'
<1> DEFINE s == scan[a].source
<1>0. /\ scan[a] \in ScanState /\ scan[a].at # "idle" /\ s \in Sources
      /\ ScanOK(a) /\ overlapped' = overlapped /\ library' = library /\ absent' = absent
      /\ source[s].sig \in Int /\ library[s].sig \in Int /\ scan[a].sig \in Int
  <2>1. scan[a].at # "idle" /\ UNCHANGED <<overlapped, library, absent>>
    BY DEF ScanStep, ReadSource, StatLibrary, Compare, OpenLibrary, ReadStored, Commit,
       SaveSignature, Finish, At
  <2>2. scan[a] \in ScanState /\ s \in Sources
    BY <2>1 DEF IInv, Typed, TypeOK, Sourced
  <2>3. source[s].sig \in Stamps /\ library[s].sig \in Stamps /\ scan[a].sig \in Stamps
    BY <2>2 DEF IInv, Typed, TypeOK, ScanState
  <2> QED BY <2>1, <2>2, <2>3, SchedulerAssumption DEF IInv, ScansOK, Stamps
<1>1. ASSUME End(a), UNCHANGED rows, \A x \in Sources : source'[x].sig = source[x].sig
      PROVE  IInv'
  BY <1>0, <1>1, EndIInv
\* A scan that goes on, having written no more than a status.
<1>2. ASSUME NEW t \in ScanState, scan' = [scan EXCEPT ![a] = t],
             t.at # "idle", t.source = s, UNCHANGED rows,
             \A x \in Sources : source'[x].sig = source[x].sig,
             ScanOK(a)',
             \A b \in CBooks : /\ (t.at = "stored" /\ t.read[b] = 0) => b \in absent[s]
                               /\ (t.at = "commit" /\ b \in t.gone) => b \in absent[s]
      PROVE  IInv'
  <2>1. /\ \A x \in Scanners \ {a} : scan'[x] = scan[x]
        /\ scan'[a] = t
    BY <1>2 DEF IInv, Typed, TypeOK
  <2>3. Sourced' /\ Alone' /\ ScansOK'
    BY <1>0, <1>2, <2>1, OneScan
  <2>4. SavedOK'
    BY <1>0, <1>2 DEF IInv, SavedOK, Matches
  <2>5. AbsentOK'
    BY <1>0, <1>2 DEF IInv, AbsentOK
  <2>6. GoneOK'
    BY <1>0, <1>2, <2>1 DEF IInv, GoneOK
  <2> QED BY <2>3, <2>4, <2>5, <2>6 DEF IInv
<1>3. ASSUME NEW status \in Statuses, SetStatus(s, status)
      PROVE  \A x \in Sources : source'[x].sig = source[x].sig
  BY <1>3 DEF SetStatus, IInv, Typed, TypeOK
<1>4. CASE ReadSource(a)
  <2> DEFINE t == [scan[a] EXCEPT !.at = "stat", !.status = source[s].status]
  <2>1. scan' = [scan EXCEPT ![a] = t] /\ UNCHANGED <<rows, source>>
    BY <1>4 DEF ReadSource, IInv, Typed, TypeOK
  <2>2. t \in ScanState /\ t.at = "stat" /\ t.source = s
    BY <1>0 DEF IInv, Typed, TypeOK, ScanState, Places
  <2>3. ScanOK(a)'
    <3>1. scan'[a] = t
      BY <2>1 DEF IInv, Typed, TypeOK
    <3> QED BY <2>2, <3>1 DEF ScanOK, Signed
  <2> HIDE DEF t
  <2> QED BY <1>2, <2>1, <2>2, <2>3
<1>5. CASE StatLibrary(a)
  <2>1. CASE Reachable(s)
    <3> DEFINE t == [scan[a] EXCEPT !.at = "compare", !.sig = library[s].sig]
    <3>1. scan' = [scan EXCEPT ![a] = t] /\ UNCHANGED <<rows, source>>
      BY <1>5, <2>1 DEF StatLibrary, IInv, Typed, TypeOK
    <3>2. t \in ScanState /\ t.at = "compare" /\ t.source = s /\ t.sig = library[s].sig
      BY <1>0 DEF IInv, Typed, TypeOK, ScanState, Places
    <3>3. ScanOK(a)'
      <4>1. scan'[a] = t
        BY <3>1 DEF IInv, Typed, TypeOK
      <4>2. s \notin overlapped => source[s].sig <= library[s].sig
        BY <1>0 DEF IInv, SavedOK
      <4> HIDE DEF t
      <4> QED BY <1>0, <3>1, <3>2, <4>1, <4>2 DEF ScanOK
    <3> HIDE DEF t
    <3> QED BY <1>2, <3>1, <3>2, <3>3
  <2>2. CASE ~Reachable(s)
    BY <1>1, <1>3, <1>5, <2>2 DEF StatLibrary, Statuses
  <2> QED BY <2>1, <2>2
<1>6. CASE Compare(a)
  <2>1. CASE End(a) /\ UNCHANGED source
    BY <1>1, <1>6, <2>1 DEF Compare
  <2>2. CASE /\ SetStatus(s, "running")
             /\ scan' = [scan EXCEPT ![a].at = "open", ![a].status = "running"]
    <3> DEFINE t == [scan[a] EXCEPT !.at = "open", !.status = "running"]
    <3>1. scan' = [scan EXCEPT ![a] = t] /\ UNCHANGED rows
      BY <1>6, <2>2 DEF Compare, IInv, Typed, TypeOK
    <3>2. /\ t \in ScanState /\ t.at = "open" /\ t.source = s /\ t.sig = scan[a].sig
          /\ scan[a].at \in Signed
      BY <1>0, <1>6 DEF ScanState, Places, Statuses, Compare, At, Signed
    <3>3. \A x \in Sources : source'[x].sig = source[x].sig
      BY <1>3, <2>2 DEF Statuses
    <3>4. ScanOK(a)'
      <4>1. scan'[a] = t
        BY <3>1 DEF IInv, Typed, TypeOK
      <4> HIDE DEF t
      <4> QED BY <1>0, <3>1, <3>2, <3>3, <4>1 DEF ScanOK
    <3> HIDE DEF t
    <3> QED BY <1>2, <3>1, <3>2, <3>3, <3>4
  <2> QED BY <1>6, <2>1, <2>2 DEF Compare
<1>7. CASE OpenLibrary(a)
  <2>1. CASE Reachable(s)
    <3> DEFINE t == [scan[a] EXCEPT !.at = "stored", !.read = library[s].books]
    <3>1. scan' = [scan EXCEPT ![a] = t] /\ UNCHANGED <<rows, source>>
      BY <1>7, <2>1 DEF OpenLibrary, Reachable, Found, IInv, Typed, TypeOK
    <3>2. /\ t \in ScanState /\ t.at = "stored" /\ t.source = s /\ t.sig = scan[a].sig
          /\ t.read = library[s].books /\ scan[a].at \in Signed
      BY <1>0, <1>7 DEF ScanState, Places, OpenLibrary, At, Signed, IInv, Typed, TypeOK
    <3>3. ScanOK(a)'
      <4>1. scan'[a] = t
        BY <3>1 DEF IInv, Typed, TypeOK
      <4> HIDE DEF t
      <4> QED BY <1>0, <3>1, <3>2, <4>1 DEF ScanOK
    <3>4. \A b \in CBooks : t.read[b] = 0 => b \in absent[s]
      BY <1>0, <3>2 DEF IInv, AbsentOK
    <3> HIDE DEF t
    <3> QED BY <1>2, <3>1, <3>2, <3>3, <3>4
  <2>2. CASE ~Reachable(s)
    BY <1>1, <1>3, <1>7, <2>2 DEF OpenLibrary, Statuses
  <2> QED BY <2>1, <2>2
<1>8. CASE ReadStored(a)
  <2> DEFINE changed == Changed(rows[s], scan[a].read)
             write == [b \in CBooks |-> IF b \in changed THEN scan[a].read[b] ELSE 0]
             gone == Vanished(rows[s], scan[a].read)
             t == [scan[a] EXCEPT !.at = "commit", !.write = write, !.gone = gone]
  <2>1. CASE Suspicious(a, rows[s])
    BY <1>1, <1>3, <1>8, <2>1 DEF ReadStored, Statuses
  <2>2. CASE ~Suspicious(a, rows[s])
    <3>1. scan' = [scan EXCEPT ![a] = t] /\ UNCHANGED <<rows, source>>
      BY <1>8, <2>2 DEF ReadStored, IInv, Typed, TypeOK
    <3>2. scan'[a] \in ScanState /\ scan'[a] = t
      BY <3>1 DEF IInv, Typed, TypeOK
    <3>3. /\ t \in ScanState /\ t.at = "commit" /\ t.source = s /\ t.sig = scan[a].sig
          /\ t.write = write /\ t.gone = gone
          /\ scan[a].at = "stored"
      <4> HIDE DEF write, gone
      <4> QED BY <1>0, <1>8, <3>2 DEF ScanState, ReadStored, At
    <3>4. rows[s] \in [CBooks -> Row]
      BY <1>0 DEF IInv, Typed, TypeOK
    <3>5. ASSUME scan[a].read = library[s].books
          PROVE  WillMatch(a)'
      <4> SUFFICES ASSUME NEW b \in CBooks
                   PROVE  IF library[s].books[b] = 0
                          THEN \/ b \in gone
                               \/ write[b] = 0 /\ (rows[s][b].stamp = 0 \/ rows[s][b].missing)
                          ELSE /\ b \notin gone
                               /\ \/ write[b] = library[s].books[b]
                                  \/ /\ write[b] = 0
                                     /\ rows[s][b] = [stamp |-> library[s].books[b],
                                                      missing |-> FALSE]
        <5> HIDE DEF t, write, gone
        <5> QED BY <1>0, <3>1, <3>2, <3>3 DEF WillMatch
      <4>1. rows[s][b] \in Row
        BY <3>4
      <4> QED BY <3>5, <4>1 DEF Changed, Vanished, Known, Row
    <3>6. ScanOK(a)'
      <4> HIDE DEF t, write, gone
      <4> QED BY <1>0, <3>1, <3>2, <3>3, <3>5 DEF ScanOK, Current, Signed
    <3>7. \A b \in CBooks : b \in gone => b \in absent[s]
      BY <1>0, <3>3 DEF IInv, GoneOK, Vanished
    <3> HIDE DEF t, write, gone
    <3> QED BY <1>2, <3>1, <3>3, <3>6, <3>7
  <2> QED BY <2>1, <2>2
<1>9. CASE Commit(a)
  <2> DEFINE t == [scan[a] EXCEPT !.at = "save", !.read = Nothing,
                                  !.write = Nothing, !.gone = {}]
  <2>1. scan' = [scan EXCEPT ![a] = t] /\ UNCHANGED source /\ scan[a].at = "commit"
    BY <1>9 DEF Commit, At, IInv, Typed, TypeOK
  <2>2. /\ \A x \in Scanners \ {a} : scan'[x] = scan[x]
        /\ scan'[a] = t
    BY <2>1 DEF IInv, Typed, TypeOK
  <2>3. t.at = "save" /\ t.source = s /\ t.sig = scan[a].sig
    BY <1>0 DEF ScanState
  <2>4. \A b \in CBooks : rows'[s][b] =
            IF b \in scan[a].gone THEN [rows[s][b] EXCEPT !.missing = TRUE]
            ELSE IF scan[a].write[b] # 0
            THEN [stamp |-> scan[a].write[b], missing |-> FALSE]
            ELSE rows[s][b]
    BY <1>0, <1>9 DEF Commit, IInv, Typed, TypeOK
  <2>5. \A x \in Sources \ {s} : rows'[x] = rows[x]
    BY <1>9 DEF Commit, IInv, Typed, TypeOK
  <2>6. ASSUME s \notin overlapped, Current(a)
        PROVE  \A b \in CBooks :
                   IF library[s].books[b] = 0
                   THEN rows'[s][b].stamp = 0 \/ rows'[s][b].missing
                   ELSE rows'[s][b] = [stamp |-> library[s].books[b], missing |-> FALSE]
    <3> TAKE b \in CBooks
    <3>1. WillMatch(a)
      BY <1>0, <2>1, <2>6 DEF ScanOK, Signed
    <3>2. rows[s][b] \in Row
      BY <1>0 DEF IInv, Typed, TypeOK
    <3>3. CASE library[s].books[b] = 0
      BY <2>4, <3>1, <3>2, <3>3 DEF WillMatch, Row
    <3>4. CASE library[s].books[b] # 0
      BY <2>4, <3>1, <3>2, <3>4 DEF WillMatch, Row
    <3> QED BY <3>3, <3>4
  <2>7. ScanOK(a)'
    <3> HIDE DEF t
    <3> QED BY <1>0, <2>1, <2>2, <2>3, <2>6 DEF ScanOK, Current, Matches, Signed
  <2>8. Sourced' /\ Alone' /\ ScansOK'
    <3> HIDE DEF t
    <3> QED BY <1>0, <2>1, <2>2, <2>3, <2>5, <2>7, OneScan
  <2>9. SavedOK'
    <3> SUFFICES ASSUME NEW x \in Sources \ overlapped
                 PROVE  /\ source[x].sig <= library[x].sig
                        /\ (library[x].saved /\ source[x].sig = library[x].sig) => Matches(x)'
      BY <1>0, <2>1 DEF SavedOK
    <3>1. /\ source[x].sig <= library[x].sig
          /\ (library[x].saved /\ source[x].sig = library[x].sig) => Matches(x)
      BY DEF IInv, SavedOK
    <3>2. CASE x = s
      <4>1. source[s].sig <= scan[a].sig /\ scan[a].sig <= library[s].sig
        BY <1>0, <2>1, <3>2 DEF ScanOK, Signed
      <4>2. (library[s].saved /\ source[s].sig = library[s].sig) => Current(a)
        BY <1>0, <4>1 DEF Current
      <4> QED BY <1>0, <2>6, <3>1, <3>2, <4>2 DEF Matches
    <3>3. CASE x # s
      BY <1>0, <2>5, <3>1, <3>3 DEF Matches
    <3> QED BY <3>2, <3>3
  <2>10. AbsentOK'
    <3> SUFFICES ASSUME NEW x \in Sources, NEW b \in CBooks,
                        library[x].books[b] = 0 \/ rows'[x][b].missing
                 PROVE  b \in absent[x]
      BY <1>0 DEF AbsentOK
    <3>1. library[x].books[b] = 0 \/ rows[x][b].missing => b \in absent[x]
      BY DEF IInv, AbsentOK
    <3>2. CASE x = s
      <4>1. b \in scan[a].gone => b \in absent[s]
        BY <1>0, <2>1 DEF IInv, GoneOK
      <4>2. CASE b \in scan[a].gone
        BY <3>2, <4>1, <4>2
      <4>3. CASE b \notin scan[a].gone /\ scan[a].write[b] # 0
        <5>1. rows'[s][b] = [stamp |-> scan[a].write[b], missing |-> FALSE]
          BY <2>4, <4>3
        <5> QED BY <3>1, <3>2, <5>1
      <4>4. CASE b \notin scan[a].gone /\ scan[a].write[b] = 0
        <5>1. rows'[s][b] = rows[s][b]
          BY <2>4, <4>4
        <5> QED BY <3>1, <3>2, <5>1
      <4> QED BY <4>2, <4>3, <4>4
    <3>3. CASE x # s
      BY <2>5, <3>1, <3>3
    <3> QED BY <3>2, <3>3
  <2>11. GoneOK'
    <3> HIDE DEF t
    <3> QED BY <1>0, <2>2, <2>3 DEF IInv, GoneOK
  <2> QED BY <2>8, <2>9, <2>10, <2>11 DEF IInv
<1>10. CASE SaveSignature(a)
  <2> DEFINE t == [scan[a] EXCEPT !.at = "finish"]
  <2>1. scan' = [scan EXCEPT ![a] = t] /\ UNCHANGED rows /\ scan[a].at = "save"
    BY <1>10 DEF SaveSignature, Move, At, IInv, Typed, TypeOK
  <2>2. /\ \A x \in Scanners \ {a} : scan'[x] = scan[x]
        /\ scan'[a] = t
    BY <2>1 DEF IInv, Typed, TypeOK
  <2>3. t.at = "finish" /\ t.source = s /\ t.sig = scan[a].sig
    BY <1>0 DEF ScanState
  <2>4. /\ source'[s].sig = scan[a].sig
        /\ \A x \in Sources \ {s} : source'[x].sig = source[x].sig
    BY <1>0, <1>10 DEF SaveSignature, Signature, IInv, Typed, TypeOK
  <2>5. s \notin overlapped =>
            scan[a].sig <= library[s].sig /\ (Current(a) => Matches(s))
    BY <1>0, <2>1 DEF ScanOK, Signed
  <2>6. ScanOK(a)'
    <3> HIDE DEF t
    <3> QED BY <1>0, <2>1, <2>2, <2>3, <2>4, <2>5 DEF ScanOK, Current, Matches
  <2>7. Sourced' /\ Alone' /\ ScansOK'
    <3> HIDE DEF t
    <3> QED BY <1>0, <2>1, <2>2, <2>3, <2>4, <2>6, OneScan
  <2>8. SavedOK'
    BY <1>0, <2>1, <2>4, <2>5 DEF IInv, SavedOK, Current, Matches
  <2>9. AbsentOK'
    BY <1>0, <2>1 DEF IInv, AbsentOK
  <2>10. GoneOK'
    <3> HIDE DEF t
    <3> QED BY <1>0, <2>2, <2>3 DEF IInv, GoneOK
  <2> QED BY <2>7, <2>8, <2>9, <2>10 DEF IInv
<1>11. CASE Finish(a)
  BY <1>1, <1>3, <1>11 DEF Finish, Statuses
<1> QED BY <1>4, <1>5, <1>6, <1>7, <1>8, <1>9, <1>10, <1>11 DEF ScanStep

-----------------------------------------------------------------------------
(* The other steps *)

LEMMA BeginsIInv ==
    ASSUME IInv, Typed', NEW a \in Scanners, NEW s \in Sources, NEW f \in BOOLEAN,
           NEW c \in BOOLEAN, Begins(a, s, f, c),
           UNCHANGED <<library, rows, source, absent>>
    PROVE  IInv'
<1>1. /\ scan'[a].at = "begin" /\ scan'[a].source = s
      /\ \A x \in Scanners \ {a} : scan'[x] = scan[x]
      /\ overlapped \subseteq overlapped'
      /\ s \notin overlapped' => Active(s) = {}
  BY DEF Begins, Idle, IInv, Typed, TypeOK
<1>2. Sourced'
  BY <1>1 DEF IInv, Sourced
<1>3. Alone'
  BY <1>1 DEF IInv, Alone, Active
<1>4. ASSUME NEW x \in Scanners
      PROVE  ScanOK(x)'
  <2>1. CASE x = a
    BY <1>1, <2>1 DEF ScanOK, Signed
  <2>2. CASE x # a
    BY <1>1, <2>2, SameScan
  <2> QED BY <2>1, <2>2
<1>5. SavedOK' /\ AbsentOK' /\ GoneOK'
  BY <1>1 DEF IInv, SavedOK, Matches, AbsentOK, GoneOK
<1> QED BY <1>2, <1>3, <1>4, <1>5 DEF IInv, ScansOK

\* A library changes: its signature moves on, or the change is in the WAL, or its
\* books stay.
LEMMA LibraryIInv ==
    ASSUME IInv, Typed', NEW s \in Sources, UNCHANGED <<rows, source, scan, overlapped>>,
           \A x \in Sources \ {s} : library'[x] = library[x],
           \/ library'[s].sig = library[s].sig + 1
           \/ library'[s].sig = library[s].sig /\ ~library'[s].saved
           \/ /\ library'[s].sig = library[s].sig /\ library'[s].saved = library[s].saved
              /\ library'[s].books = library[s].books,
           \A x \in Sources, b \in CBooks :
               /\ b \in absent[x] => b \in absent'[x]
               /\ library'[x].books[b] = 0 => b \in absent'[x]
    PROVE  IInv'
<1>1. /\ \A x \in Sources : source[x].sig \in Int /\ library[x].sig \in Int
      /\ \A a \in Scanners : scan[a].sig \in Int
  <2>1. /\ \A x \in Sources : source[x].sig \in Stamps /\ library[x].sig \in Stamps
        /\ \A a \in Scanners : scan[a] \in ScanState
    BY DEF IInv, Typed, TypeOK
  <2>2. \A a \in Scanners : scan[a].sig \in Stamps
    BY <2>1 DEF ScanState
  <2> QED BY <2>1, <2>2, SchedulerAssumption DEF Stamps
<1>2. Sourced' /\ Alone'
  BY DEF IInv, Sourced, Alone
<1>3. SavedOK'
  <2> SUFFICES ASSUME NEW x \in Sources \ overlapped
               PROVE  /\ source[x].sig <= library'[x].sig
                      /\ (library'[x].saved /\ source[x].sig = library'[x].sig) => Matches(x)'
    BY DEF SavedOK
  <2>1. /\ source[x].sig <= library[x].sig
        /\ (library[x].saved /\ source[x].sig = library[x].sig) => Matches(x)
    BY DEF IInv, SavedOK
  <2> QED BY <1>1, <2>1 DEF Matches
<1>4. ASSUME NEW x \in Scanners
      PROVE  ScanOK(x)'
  <2>1. CASE scan[x].at \in Signed /\ scan[x].source \notin overlapped
    <3> DEFINE y == scan[x].source
    <3>1. y \in Sources
      BY <2>1 DEF IInv, Sourced, Signed
    <3>2. ScanOK(x)
      BY DEF IInv, ScansOK
    <3>3. CASE y # s
      <4>1. library'[y] = library[y]
        BY <3>1, <3>3
      <4> QED BY <2>1, <3>2, <4>1 DEF ScanOK, Current, WillMatch, Matches
    <3>4. CASE y = s /\ library'[s].sig = library[s].sig + 1
      BY <1>1, <2>1, <3>2, <3>4 DEF ScanOK, Current
    <3>5. CASE y = s /\ library'[s].sig = library[s].sig /\ ~library'[s].saved
      BY <2>1, <3>2, <3>5 DEF ScanOK, Current
    <3>6. CASE /\ y = s /\ library'[s].sig = library[s].sig
               /\ library'[s].saved = library[s].saved /\ library'[s].books = library[s].books
      BY <2>1, <3>2, <3>6 DEF ScanOK, Current, WillMatch, Matches
    <3> QED BY <3>3, <3>4, <3>5, <3>6
  <2>2. CASE ~(scan[x].at \in Signed /\ scan[x].source \notin overlapped)
    BY <2>2 DEF ScanOK
  <2> QED BY <2>1, <2>2
<1>5. AbsentOK'
  BY DEF IInv, AbsentOK
<1>6. GoneOK'
  BY DEF IInv, GoneOK, Sourced
<1> QED BY <1>2, <1>3, <1>4, <1>5, <1>6 DEF IInv, ScansOK

LEMMA StepIInv ==
    ASSUME IInv, [Next]_vars
    PROVE  IInv'
<1>1. CASE UNCHANGED vars
  BY <1>1 DEF vars, IInv, Typed, TypeOK, Bounded, Sourced, Alone, SavedOK, ScansOK, ScanOK,
     Current, WillMatch, Matches, AbsentOK, GoneOK
<1>2. CASE Next
  <2>0. Typed'
    BY <1>2, NextTyped DEF IInv
  \* Steps that leave the libraries, the rows, the scans and the signatures.
  <2>1. ASSUME UNCHANGED <<library, rows, scan, overlapped, absent>>,
               \A x \in Sources : source'[x].sig = source[x].sig
        PROVE  IInv'
    <3>1. ScansOK'
      BY <2>1, SameScan DEF IInv, Sourced, ScansOK
    <3>2. Sourced' /\ Alone' /\ SavedOK' /\ AbsentOK' /\ GoneOK'
      BY <2>1 DEF IInv, Sourced, Alone, SavedOK, Matches, AbsentOK, GoneOK
    <3> QED BY <2>0, <3>1, <3>2 DEF IInv
  <2>2. ASSUME NEW s \in Sources, WorkerStep(s) \/ Stray(s) \/ AddSource(s) \/ ToggleSource(s)
        PROVE  IInv'
    <3>1. UNCHANGED <<library, rows, scan, overlapped, absent>>
      BY <2>2 DEF WorkerStep, Wake, CheckSource, Leave, Stray, AddSource, ToggleSource
    <3>2. \A x \in Sources : source'[x].sig = source[x].sig
      <4>1. CASE AddSource(s)
        BY <4>1 DEF AddSource, IInv, Typed, TypeOK
      <4>2. CASE ToggleSource(s)
        <5>1. PICK on \in BOOLEAN : source' = [source EXCEPT ![s].enabled = on]
          BY <4>2 DEF ToggleSource
        <5> QED BY <5>1 DEF IInv, Typed, TypeOK
      <4>3. CASE WorkerStep(s) \/ Stray(s)
        BY <4>3 DEF WorkerStep, Wake, CheckSource, Leave, Stray
      <4> QED BY <2>2, <4>1, <4>2, <4>3
    <3> QED BY <2>1, <3>1, <3>2
  <2>3. ASSUME NEW s \in Sources, TakeSlot(s)
        PROVE  IInv'
    BY <2>0, <2>3, BeginsIInv DEF TakeSlot, Scanners
  <2>4. ASSUME NEW r \in Requests, NEW s \in Sources, ScanNow(r, s)
        PROVE  IInv'
    <3>1. PICK confirm \in BOOLEAN : Begins(r, s, TRUE, confirm)
      BY <2>4 DEF ScanNow
    <3> QED BY <2>0, <2>4, <3>1, BeginsIInv DEF ScanNow, Scanners
  <2>5. ASSUME NEW a \in Scanners, ScanStep(a)
        PROVE  IInv'
    BY <2>0, <2>5, ScanStepIInv
  <2>6. ASSUME NEW a \in Scanners, ScanFails(a)
        PROVE  IInv'
    <3>1. /\ scan[a].at # "idle" /\ End(a)
          /\ UNCHANGED <<library, rows, overlapped, absent>>
      BY <2>6 DEF ScanFails, At
    <3>2. \A x \in Sources : source'[x].sig = source[x].sig
      <4>1. \/ UNCHANGED source
            \/ source' = [source EXCEPT ![scan[a].source].status = "failed"]
        BY <2>6 DEF ScanFails, SetStatus
      <4>2. source \in [Sources -> [added : BOOLEAN, enabled : BOOLEAN,
                                   status : Statuses, sig : Stamps]]
        BY DEF IInv, Typed, TypeOK
      <4> QED BY <4>1, <4>2
    <3> QED BY <2>0, <3>1, <3>2, EndIInv
  <2>7. ASSUME NEW s \in Sources, Checkpoint(s) \/ Unmount(s) \/ Mount(s)
        PROVE  IInv'
    <3>1. /\ UNCHANGED <<rows, source, scan, overlapped, absent>>
          /\ \A x \in Sources \ {s} : library'[x] = library[x]
          /\ \A x \in Sources : library'[x].books = library[x].books
      <4>1. CASE Checkpoint(s)
        BY <4>1 DEF Checkpoint, IInv, Typed, TypeOK
      <4>2. CASE Unmount(s)
        BY <4>2 DEF Unmount, IInv, Typed, TypeOK
      <4>3. CASE Mount(s)
        BY <4>3 DEF Mount, IInv, Typed, TypeOK
      <4> QED BY <2>7, <4>1, <4>2, <4>3
    <3>2. \/ library'[s].sig = library[s].sig + 1
          \/ /\ library'[s].sig = library[s].sig
             /\ library'[s].saved = library[s].saved
      BY <2>7 DEF Checkpoint, Unmount, Mount, IInv, Typed, TypeOK
    <3>3. \A x \in Sources, b \in CBooks :
              /\ b \in absent[x] => b \in absent'[x]
              /\ library'[x].books[b] = 0 => b \in absent'[x]
      BY <3>1 DEF IInv, AbsentOK
    <3> QED BY <2>0, <3>1, <3>2, <3>3, LibraryIInv
  <2>8. ASSUME NEW s \in Sources, NEW b \in CBooks, Edit(s, b)
        PROVE  IInv'
    <3>1. /\ UNCHANGED <<rows, source, scan, overlapped>>
          /\ \A x \in Sources \ {s} : library'[x] = library[x]
      BY <2>8 DEF Edit, IInv, Typed, TypeOK
    <3>2. \/ library'[s].sig = library[s].sig + 1
          \/ library'[s].sig = library[s].sig /\ ~library'[s].saved
      BY <2>8 DEF Edit, IInv, Typed, TypeOK
    <3>3. changes' = changes + 1 /\ changes \in Nat
      BY <2>8, SchedulerAssumption DEF Edit, Change, IInv, Typed, TypeOK
    <3>4. ASSUME NEW x \in Sources, NEW y \in CBooks
          PROVE  /\ y \in absent[x] => y \in absent'[x]
                 /\ library'[x].books[y] = 0 => y \in absent'[x]
      <4>1. library[x].books[y] = 0 => y \in absent[x]
        BY DEF IInv, AbsentOK
      <4>2. CASE /\ absent' = absent
                 /\ \/ library'[s].books = [library[s].books EXCEPT ![b] = changes' + 1]
                    \/ library'[s].books = library[s].books
        <5>1. changes' + 1 # 0
          BY <3>3
        <5>2. library[s].books \in Contents
          BY DEF IInv, Typed, TypeOK
        <5>3. library'[x].books[y] = 0 => library[x].books[y] = 0
          BY <3>1, <4>2, <5>1, <5>2 DEF Contents
        <5> QED BY <4>1, <4>2, <5>3
      <4>3. CASE /\ absent' = [absent EXCEPT ![s] = @ \cup {b}]
                 /\ library'[s].books = [library[s].books EXCEPT ![b] = 0]
        <5>1. library[s].books \in Contents /\ absent \in [Sources -> SUBSET CBooks]
          BY DEF IInv, Typed, TypeOK
        <5> QED BY <3>1, <4>1, <4>3, <5>1 DEF Contents
      <4>4. library \in [Sources -> LibraryState]
        BY DEF IInv, Typed, TypeOK, LibraryState
      <4>5. library[s] \in LibraryState
        BY <4>4
      <4> QED BY <2>8, <4>2, <4>3, <4>4, <4>5 DEF Edit, LibraryState
    <3> QED BY <2>0, <3>1, <3>2, <3>4, LibraryIInv
  <2>9. ASSUME Crash
        PROVE  IInv'
    <3>1. \A x \in Scanners : scan'[x] = Idle
      BY <2>9 DEF Crash
    <3>2. Sourced' /\ Alone' /\ ScansOK' /\ GoneOK'
      BY <3>1 DEF Sourced, Alone, ScansOK, ScanOK, Signed, GoneOK, Idle
    <3>3. SavedOK' /\ AbsentOK'
      BY <2>9 DEF Crash, IInv, SavedOK, Matches, AbsentOK
    <3> QED BY <2>0, <3>2, <3>3 DEF IInv
  <2> QED BY <1>2, <2>2, <2>3, <2>4, <2>5, <2>6, <2>7, <2>8, <2>9 DEF Next
<1> QED BY <1>1, <1>2

-----------------------------------------------------------------------------
\* Every reachable state satisfies the inductive invariant.
THEOREM Inductive == Spec => []IInv
<1> QED BY InitIInv, StepIInv, PTL DEF Spec

\* Type correctness, and that no trigger is asked for that nobody hears.
THEOREM SchedulerTypes == Spec => []TypeOK
<1>1. IInv => TypeOK
  BY DEF IInv, Typed
<1> QED BY <1>1, Inductive, PTL

\* A skipped scan would have found nothing: however the library changed during a
\* scan, and wherever scans failed or the process stopped.
THEOREM SkippingIsSound == Spec => []SkipIsSound
<1>1. IInv => SkipIsSound
  BY DEF IInv, SavedOK, SkipIsSound
<1> QED BY <1>1, Inductive, PTL

\* A share that is away never makes a book go missing.
THEOREM MissingMeansGone == Spec => []OnlyTheGoneAreMissing
<1>1. IInv => OnlyTheGoneAreMissing
  BY DEF IInv, AbsentOK, OnlyTheGoneAreMissing
<1> QED BY <1>1, Inductive, PTL
=============================================================================
