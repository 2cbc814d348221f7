------------------------------ MODULE Reading ------------------------------
(***************************************************************************)
(* What one person's readers report of their reading: the place in every   *)
(* book that the readers share, the history it leaves, and the figures the *)
(* statistics pages make of that history.                                  *)
(*                                                                         *)
(* A sync is one step here (KoboSync has it page by page): it brings the   *)
(* positions whose revision moved and that another reader wrote.           *)
(***************************************************************************)
EXTENDS Integers, Sequences, FiniteSets, FiniteSetsExt, SequencesExt

CONSTANTS
    Books,        \* canonical ids, numbered in the order they were created
    Devices,
    None,
    Length,       \* positions in a book are 1..Length, its spans
    DocOf,        \* the content document a position is in
    Measured,     \* what measuring a version of a book's file yields
    Holds,        \* the books each device was given
    Indexes,      \* which version of each book may be measured, 0 if none is
    Shapes,       \* the sections a report of each device may have
    LagOf,        \* how far a device's own clock is behind, None if it tells no time
    HoursPerDay,
    Weeks,        \* heatmapWeeks
    MaxSaneWPM,   \* words a minute; maxSaneWPM
    MaxSpent,     \* bound: minutes a counter reaches
    MaxReports,   \* bound: reports in one behaviour
    MaxTime,      \* bound: hours it lasts
    MaxBesides,   \* bound: syncs, merges, resets, failures
    Happens       \* what a run exercises besides reading and reporting

Positions == 1..Length
Docs      == {DocOf[p] : p \in Positions}
Sections  == {"status", "bookmark", "location", "statistics"}
Status    == {"ReadyToRead", "Reading", "Finished"}
Percents  == 0..100
Times     == 0..MaxTime

\* What a device has of a book, what a report says of it, what the server keeps.
Copies     == [status : Status, position : Positions \cup {None}, spent : 0..MaxSpent]
Reported   == [book : Books, status : Status, placed : BOOLEAN, percent : Percents \cup {None},
               span : Positions \cup {None}, spent : 0..MaxSpent \cup {None},
               deviceAt : Times \cup {None}]
Progress   == [status : Status, percent : Percents, span : Positions \cup {None}, rev : Nat,
               writer : Devices \cup {None}]
Events     == [book : Books, device : Devices, at : Times, deviceAt : Times \cup {None},
               status : Status, percent : Percents \cup {None}, span : Positions \cup {None},
               spent : 0..MaxSpent \cup {None}, delta : 0..MaxSpent]

ASSUME ReadingAssumption ==
    /\ Books \subseteq Nat \ {0} /\ IsFiniteSet(Books)
    /\ Length \in Nat \ {0} /\ DOMAIN DocOf = Positions
    /\ Holds \in [Devices -> SUBSET Books] /\ Shapes \in [Devices -> SUBSET SUBSET Sections]
    /\ \A v \in DOMAIN Measured :
         /\ Measured[v].words \in Nat
         /\ DOMAIN Measured[v].block \subseteq Positions /\ DOMAIN Measured[v].doc \subseteq Docs
         /\ \A p \in DOMAIN Measured[v].block : Measured[v].block[p] \in Nat
         /\ \A c \in DOMAIN Measured[v].doc : Measured[v].doc[c] \in Nat
    /\ Indexes \subseteq [Books -> {0} \cup DOMAIN Measured]
    /\ LagOf \in [Devices -> Nat \cup {None}] /\ HoursPerDay \in Nat \ {0} /\ Weeks \in Nat \ {0}
    /\ {MaxSaneWPM, MaxSpent, MaxReports, MaxTime, MaxBesides} \subseteq Nat
    /\ Happens \subseteq {"merge", "reset", "fail", "sync"}
    /\ None \notin Nat /\ None \notin Books /\ None \notin Devices /\ None \notin Status
    /\ None \notin Reported /\ None \notin Events

SessionGap == 1   \* hours

VARIABLES
    reader,    \* what a device has of a book: status, position, its own counter
    pending,   \* the report a device is waiting on, its book resolved
    state,     \* reading_states
    events,    \* reading_events
    into,      \* books.merged_into
    baseline,  \* the revisions in the snapshot a device synced last
    now,
    lived,     \* history: minutes a book was really read on a device
    partial,   \* history: books of which some report had no status or place, or was not saved
    merged,    \* history: books that took part in a merge
    reports,   \* how many reports there were
    besides    \* how often something else happened

readingVars == <<reader, pending, state, events, into, baseline, now, lived, partial,
          merged, reports, besides>>

NoState  == [status |-> "ReadyToRead", percent |-> 0, span |-> None, rev |-> 0, writer |-> None]
Unread   == [status |-> "ReadyToRead", position |-> None, spent |-> 0]
Roots    == {b \in Books : into[b] = None}

(* ResolveBookID, for aliases of depth one. *)
ResolveBookID(b) == IF into[b] = None THEN b ELSE into[b]

Percent(p) == (100 * p) \div Length

(* repairBookmark: a finished book is at its end, wherever the device says. *)
RepairBookmark(r) ==
    IF r.status = "Finished" THEN [r EXCEPT !.placed = TRUE, !.percent = 100, !.span = None] ELSE r

(* What handlePutState makes of the sections that were sent. *)
Report(d, copy, b, sections) ==
    RepairBookmark(
      [book     |-> ResolveBookID(b),
       status   |-> IF "status" \in sections THEN copy.status ELSE "ReadyToRead",
       placed   |-> "bookmark" \in sections,
       percent  |-> IF "bookmark" \in sections THEN Percent(copy.position) ELSE None,
       span     |-> IF {"bookmark", "location"} \subseteq sections THEN copy.position ELSE None,
       spent    |-> IF "statistics" \in sections THEN copy.spent ELSE None,
       deviceAt |-> IF LagOf[d] = None \/ sections = {"status"} THEN None
                   ELSE Max({0, now - LagOf[d]})])

UpsertUnsigned(s, d, r) == \* seeded bug: the last writer stays who it was
    [status |-> r.status, percent |-> IF r.placed THEN r.percent ELSE s.percent,
     span |-> IF r.placed THEN r.span ELSE s.span, rev |-> s.rev + 1,
     writer |-> IF s.writer = None THEN d ELSE s.writer]

(* saveReadingState: a section that was not sent is left as it was. *)
Upsert(s, d, r) ==
    [status |-> r.status, percent |-> IF r.placed THEN r.percent ELSE s.percent,
     span |-> IF r.placed THEN r.span ELSE s.span, rev |-> s.rev + 1, writer |-> d]

LastOfBook(b, d) == \* seeded bug: the last event from any device
    LET mine == {i \in DOMAIN events : events[i].book = b}
    IN  IF mine = {} THEN None ELSE events[Max(mine)]

(* The last event of a book from a device. *)
LastEvent(b, d) ==
    LET mine == {i \in DOMAIN events : events[i].book = b /\ events[i].device = d}
    IN  IF mine = {} THEN None ELSE events[Max(mine)]

(* The minutes between two reports of one device that both had its counter. *)
SpentDelta(last, r) ==
    IF last = None \/ r.spent = None \/ last.spent = None THEN 0
    ELSE Max({0, r.spent - last.spent})

(* AppendReadingEvent: nothing new is dropped. *)
AppendReadingEvent(d, r) ==
    LET last  == LastEvent(r.book, d)
        again == /\ last # None /\ r.span = last.span /\ r.status = last.status
                 /\ r.spent \in {None, last.spent}
    IN  IF again THEN events
        ELSE Append(events, [book |-> r.book, device |-> d, at |-> now, deviceAt |-> r.deviceAt,
                             status |-> r.status, percent |-> r.percent, span |-> r.span,
                             spent |-> r.spent, delta |-> SpentDelta(last, r)])

ReadingInit ==
    /\ reader = [d \in Devices |-> [b \in Books |-> Unread]]
    /\ pending = [d \in Devices |-> None]
    /\ state = [b \in Books |-> NoState]
    /\ events = <<>>
    /\ into = [b \in Books |-> None]
    /\ baseline = [d \in Devices |-> [b \in Books |-> 0]]
    /\ now = 0
    /\ lived = [d \in Devices |-> [b \in Books |-> 0]]
    /\ partial = {} /\ merged = {}
    /\ reports = 0 /\ besides = 0

(* Something other than a report, if the run exercises it. *)
Besides(kind) == kind \in Happens /\ besides < MaxBesides /\ besides' = besides + 1

(* Some minutes, or none, of reading on a device, and the report of them:   *)
(* handlePutState up to ResolveBookID.                                      *)
PutState(d, b, minutes, p, sections) ==
    /\ pending[d] = None /\ reports < MaxReports
    /\ reader[d][b].spent + minutes <= MaxSpent
    /\ b \in Holds[d]
    /\ reader' = [reader EXCEPT ![d][b] =
            [status |-> IF p = Length THEN "Finished" ELSE "Reading",
             \* a finished book reports its first resource
             position |-> IF p = Length THEN 1 ELSE p, spent |-> @.spent + minutes]]
    /\ pending' = [pending EXCEPT ![d] = Report(d, reader'[d][b], b, sections)]
    /\ lived' = [lived EXCEPT ![d][b] = @ + minutes]
    /\ partial' = IF "status" \in sections /\ pending'[d].placed THEN partial
                  ELSE partial \cup {pending'[d].book}
    /\ reports' = reports + 1
    /\ UNCHANGED <<state, events, into, baseline, now, merged, besides>>

(* The transaction of saveReadingState, and the answer. *)
SaveReadingState(d) ==
    /\ pending[d] # None
    /\ LET r == pending[d] IN
         /\ state' = [state EXCEPT ![r.book] = Upsert(@, d, r)]
         /\ events' = AppendReadingEvent(d, r)
    /\ pending' = [pending EXCEPT ![d] = None]
    /\ UNCHANGED <<reader, into, baseline, now, lived, partial, merged, reports, besides>>

(* It fails: that is logged, and the device is told Success all the same. *)
SaveFails(d) ==
    /\ Besides("fail") /\ pending[d] # None
    /\ pending' = [pending EXCEPT ![d] = None]
    /\ partial' = partial \cup {pending[d].book}
    /\ UNCHANGED <<reader, state, events, into, baseline, now, lived, merged, reports>>

(* ChangedReadingStateIDs *)
ChangedReadingStateIDs(d) ==
    {b \in Roots : state[b].rev # baseline[d][b] /\ state[b].writer # d}

(* What a sync brings to a copy: a position of no percent is left alone, and *)
(* a finished book is at its first resource.                                *)
Brought(copy, s) ==
    [copy EXCEPT !.status = s.status,
                 !.position = IF s.percent = 0 THEN copy.position
                              ELSE IF s.status = "Finished" THEN 1 ELSE (s.percent * Length + 99) \div 100]

(* A sync from beginning to end. *)
Sync(d) ==
    /\ Besides("sync") /\ pending[d] = None
    /\ reader' = [reader EXCEPT ![d] = [b \in Books |->
            IF b \in ChangedReadingStateIDs(d) THEN Brought(reader[d][b], state[b]) ELSE reader[d][b]]]
    /\ baseline' = [baseline EXCEPT ![d] = [b \in Books |-> IF b \in Roots THEN state[b].rev ELSE 0]]
    /\ UNCHANGED <<pending, state, events, into, now, lived, partial, merged, reports>>

(* MergeBooks, what it does to positions: the higher revision wins, events stay. *)
MergeBooks(survivor, loser) ==
    /\ Besides("merge") /\ survivor < loser /\ {survivor, loser} \subseteq Roots
    /\ \A b \in Books : into[b] # loser
    /\ into' = [into EXCEPT ![loser] = survivor]
    /\ state' = [state EXCEPT ![survivor] = IF state[loser].rev > @.rev THEN state[loser] ELSE @,
                              ![loser] = NoState]
    /\ merged' = merged \cup {survivor, loser}
    /\ UNCHANGED <<reader, pending, events, baseline, now, lived, partial, reports>>

(* A device is reset or replaced under the same account: its counter starts again. *)
CounterRestarts(d, b) ==
    /\ Besides("reset") /\ pending[d] = None /\ reader[d][b].spent > 0
    /\ reader' = [reader EXCEPT ![d][b].spent = 0]
    /\ UNCHANGED <<pending, state, events, into, baseline, now, lived, partial, merged, reports>>

Tick ==
    /\ now < MaxTime
    /\ now' = now + 1
    /\ UNCHANGED <<reader, pending, state, events, into, baseline, lived, partial, merged, reports, besides>>

ReadingNext ==
    \/ \E d \in Devices, b \in Books :
        \/ \E minutes \in 0..1, p \in Positions, sections \in Shapes[d] :
              PutState(d, b, minutes, p, sections)
        \/ CounterRestarts(d, b)
    \/ \E d \in Devices : SaveReadingState(d) \/ SaveFails(d) \/ Sync(d)
    \/ \E s, l \in Books : MergeBooks(s, l)
    \/ Tick

ReadingSpec == ReadingInit /\ [][ReadingNext]_readingVars

-----------------------------------------------------------------------------
(* The statistics, computed whenever a page is asked for; index[b] is the  *)
(* version of book b that is measured then, 0 if none is.                  *)

(* resolveOffset: the paragraph, then its document, then the percentage. *)
ResolveOffset(index, e) ==
    IF index[e.book] = 0 THEN None
    ELSE LET m == Measured[index[e.book]] IN
         IF e.span # None /\ e.span \in DOMAIN m.block THEN m.block[e.span]
         ELSE IF e.span # None /\ DocOf[e.span] \in DOMAIN m.doc THEN m.doc[DocOf[e.span]]
         ELSE IF m.words > 0 /\ e.percent # None THEN (e.percent * m.words) \div 100
         ELSE None

DayOf(t) == t \div HoursPerDay

(* What an event adds, given where the same device was before. *)
Words(index, e, before) ==
    LET offset == ResolveOffset(index, e)
        far    == IF None \in {offset, before} THEN 0 ELSE Max({0, offset - before})
        absurd == e.delta > 0 /\ far > MaxSaneWPM * e.delta
    IN  [minutes  |-> e.delta,
         measured |-> IF None \in {offset, before} \/ absurd THEN 0 ELSE e.delta,
         words    |-> IF absurd THEN 0 ELSE far]

NoBookStats == [reports |-> 0, minutes |-> 0, measured |-> 0, words |-> 0, status |-> None,
                position |-> None, sessions |-> <<>>, at |-> [d \in Devices |-> None],
                chapters |-> [c \in Docs |-> [minutes |-> 0, read |-> 0]]]

(* One report in ReadingStatsForBook. *)
AddToBook(index, s, e) ==
    LET got    == Words(index, e, s.at[e.device])
        offset == ResolveOffset(index, e)
        joins  == s.sessions # <<>> /\ e.at - Last(s.sessions).end <= SessionGap
        old    == IF joins THEN Last(s.sessions) ELSE [start |-> e.at, minutes |-> 0]
        now_   == [start |-> old.start, end |-> e.at, minutes |-> old.minutes + got.minutes]
    IN  [reports  |-> s.reports + 1, minutes |-> s.minutes + got.minutes,
         measured |-> s.measured + got.measured, words |-> s.words + got.words,
         status   |-> e.status, position |-> IF offset = None THEN s.position ELSE offset,
         sessions |-> (IF joins THEN Front(s.sessions) ELSE s.sessions) \o <<now_>>,
         at       |-> IF offset = None THEN s.at ELSE [s.at EXCEPT ![e.device] = offset],
         chapters |-> IF e.span = None THEN s.chapters
                      ELSE [s.chapters EXCEPT ![DocOf[e.span]] =
                              [minutes |-> @.minutes + got.minutes, read |-> @.read + got.words]]]

BookStats(index, b) ==
    LET upTo[i \in 0..Len(events)] ==
          IF i = 0 THEN NoBookStats
          ELSE IF events[i].book # b THEN upTo[i - 1] ELSE AddToBook(index, upTo[i - 1], events[i])
    IN  upTo[Len(events)]

Days == 0..DayOf(MaxTime)

NoReaderStats == [reports |-> 0, minutes |-> 0, measured |-> 0, words |-> 0, sessions |-> 0,
                  days |-> [t \in Days |-> 0], hours |-> [h \in 0..HoursPerDay - 1 |-> 0],
                  status |-> [b \in Books |-> None], last |-> [b \in Books |-> None],
                  at |-> [x \in Books \X Devices |-> None]]

AddToReaderByBook(index, s, e) == \* seeded bug: positions of different devices are compared
    LET got    == Words(index, e, s.at[<<e.book, CHOOSE d \in Devices : TRUE>>])
        offset == ResolveOffset(index, e)
        when   == IF e.deviceAt = None THEN e.at ELSE e.deviceAt
        apart  == s.last[e.book] = None \/ e.at - s.last[e.book] > SessionGap
    IN  [reports |-> s.reports + 1, minutes |-> s.minutes + got.minutes,
         measured |-> s.measured + got.measured, words |-> s.words + got.words,
         sessions |-> IF apart THEN s.sessions + 1 ELSE s.sessions,
         days     |-> [s.days EXCEPT ![DayOf(when)] = @ + got.minutes],
         hours    |-> [s.hours EXCEPT ![when % HoursPerDay] = @ + got.minutes],
         status   |-> [s.status EXCEPT ![e.book] = e.status],
         last     |-> [s.last EXCEPT ![e.book] = e.at],
         at       |-> IF offset = None THEN s.at ELSE [s.at EXCEPT ![<<e.book, CHOOSE d \in Devices : TRUE>>] = offset]]

(* One report in ReadingStatsForReader: by the device's own clock, if it told the time. *)
AddToReader(index, s, e) ==
    LET got    == Words(index, e, s.at[<<e.book, e.device>>])
        offset == ResolveOffset(index, e)
        when   == IF e.deviceAt = None THEN e.at ELSE e.deviceAt
        apart  == s.last[e.book] = None \/ e.at - s.last[e.book] > SessionGap
    IN  [reports |-> s.reports + 1, minutes |-> s.minutes + got.minutes,
         measured |-> s.measured + got.measured, words |-> s.words + got.words,
         sessions |-> IF apart THEN s.sessions + 1 ELSE s.sessions,
         days     |-> [s.days EXCEPT ![DayOf(when)] = @ + got.minutes],
         hours    |-> [s.hours EXCEPT ![when % HoursPerDay] = @ + got.minutes],
         status   |-> [s.status EXCEPT ![e.book] = e.status],
         last     |-> [s.last EXCEPT ![e.book] = e.at],
         at       |-> IF offset = None THEN s.at ELSE [s.at EXCEPT ![<<e.book, e.device>>] = offset]]

ReaderStats(index) ==
    LET upTo[i \in 0..Len(events)] ==
          IF i = 0 THEN NoReaderStats ELSE AddToReader(index, upTo[i - 1], events[i])
    IN  upTo[Len(events)]

Active(days) == {t \in Days : days[t] > 0}

(* runs: the streak that today may still continue. *)
Streak(active, today) ==
    LET start     == IF today \in active THEN today ELSE today - 1
        back[t \in -1..today] == IF t \in active THEN 1 + back[t - 1] ELSE 0
    IN  IF start < 0 THEN 0 ELSE back[start]

LongestRunWithGaps(active) == \* seeded bug: a day between two days of reading is overlooked
    LET upTo[t \in {-1} \cup Days] ==
          IF t = -1 THEN [run |-> 0, prev |-> None, longest |-> 0]
          ELSE IF t \notin active THEN upTo[t - 1]
          ELSE LET s   == upTo[t - 1]
                   run == IF s.prev # None /\ t - s.prev > 2 THEN 1 ELSE s.run + 1
               IN  [run |-> run, prev |-> t, longest |-> Max({run, s.longest})]
    IN  upTo[DayOf(MaxTime)].longest

(* runs: the days of reading in order, a run ends when the next is more than 36 hours later. *)
LongestRun(active) ==
    LET upTo[t \in {-1} \cup Days] ==
          IF t = -1 THEN [run |-> 0, prev |-> None, longest |-> 0]
          ELSE IF t \notin active THEN upTo[t - 1]
          ELSE LET s   == upTo[t - 1]
                   run == IF s.prev # None /\ 24 * (t - s.prev) > 36 THEN 1 ELSE s.run + 1
               IN  [run |-> run, prev |-> t, longest |-> Max({run, s.longest})]
    IN  upTo[DayOf(MaxTime)].longest

(* level: a day against the busiest one. *)
Level(minutes, peak) ==
    IF minutes = 0 \/ peak = 0 THEN 0
    ELSE IF 4 * minutes >= 3 * peak THEN 4
    ELSE IF 2 * minutes >= peak THEN 3
    ELSE IF 4 * minutes >= peak THEN 2 ELSE 1

(* heatmap: whole weeks, Monday first, the last one holding today; day 0 is a Monday. *)
Heatmap(days, today) ==
    LET start == today - (today % 7) - (Weeks - 1) * 7
        peak  == Max({days[t] : t \in DOMAIN days})
    IN  [t \in start..start + 7 * Weeks - 1 |->
            [future  |-> t > today,
             minutes |-> IF t \in DOMAIN days THEN days[t] ELSE 0,
             level   |-> IF t \in DOMAIN days THEN Level(days[t], peak) ELSE 0]]

-----------------------------------------------------------------------------
(* Every variable has its type: a report in flight names a book and a place. *)
ReadingTypeOK ==
    /\ reader \in [Devices -> [Books -> Copies]]
    /\ pending \in [Devices -> Reported \cup {None}]
    /\ \A d \in Devices : pending[d] # None /\ pending[d].placed => pending[d].percent # None
    /\ state \in [Books -> Progress] /\ events \in Seq(Events)
    /\ into \in [Books -> Books \cup {None}]
    /\ baseline \in [Devices -> [Books -> Nat]] /\ lived \in [Devices -> [Books -> Nat]]
    /\ now \in Times /\ partial \subseteq Books /\ merged \subseteq Books
    /\ reports \in Nat /\ besides \in Nat

SumOf(f) == MapThenSumSet(LAMBDA x : f[x], DOMAIN f)

Mine(d, b)    == {i \in DOMAIN events : events[i].device = d /\ events[i].book = b}
Minutes(d, b) == SumOf([i \in Mine(d, b) |-> events[i].delta])

(* Time is never counted twice or made up: however reports repeat, miss      *)
(* sections or come from several readers with counters of their own, and     *)
(* whenever a counter starts again, the history of a book that was never     *)
(* merged holds no more minutes of a reader than it was read on it; and all  *)
(* of them since the first report, if every report had its counter.          *)
MinutesAddUp ==
    \A d \in Devices, b \in Books \ merged :
        LET mine == Mine(d, b) IN
        /\ Minutes(d, b) <= lived[d][b]
        /\ mine # {} /\ (\A i \in mine : events[i].spent # None)
             /\ (\A i, j \in mine : i < j => events[i].spent <= events[j].spent)
           => Minutes(d, b) = events[Max(mine)].spent - events[Min(mine)].spent

(* The page of a book and the page of a reader, two computations over the    *)
(* same history, agree: in minutes, in words, in sittings; days, hours and   *)
(* the calendar share out the same minutes; whatever of the books is measured *)
(* when the pages are asked for.                                              *)
PagesAgree ==
    \A index \in Indexes :
      LET all     == ReaderStats(index)
          page(b) == BookStats(index, b)
          today   == DayOf(now)
          grid    == Heatmap(all.days, today)
      IN  /\ all.reports  = SumOf([b \in Books |-> page(b).reports])
          /\ all.minutes  = SumOf([b \in Books |-> page(b).minutes])
          /\ all.measured = SumOf([b \in Books |-> page(b).measured])
          /\ all.words    = SumOf([b \in Books |-> page(b).words])
          /\ all.sessions = SumOf([b \in Books |-> Len(page(b).sessions)])
          /\ all.minutes = SumOf(all.days) /\ all.minutes = SumOf(all.hours)
          /\ \A t \in Active(all.days) : t > today - 7 * (Weeks - 1) =>
               t \in DOMAIN grid /\ ~grid[t].future /\ grid[t].level > 0

(* The streak is the number of days in a row that end today, or yesterday    *)
(* while today may still be read; the longest run is the longest such row.   *)
StreakIsRight ==
    LET active  == Active(ReaderStats([b \in Books |-> 0]).days)
        today   == DayOf(now)
        rows(t) == {n \in 0..t + 1 : (t - n + 1)..t \subseteq active}
        ending  == IF today \in active THEN today ELSE today - 1
    IN  /\ Streak(active, today) = IF ending < 0 THEN 0 ELSE Max(rows(ending))
        /\ LongestRun(active) = Max({0} \cup UNION {rows(t) : t \in active})

(* A reader that has synced and knows the revision of a book is at the place *)
(* the server has, whoever moved there last: its own move is not undone by   *)
(* an echo, and another's is not withheld.  (A place in the first percent is *)
(* not brought; and a book of which a report came without a status or a      *)
(* place, was not saved, or was merged is left out: the last writer is then  *)
(* not the one whose place it is.)                                           *)
PlaceFollows ==
    \A d \in Devices, b \in Roots \ (partial \cup merged) :
        /\ pending[d] = None
        /\ state[b].rev > 0 /\ baseline[d][b] = state[b].rev
        => /\ reader[d][b].status = state[b].status
           /\ state[b].status # "Finished" /\ state[b].percent # 0
              => Percent(reader[d][b].position) = state[b].percent
=============================================================================
