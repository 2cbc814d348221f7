-------------------------- MODULE KepubCacheProofs --------------------------
(***************************************************************************)
(* For any books, clients, slots, budget and number of versions: the cache *)
(* never serves a stale book and never converts one file twice at once.    *)
(***************************************************************************)
EXTENDS KepubCache, TLAPS

(***************************************************************************)
(* A caller has nothing, or has a book and no fingerprint yet, or has the  *)
(* fingerprint of a version between the one it found on arrival and the    *)
(* present one.                                                            *)
(***************************************************************************)
Named(s) == /\ s.fp \in Versions /\ s.asked <= s.fp
            /\ s.at \notin {"idle", "path"}
Unnamed(s) == s.fp = 0 /\ s.at \in {"path", "refused"}
Nothing(s) == s.fp = 0 /\ s.at \in {"idle", "drop"}

CallerOK(s) ==
    \/ Nothing(s)
    \/ /\ s.book \in Books
       /\ s.asked <= source[s.book] /\ s.fp <= source[s.book]
       /\ Named(s) \/ Unnamed(s)

CallersOK == \A c \in Callers : CallerOK(actor[c])

\* A converted file was made from its own version of the source or a later one.
FilesOK == \A k \in Key : file[k] = 0 \/ file[k] >= k[2]

IInv == TypeOK /\ CallersOK /\ FilesOK /\ NeverStale /\ OneConversion

LEMMA InitIInv == Init => IInv
BY KepubAssumption DEF Init, IInv, TypeOK, CallersOK, CallerOK, Nothing, FilesOK,
   NeverStale, OneConversion, Idle, ActorState, Places, Leading, Versions, Key,
   Actors, Callers, Clients

-----------------------------------------------------------------------------
(* Finish is the one action operator that changes several callers. *)
LEMMA FinishOK ==
    ASSUME IInv, NEW c \in Callers, CallerOK(actor[c]), actor[c].fp \in Versions,
           NEW place \in {"open", "refused"}, Finish(c, place)
    PROVE  /\ actor' \in [Actors -> ActorState]
           /\ \A a \in Callers : actor'[a].at \in Leading =>
                actor[a].at \in Leading /\ KeyOf(a)' = KeyOf(a)
           /\ \A a \in Callers : /\ actor'[a].fp = actor[a].fp
                                 /\ actor'[a].book = actor[a].book
                                 /\ actor'[a].asked = actor[a].asked
                                 /\ \/ actor'[a].at = actor[a].at
                                    \/ /\ actor'[a].at = place
                                       /\ actor[a].fp \in Versions
<1> USE DEF Finish, Followers, IInv, TypeOK, Actors
<1>1. actor' \in [Actors -> ActorState]
  <2>1. ASSUME NEW x \in Actors
        PROVE  IF x \in {c} \cup Followers(c)
               THEN [actor[x] EXCEPT !.at = place, !.removing = {}, !.unlinked = {}] \in ActorState
               ELSE actor[x] \in ActorState
    <3>1. actor[x] \in ActorState
      OBVIOUS
    <3> HIDE DEF Followers
    <3> QED BY <3>1 DEF ActorState, Places
  <2> HIDE DEF Followers
  <2> QED BY <2>1
<1>2. ASSUME NEW a \in Callers
      PROVE  /\ actor'[a].at \in Leading =>
                actor[a].at \in Leading /\ KeyOf(a)' = KeyOf(a)
             /\ actor'[a].fp = actor[a].fp
             /\ actor'[a].book = actor[a].book
             /\ actor'[a].asked = actor[a].asked
             /\ \/ actor'[a].at = actor[a].at
                \/ /\ actor'[a].at = place
                   /\ actor[a].fp \in Versions
  <2>1. actor[a] \in ActorState
    OBVIOUS
  <2>2. CASE a \in {c} \cup Followers(c)
    <3>1. actor'[a] = [actor[a] EXCEPT !.at = place, !.removing = {}, !.unlinked = {}]
      BY <2>2
    <3>2. a # c => KeyOf(a) = KeyOf(c)
      BY <2>2
    <3>3. actor[a].fp \in Versions
      BY <3>2 DEF KeyOf
    <3> QED BY <2>1, <3>1, <3>3 DEF ActorState, Leading, KeyOf
  <2>3. CASE a \notin {c} \cup Followers(c)
    BY <2>3 DEF KeyOf
  <2> QED BY <2>2, <2>3
<1> QED BY <1>1, <1>2

-----------------------------------------------------------------------------
(* An action that changes one actor only keeps the callers and the leaders in *)
(* order if that actor's new state is in order.                               *)
LEMMA OneActor ==
    ASSUME IInv, NEW a \in Actors, NEW s \in ActorState,
           actor' = [actor EXCEPT ![a] = s],
           UNCHANGED source,
           a \in Callers => CallerOK(s),
           (a \in Callers /\ s.at \in Leading /\ <<s.book, s.fp>> \in Key) =>
               \/ ~InFlight(<<s.book, s.fp>>)
               \/ actor[a].at \in Leading /\ KeyOf(a) = <<s.book, s.fp>>
    PROVE  actor' \in [Actors -> ActorState] /\ CallersOK' /\ OneConversion'
<1>1. actor' \in [Actors -> ActorState]
  BY DEF IInv, TypeOK
<1>2. CallersOK'
  <2> SUFFICES ASSUME NEW c \in Callers PROVE CallerOK(actor[c])'
    BY DEF CallersOK
  <2>1. CASE c = a
    <3>1. actor'[c] = s /\ CallerOK(s)
      BY <2>1 DEF IInv, TypeOK
    <3> QED BY <3>1 DEF CallerOK, Named, Unnamed, Nothing
  <2>2. CASE c # a
    <3>1. actor'[c] = actor[c] /\ actor[c] \in ActorState /\ CallerOK(actor[c])
      BY <2>2 DEF IInv, TypeOK, CallersOK, Actors
    <3> QED BY <3>1 DEF CallerOK, Named, Unnamed, Nothing, IInv, TypeOK, ActorState, Versions
  <2> QED BY <2>1, <2>2
<1>3. OneConversion'
  <2> SUFFICES ASSUME NEW x \in Callers, NEW y \in Callers, x # y,
                      (actor[x].at \in Leading)', (KeyOf(x) \in Key)',
                      (actor[y].at \in Leading)', (KeyOf(y) = KeyOf(x))'
               PROVE  FALSE
    BY DEF OneConversion
  <2>1. ASSUME NEW c \in Callers, c # a
        PROVE  actor'[c] = actor[c] /\ KeyOf(c)' = KeyOf(c)
    BY <2>1 DEF IInv, TypeOK, Actors, KeyOf
  <2>2. a \in Callers => KeyOf(a)' = <<s.book, s.fp>> /\ actor'[a] = s
    BY DEF IInv, TypeOK, Actors, KeyOf
  <2>3. CASE x # a /\ y # a
    BY <2>1, <2>3 DEF IInv, OneConversion, Key
  <2>4. CASE x = a
    BY <2>1, <2>2, <2>4 DEF IInv, OneConversion, InFlight, Key
  <2>5. CASE y = a
    BY <2>1, <2>2, <2>5 DEF IInv, OneConversion, InFlight, Key
  <2> QED BY <2>3, <2>4, <2>5
<1> QED BY <1>1, <1>2, <1>3

(* Finish keeps them in order too. *)
LEMMA FinishKeeps ==
    ASSUME IInv, NEW c \in Callers, actor[c].fp \in Versions,
           NEW place \in {"open", "refused"}, Finish(c, place), UNCHANGED source
    PROVE  actor' \in [Actors -> ActorState] /\ CallersOK' /\ OneConversion'
<1>0. CallerOK(actor[c])
  BY DEF IInv, CallersOK
<1>1. /\ actor' \in [Actors -> ActorState]
      /\ \A a \in Callers : actor'[a].at \in Leading =>
           actor[a].at \in Leading /\ KeyOf(a)' = KeyOf(a)
      /\ \A a \in Callers : /\ actor'[a].fp = actor[a].fp
                            /\ actor'[a].book = actor[a].book
                            /\ actor'[a].asked = actor[a].asked
                            /\ \/ actor'[a].at = actor[a].at
                               \/ /\ actor'[a].at = place
                                  /\ actor[a].fp \in Versions
  BY <1>0, FinishOK
<1>2. CallersOK'
  <2> SUFFICES ASSUME NEW a \in Callers PROVE CallerOK(actor[a])'
    BY DEF CallersOK
  <2>1. CallerOK(actor[a])
    BY DEF IInv, CallersOK
  <2> QED BY <1>1, <2>1 DEF CallerOK, Named, Unnamed, Nothing, Versions
<1>3. OneConversion'
  BY <1>1 DEF OneConversion, IInv
<1> QED BY <1>1, <1>2, <1>3

(* A caller that goes on with its key keeps them in order. *)
LEMMA GoesOn ==
    ASSUME IInv, NEW c \in Callers, NEW s \in ActorState,
           actor' = [actor EXCEPT ![c] = s], UNCHANGED source,
           s.book = actor[c].book, s.fp = actor[c].fp, s.asked = actor[c].asked,
           Named(actor[c]), s.at \notin {"idle", "path"},
           s.at \in Leading => actor[c].at \in Leading
    PROVE  actor' \in [Actors -> ActorState] /\ CallersOK' /\ OneConversion'
<1>1. CallerOK(actor[c])
  BY DEF IInv, CallersOK
<1>2. CallerOK(s)
  BY <1>1, KepubAssumption DEF CallerOK, Named, Unnamed, Nothing, Versions
<1>3. KeyOf(c) = <<s.book, s.fp>>
  BY DEF KeyOf
<1> QED BY <1>2, <1>3, OneActor DEF Actors

(* An actor that is done, or begins anew, keeps them in order. *)
LEMMA BeginsAnew ==
    ASSUME IInv, NEW a \in Actors, NEW s \in ActorState,
           actor' = [actor EXCEPT ![a] = s], UNCHANGED source,
           s.fp = 0,
           a \in Callers => Nothing(s) \/ (/\ s.book \in Books /\ Unnamed(s)
                                         /\ s.asked <= source[s.book])
    PROVE  actor' \in [Actors -> ActorState] /\ CallersOK' /\ OneConversion'
<1>1. a \in Callers => CallerOK(s)
  BY DEF CallerOK, Unnamed, Nothing, IInv, TypeOK, Versions
<1>2. <<s.book, s.fp>> \notin Key
  BY DEF Key, Versions
<1> QED BY <1>1, <1>2, OneActor

-----------------------------------------------------------------------------
LEMMA StepIInv == IInv /\ [Next]_vars => IInv'
<1> SUFFICES ASSUME IInv, [Next]_vars PROVE IInv'
  OBVIOUS
<1> USE KepubAssumption
<1> DEFINE Kept == actor' \in [Actors -> ActorState] /\ CallersOK' /\ OneConversion'
<1>c. ASSUME NEW c \in Callers
      PROVE  c \in Actors /\ actor[c] \in ActorState /\ CallerOK(actor[c])
  BY DEF IInv, TypeOK, CallersOK, Actors
<1>d. ASSUME NEW c \in Callers, actor[c].at \in {"wait", "acquire", "convert", "record", "open"}
      PROVE  /\ Named(actor[c]) /\ KeyOf(c) \in Key
             /\ actor[c].book \in Books /\ actor[c].fp \in Versions
             /\ actor[c].asked <= source[actor[c].book]
  BY <1>c, <1>d DEF CallerOK, Named, Unnamed, Nothing, KeyOf, Key
<1>f. UNCHANGED file => FilesOK'
  BY DEF IInv, FilesOK
<1>n. UNCHANGED late => NeverStale'
  BY DEF IInv, NeverStale
<1>k. UNCHANGED <<source, actor>> => Kept
  BY DEF IInv, TypeOK, CallersOK, CallerOK, Named, Unnamed, Nothing, OneConversion, KeyOf
<1>i. Idle \in ActorState /\ Nothing(Idle) /\ Idle.fp = 0 /\ Idle.asked = 0
  BY DEF Idle, ActorState, Places, Nothing
<1>1. ASSUME NEW c \in Callers, Path(c) PROVE IInv'
  <2> DEFINE k == <<actor[c].book, source[actor[c].book]>>
             place == IF InFlight(k) THEN "wait" ELSE IF file[k] # 0 THEN "open" ELSE "acquire"
             s == [actor[c] EXCEPT !.fp = k[2], !.at = place]
  <2>1. actor[c].book \in Books /\ actor[c].asked <= source[actor[c].book]
    BY <1>1, <1>c DEF Path, At, CallerOK, Unnamed, Named, Nothing
  <2>2. actor' = [actor EXCEPT ![c] = s] /\ UNCHANGED <<source, file, rows, failures, pass, late, changes>>
    BY <1>1, <1>c DEF Path, Fingerprint, IInv, TypeOK
  <2>3. source[actor[c].book] \in Versions
    BY <2>1 DEF IInv, TypeOK
  <2>4. /\ s \in ActorState /\ s.book = actor[c].book /\ s.fp = k[2]
        /\ s.at = place /\ s.asked = actor[c].asked
        /\ place \in {"wait", "open", "acquire"}
    <3>1. place \in {"wait", "open", "acquire"}
      OBVIOUS
    <3>2. k[2] \in 0..MaxVersion
      BY <2>3 DEF Versions
    <3> HIDE DEF place, k
    <3> QED BY <1>c, <3>1, <3>2 DEF ActorState, Places
  <2>5. CallerOK(s)
    BY <2>1, <2>3, <2>4 DEF CallerOK, Named, Versions
  <2>6. s.at \in Leading => ~InFlight(<<s.book, s.fp>>)
    BY <2>4 DEF Leading
  <2>7. Kept
    <3> HIDE DEF s
    <3> QED BY <1>c, <2>2, <2>4, <2>5, <2>6, OneActor
  <2> QED BY <1>f, <1>n, <2>2, <2>7 DEF IInv, TypeOK
<1>2. ASSUME NEW c \in Callers, Acquire(c) PROVE IInv'
  <2>1. actor[c].at = "acquire" /\ Named(actor[c]) /\ actor[c].fp \in Versions
    BY <1>2, <1>d DEF Acquire, At
  <2>2. UNCHANGED <<source, file, rows, failures, pass, late, changes>>
    BY <1>2 DEF Acquire
  <2>3. Finish(c, "open") \/ Finish(c, "refused") \/ Move(c, "convert")
    BY <1>2 DEF Acquire
  <2>4. ASSUME Move(c, "convert") PROVE Kept
    <3> DEFINE s == [actor[c] EXCEPT !.at = "convert"]
    <3>1. /\ s \in ActorState /\ s.book = actor[c].book /\ s.fp = actor[c].fp
          /\ s.at = "convert" /\ s.asked = actor[c].asked
      BY <1>c DEF ActorState, Places
    <3>2. actor' = [actor EXCEPT ![c] = s]
      BY <1>c, <2>4 DEF Move, IInv, TypeOK
    <3> HIDE DEF s
    <3> QED BY <2>1, <2>2, <3>1, <3>2, GoesOn DEF Leading
  <2>5. Kept
    BY <2>1, <2>2, <2>3, <2>4, FinishKeeps
  <2> QED BY <1>f, <1>n, <2>2, <2>5 DEF IInv, TypeOK
<1>3. ASSUME NEW c \in Callers, Convert(c) PROVE IInv'
  <2>1. actor[c].at = "convert" /\ Named(actor[c]) /\ KeyOf(c) \in Key /\ actor[c].book \in Books
        /\ UNCHANGED <<source, rows, failures, pass, late, changes>>
    BY <1>3, <1>d DEF Convert, At
  <2>2. source[actor[c].book] \in 0..MaxVersion /\ source[actor[c].book] >= actor[c].fp
    BY <2>1, <1>c DEF CallerOK, Named, Unnamed, Nothing, IInv, TypeOK, Versions
  <2>3. file' \in [Key -> 0..MaxVersion] /\ FilesOK'
    BY <1>3, <2>1, <2>2 DEF Convert, IInv, TypeOK, FilesOK, KeyOf
  <2>4. Kept
    <3> DEFINE s == [actor[c] EXCEPT !.at = "record"]
    <3>1. /\ s \in ActorState /\ s.book = actor[c].book /\ s.fp = actor[c].fp
          /\ s.at = "record" /\ s.asked = actor[c].asked
      BY <1>c DEF ActorState, Places
    <3>2. actor' = [actor EXCEPT ![c] = s]
      BY <1>c, <1>3 DEF Convert, Move, IInv, TypeOK
    <3> HIDE DEF s
    <3> QED BY <2>1, <3>1, <3>2, GoesOn DEF Leading
  <2> QED BY <1>n, <2>1, <2>3, <2>4 DEF IInv, TypeOK
<1>4. ASSUME NEW c \in Callers, TooLarge(c) \/ ConvertFails(c) PROVE IInv'
  <2>1. /\ actor[c].fp \in Versions /\ KeyOf(c) \in Key /\ Finish(c, "refused")
        /\ UNCHANGED <<source, file, rows, pass, late>>
    BY <1>4, <1>d DEF TooLarge, ConvertFails, At
  <2>2. failures' \subseteq Key /\ changes' \in 0..MaxChanges
    BY <1>4, <2>1 DEF TooLarge, ConvertFails, RecordFailure, IInv, TypeOK
  <2>3. Kept
    BY <2>1, FinishKeeps
  <2> QED BY <1>f, <1>n, <2>1, <2>2, <2>3 DEF IInv, TypeOK
<1>5. ASSUME NEW c \in Callers, Record(c) PROVE IInv'
  <2>1. /\ actor[c].at = "record" /\ Named(actor[c]) /\ actor[c].fp \in Versions
        /\ KeyOf(c) \in Key /\ UNCHANGED <<source, file, pass, late, changes>>
    BY <1>5, <1>d DEF Record, At
  <2>2. rows' \subseteq Key /\ failures' \subseteq Key
    BY <1>5, <2>1 DEF Record, IInv, TypeOK
  <2>3. CASE Finish(c, "open")
    <3>1. Kept
      BY <2>1, <2>3, FinishKeeps
    <3> QED BY <1>f, <1>n, <2>1, <2>2, <3>1 DEF IInv, TypeOK
  <2>4. CASE actor' = [actor EXCEPT ![c].at = "drop", ![c].removing = OtherThan(KeyOf(c))]
    <3> DEFINE s == [actor[c] EXCEPT !.at = "drop", !.removing = OtherThan(KeyOf(c))]
    <3>1. OtherThan(KeyOf(c)) \subseteq Key
      BY DEF OtherThan, IInv, TypeOK
    <3>2. /\ s \in ActorState /\ s.book = actor[c].book /\ s.fp = actor[c].fp
          /\ s.at = "drop" /\ s.asked = actor[c].asked
      BY <1>c, <3>1 DEF ActorState, Places
    <3>3. actor' = [actor EXCEPT ![c] = s]
      BY <1>c, <2>4 DEF IInv, TypeOK
    <3>4. Kept
      <4> HIDE DEF s
      <4> QED BY <2>1, <3>2, <3>3, GoesOn DEF Leading
    <3> QED BY <1>f, <1>n, <2>1, <2>2, <3>4 DEF IInv, TypeOK
  <2> QED BY <1>5, <2>3, <2>4 DEF Record
<1>6. ASSUME NEW c \in Callers, Open(c) PROVE IInv'
  <2>1. /\ c \in Clients /\ Named(actor[c]) /\ KeyOf(c) \in Key
    BY <1>6, <1>d DEF Open, At
  <2>2. late' = {} /\ UNCHANGED <<source, file, rows, failures, pass, changes>>
    BY <1>6, <1>c, <2>1 DEF Open, Answer, IInv, TypeOK, NeverStale, FilesOK, Named, KeyOf,
       Key, Versions, ActorState
  <2>3. actor' = [actor EXCEPT ![c] = Idle]
    BY <1>6 DEF Open, Answer
  <2>4. Kept
    BY <1>c, <1>i, <2>2, <2>3, BeginsAnew
  <2> QED BY <1>f, <2>2, <2>4 DEF IInv, TypeOK, NeverStale
<1>7. ASSUME NEW c \in Callers, Refused(c) PROVE IInv'
  <2>1. c \in Clients /\ actor[c].asked <= source[actor[c].book]
        /\ actor[c].asked \in Nat /\ source[actor[c].book] \in Nat
    BY <1>7, <1>c DEF Refused, At, CallerOK, Nothing, ActorState, IInv, TypeOK, Versions
  <2>2. late' = {} /\ UNCHANGED <<source, file, rows, failures, pass, changes>>
    BY <1>7, <2>1 DEF Refused, Answer, IInv, NeverStale
  <2>3. actor' = [actor EXCEPT ![c] = Idle]
    BY <1>7 DEF Refused, Answer
  <2>4. Kept
    BY <1>c, <1>i, <2>2, <2>3, BeginsAnew
  <2> QED BY <1>f, <2>2, <2>4 DEF IInv, TypeOK, NeverStale
<1>8. ASSUME NEW a \in Actors, Unlink(a) PROVE IInv'
  <2>1. PICK k \in actor[a].removing :
           /\ file' = [file EXCEPT ![k] = 0]
           /\ actor' = [actor EXCEPT ![a].unlinked = {k}]
    BY <1>8 DEF Unlink
  <2>2. actor[a] \in ActorState /\ k \in Key
    BY <2>1 DEF IInv, TypeOK, ActorState
  <2>3. UNCHANGED <<source, rows, failures, pass, late, changes>> /\ actor[a].at = "drop"
    BY <1>8 DEF Unlink, At
  <2>4. file' \in [Key -> 0..MaxVersion] /\ FilesOK'
    BY <2>1, <2>2 DEF IInv, TypeOK, FilesOK
  <2> DEFINE s == [actor[a] EXCEPT !.unlinked = {k}]
  <2>5. /\ s \in ActorState /\ s.book = actor[a].book /\ s.fp = actor[a].fp
        /\ s.at = "drop" /\ s.asked = actor[a].asked
    BY <2>2, <2>3 DEF ActorState
  <2>6. actor' = [actor EXCEPT ![a] = s]
    BY <2>1 DEF IInv, TypeOK
  <2>7. CASE a \in Callers /\ Named(actor[a])
    <3>1. Kept
      <4> HIDE DEF s
      <4> QED BY <2>3, <2>5, <2>6, <2>7, GoesOn DEF Leading
    <3> QED BY <1>n, <2>3, <2>4, <3>1 DEF IInv, TypeOK
  <2>8. CASE a \in Callers /\ ~Named(actor[a])
    <3>1. actor[a].fp = 0
      BY <1>c, <2>3, <2>8 DEF CallerOK, Nothing, Unnamed
    <3>2. Kept
      <4> HIDE DEF s
      <4> QED BY <2>3, <2>5, <2>6, <2>8, <3>1, BeginsAnew DEF Nothing, Actors
    <3> QED BY <1>n, <2>3, <2>4, <3>2 DEF IInv, TypeOK
  <2>9. CASE a \notin Callers
    <3>1. Kept
      <4> HIDE DEF s
      <4> QED BY <2>3, <2>5, <2>6, <2>9, OneActor
    <3> QED BY <1>n, <2>3, <2>4, <3>1 DEF IInv, TypeOK
  <2> QED BY <2>7, <2>8, <2>9
<1>9. ASSUME NEW a \in Actors, DeleteRow(a) PROVE IInv'
  <2>1. /\ actor[a].at = "drop" /\ actor[a] \in ActorState
        /\ UNCHANGED <<source, file, failures, pass, late, changes>>
    BY <1>9 DEF DeleteRow, At, IInv, TypeOK
  <2>2. rows' \subseteq Key
    BY <1>9 DEF DeleteRow, IInv, TypeOK
  <2>3. ASSUME a \in Callers, actor[a].fp # 0, Finish(a, "open") PROVE Kept
    <3>1. actor[a].fp \in Versions
      BY <1>c, <2>1, <2>3 DEF CallerOK, Nothing, Unnamed, Named
    <3> QED BY <2>1, <2>3, <3>1, FinishKeeps
  <2>4. ASSUME actor' = [actor EXCEPT ![a] = Idle] PROVE Kept
    BY <1>i, <2>1, <2>4, BeginsAnew
  <2>5. ASSUME NEW rest, rest \subseteq Key,
               actor' = [actor EXCEPT ![a].removing = rest, ![a].unlinked = {}]
        PROVE  Kept
    <3> DEFINE s == [actor[a] EXCEPT !.removing = rest, !.unlinked = {}]
    <3>1. /\ s \in ActorState /\ s.book = actor[a].book /\ s.fp = actor[a].fp
          /\ s.at = "drop" /\ s.asked = actor[a].asked
      BY <2>1, <2>5 DEF ActorState
    <3>2. actor' = [actor EXCEPT ![a] = s]
      BY <2>5 DEF IInv, TypeOK
    <3> HIDE DEF s
    <3>3. CASE a \in Callers /\ Named(actor[a])
      BY <2>1, <3>1, <3>2, <3>3, GoesOn DEF Leading
    <3>4. CASE a \in Callers /\ ~Named(actor[a])
      <4>1. actor[a].fp = 0
        BY <1>c, <2>1, <3>4 DEF CallerOK, Nothing, Unnamed
      <4> QED BY <2>1, <3>1, <3>2, <3>4, <4>1, BeginsAnew DEF Nothing
    <3>5. CASE a \notin Callers
      BY <2>1, <3>1, <3>2, <3>5, OneActor
    <3> QED BY <3>3, <3>4, <3>5
  <2>6. actor[a].removing \ actor[a].unlinked \subseteq Key
    BY <2>1 DEF ActorState
  <2>7. Kept
    <3> HIDE DEF Kept
    <3> QED BY <1>9, <2>3, <2>4, <2>5, <2>6 DEF DeleteRow
  <2> QED BY <1>f, <1>n, <2>1, <2>2, <2>7 DEF IInv, TypeOK
<1>10. ASSUME NEW c \in Clients, NEW b \in Books, Ask(c, b) PROVE IInv'
  <2> DEFINE place == IF c \in Devices /\ Failed(b) THEN "refused" ELSE "path"
             s == [Idle EXCEPT !.book = b, !.asked = source[b], !.at = place]
  <2>1. source[b] \in 0..MaxVersion
    BY DEF IInv, TypeOK, Versions
  <2>2. place \in {"refused", "path"}
    OBVIOUS
  <2>3. /\ s \in ActorState /\ s.fp = 0 /\ s.book = b /\ s.asked = source[b]
        /\ s.at = place
    <3> HIDE DEF place
    <3> QED BY <1>i, <2>1, <2>2 DEF ActorState, Places
  <2>4. actor' = [actor EXCEPT ![c] = s]
        /\ UNCHANGED <<source, file, rows, failures, pass, late, changes>>
    BY <1>10 DEF Ask
  <2>5. Kept
    <3> HIDE DEF s, place
    <3>1. s.book \in Books /\ Unnamed(s) /\ s.asked <= source[s.book]
      BY <2>1, <2>2, <2>3 DEF Unnamed
    <3> QED BY <2>3, <2>4, <3>1, BeginsAnew DEF Actors, Callers
  <2> QED BY <1>f, <1>n, <2>4, <2>5 DEF IInv, TypeOK
<1>11. ASSUME NEW c \in Clients, Cancel(c) PROVE IInv'
  <2>1. /\ c \in Callers /\ actor[c].at \notin {"idle", "open", "refused"}
        /\ UNCHANGED <<source, file, rows, failures, pass, late>>
        /\ changes' \in 0..MaxChanges
    BY <1>11 DEF Cancel, Change, Callers, IInv, TypeOK
  <2> DEFINE s == [actor[c] EXCEPT !.live = FALSE]
  <2>2. /\ s \in ActorState /\ s.book = actor[c].book /\ s.fp = actor[c].fp
        /\ s.at = actor[c].at /\ s.asked = actor[c].asked
    BY <1>c, <2>1 DEF ActorState
  <2>3. actor' = [actor EXCEPT ![c] = s]
    BY <1>11 DEF Cancel, IInv, TypeOK
  <2>4. CallerOK(s) /\ (s.at \in Leading => KeyOf(c) = <<s.book, s.fp>>)
    BY <1>c, <2>1, <2>2 DEF CallerOK, Named, Unnamed, Nothing, KeyOf
  <2>5. Kept
    <3> HIDE DEF s
    <3> QED BY <1>c, <2>1, <2>2, <2>3, <2>4, OneActor
  <2> QED BY <1>f, <1>n, <2>1, <2>5 DEF IInv, TypeOK
<1>12. ASSUME PassStep PROVE IInv'
  <2>1. /\ Prewarmer \in Callers /\ Prewarmer \in Actors
        /\ UNCHANGED <<source, file, rows, failures, late, changes>>
    <3>1. Prewarmer \in Callers /\ Prewarmer \in Actors
      BY DEF Callers, Actors
    <3>2. CASE StartPass \/ Pending \/ Visited
      BY <3>1, <3>2 DEF StartPass, Pending, Visited
    <3>3. CASE \E b \in Books : DropStale(b) \/ Visit(b)
      BY <3>1, <3>3 DEF DropStale, Visit
    <3> QED BY <1>12, <3>2, <3>3 DEF PassStep
  <2>2. pass' \in [for : {"stale", "pending"}, todo : SUBSET Books]
    <3>1. pass \in [for : {"stale", "pending"}, todo : SUBSET Books] /\ rows \subseteq Key
      BY DEF IInv, TypeOK
    <3>2. CASE StartPass
      <4>1. {k[1] : k \in rows} \subseteq Books
        BY <3>1 DEF Key
      <4> QED BY <3>2, <4>1 DEF StartPass
    <3>3. CASE Pending
      BY <3>3 DEF Pending
    <3>4. CASE Visited
      BY <3>1, <3>4 DEF Visited
    <3>5. CASE \E b \in Books : DropStale(b) \/ Visit(b)
      BY <3>1, <3>5 DEF DropStale, Visit
    <3> QED BY <1>12, <3>2, <3>3, <3>4, <3>5 DEF PassStep
  <2>3. CASE UNCHANGED actor
    <3>1. Kept
      BY <1>k, <2>1, <2>3
    <3> QED BY <1>f, <1>n, <2>1, <2>2, <3>1 DEF IInv, TypeOK
  <2>4. ASSUME NEW s \in ActorState, actor' = [actor EXCEPT ![Prewarmer] = s], s.fp = 0,
               Nothing(s) \/ (s.book \in Books /\ Unnamed(s) /\ s.asked <= source[s.book])
        PROVE  IInv'
    <3>1. Kept
      BY <2>1, <2>4, BeginsAnew
    <3> QED BY <1>f, <1>n, <2>1, <2>2, <3>1 DEF IInv, TypeOK
  <2>5. CASE Visited
    BY <1>i, <2>4, <2>5 DEF Visited
  <2>6. ASSUME NEW b \in Books, DropStale(b), actor' # actor PROVE IInv'
    <3> DEFINE other == OtherThan(<<b, Fingerprint(b)>>)
               s == [actor[Prewarmer] EXCEPT !.at = "drop", !.removing = other]
    <3>1. other \subseteq Key /\ actor[Prewarmer].at = "idle"
      BY <2>6 DEF DropStale, PrewarmerFree, At, OtherThan, IInv, TypeOK
    <3>2. actor[Prewarmer] \in ActorState /\ actor[Prewarmer].fp = 0
      BY <1>c, <2>1, <3>1 DEF CallerOK, Nothing, Named, Unnamed
    <3>3. s \in ActorState /\ s.fp = 0 /\ s.at = "drop"
      <4> HIDE DEF other
      <4> QED BY <3>1, <3>2 DEF ActorState, Places
    <3>4. actor' = [actor EXCEPT ![Prewarmer] = s]
      <4>1. actor' = [actor EXCEPT ![Prewarmer].at = "drop", ![Prewarmer].removing = other]
        BY <2>6 DEF DropStale
      <4> HIDE DEF other
      <4> QED BY <4>1, <2>1 DEF IInv, TypeOK
    <3> HIDE DEF s
    <3> QED BY <2>4, <3>3, <3>4 DEF Nothing
  <2>7. ASSUME NEW b \in Books, Visit(b), actor' # actor PROVE IInv'
    <3> DEFINE s == [Idle EXCEPT !.book = b, !.at = "path"]
    <3>1. s \in ActorState /\ s.fp = 0 /\ s.book = b /\ s.at = "path" /\ s.asked = 0
      BY <1>i DEF ActorState, Places
    <3>2. actor' = [actor EXCEPT ![Prewarmer] = s]
      BY <2>7 DEF Visit
    <3>3. 0 <= source[b]
      BY DEF IInv, TypeOK, Versions
    <3> HIDE DEF s
    <3> QED BY <2>4, <3>1, <3>2, <3>3 DEF Unnamed
  <2> QED BY <1>12, <2>3, <2>5, <2>6, <2>7 DEF PassStep, StartPass, Pending, DropStale, Visit
<1>13. CASE Evict
  <2>1. UNCHANGED <<source, file, rows, failures, pass, late, changes>> /\ Janitor \in Actors
    BY <1>13 DEF Evict, Actors
  <2>2. PICK kept \in SUBSET rows : actor' = [actor EXCEPT ![Janitor] =
                        [Idle EXCEPT !.at = "drop", !.removing = rows \ kept]]
    BY <1>13 DEF Evict
  <2> DEFINE s == [Idle EXCEPT !.at = "drop", !.removing = rows \ kept]
  <2>3. s \in ActorState /\ s.fp = 0 /\ s.at = "drop"
    BY <1>i DEF ActorState, Places, IInv, TypeOK
  <2>4. Kept
    <3>1. actor' = [actor EXCEPT ![Janitor] = s]
      BY <2>2
    <3> HIDE DEF s
    <3> QED BY <2>1, <2>3, <3>1, BeginsAnew DEF Nothing
  <2> QED BY <1>f, <1>n, <2>1, <2>4 DEF IInv, TypeOK
<1>14. ASSUME NEW b \in Books, Replace(b) PROVE IInv'
  <2>1. /\ source' \in [Books -> Versions] /\ changes' \in 0..MaxChanges
        /\ \A x \in Books : source'[x] >= source[x] /\ source[x] \in Nat /\ source'[x] \in Nat
        /\ UNCHANGED <<file, rows, failures, actor, pass, late>>
    BY <1>14 DEF Replace, Change, IInv, TypeOK, Versions
  <2>2. CallersOK'
    <3> SUFFICES ASSUME NEW c \in Callers PROVE CallerOK(actor[c])'
      BY DEF CallersOK
    <3>1. CallerOK(actor[c]) /\ actor'[c] = actor[c] /\ actor[c] \in ActorState
      BY <1>c, <2>1
    <3> QED BY <2>1, <3>1 DEF CallerOK, Named, Unnamed, Nothing, ActorState
  <2>3. OneConversion'
    BY <2>1 DEF IInv, OneConversion, KeyOf
  <2> QED BY <1>f, <1>n, <2>1, <2>2, <2>3 DEF IInv, TypeOK
<1>15. ASSUME NEW b \in Books, Rebuild(b) PROVE IInv'
  <2>1. /\ UNCHANGED <<source, file, actor, pass, late>> /\ changes' \in 0..MaxChanges
        /\ rows' \subseteq Key /\ failures' \subseteq Key
    BY <1>15 DEF Rebuild, Change, IInv, TypeOK
  <2>2. Kept
    BY <1>k, <2>1
  <2> QED BY <1>f, <1>n, <2>1, <2>2 DEF IInv, TypeOK
<1>16. CASE Crash
  <2>1. /\ UNCHANGED <<source, file, rows, failures, late>> /\ changes' \in 0..MaxChanges
        /\ actor' = [a \in Actors |-> Idle]
        /\ pass' \in [for : {"stale", "pending"}, todo : SUBSET Books]
    BY <1>16 DEF Crash, Change, IInv, TypeOK
  <2>2. CallersOK'
    BY <1>i, <2>1 DEF CallersOK, CallerOK, Nothing, Actors
  <2>3. OneConversion'
    BY <2>1 DEF OneConversion, Idle, Leading, Actors
  <2> QED BY <1>f, <1>i, <1>n, <2>1, <2>2, <2>3 DEF IInv, TypeOK
<1>17. CASE UNCHANGED vars
  <2>1. Kept
    BY <1>k, <1>17 DEF vars
  <2> QED BY <1>f, <1>n, <1>17, <2>1 DEF vars, IInv, TypeOK
<1> QED
  BY <1>1, <1>2, <1>3, <1>4, <1>5, <1>6, <1>7, <1>8, <1>9, <1>10, <1>11, <1>12,
     <1>13, <1>14, <1>15, <1>16, <1>17 DEF Next, Step, Actors

\* Every reachable state satisfies the inductive invariant.
THEOREM Inductive == Spec => []IInv
<1> QED BY InitIInv, StepIInv, PTL DEF Spec

\* The state has its types: the places, keys and versions the code can be at.
THEOREM KepubTypes == Spec => []TypeOK
<1>1. IInv => TypeOK
  BY DEF IInv
<1> QED BY <1>1, Inductive, PTL

\* A download never brings an older book than the library had on its arrival,
\* with any number of clients, books and versions.
THEOREM NothingStale == Spec => []NeverStale
<1>1. IInv => NeverStale
  BY DEF IInv
<1> QED BY <1>1, Inductive, PTL

\* One conversion of one file at a time, with any number of clients.
THEOREM SingleFlight == Spec => []OneConversion
<1>1. IInv => OneConversion
  BY DEF IInv
<1> QED BY <1>1, Inductive, PTL
=============================================================================
