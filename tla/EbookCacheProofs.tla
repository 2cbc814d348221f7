-------------------------- MODULE EbookCacheProofs --------------------------
(***************************************************************************)
(* The cache of converted books implements OnDemand: whoever asks for a     *)
(* book is given a version the library held between asking and answering,   *)
(* whatever is cached, joined, cancelled, evicted and replaced meanwhile.   *)
(*                                                                         *)
(* The inductive invariant orders versions.  A request was made no later    *)
(* than its fingerprint was taken, a fingerprint is no newer than the       *)
(* library's file, and a copy is no older than the fingerprint in its name  *)
(* and no newer than the library's file.  Versions only grow.               *)
(*                                                                         *)
(* With it: a word index is of the file its fingerprint names, and a scaled *)
(* cover is as new as the id it is sent under.                              *)
(***************************************************************************)
EXTENDS CoverCache, TLAPS

CopiesOK == \A k \in Key : copy[k] # 0 => k[2] <= copy[k] /\ copy[k] <= source[k[1]]

HasKey(a) ==
  \/ actor[a].at \in {"wait", "acquire", "convert", "record"}
  \/ actor[a].at \in {"open", "recover"} /\ actor[a].book \in Convertible

AskedOK(a) == actor[a].at # "idle" => actor[a].book \in Books /\ actor[a].asked <= source[actor[a].book]
KeyOK(a) ==
  HasKey(a) => /\ actor[a].book \in Convertible /\ actor[a].fp \in Versions
               /\ actor[a].asked <= actor[a].fp /\ actor[a].fp <= source[actor[a].book]
CallersOK == \A a \in Callers : AskedOK(a) /\ KeyOK(a)

Inv == EbookTypeOK /\ CopiesOK /\ CallersOK

Places == {"idle", "path", "wait", "acquire", "convert", "record", "failed", "open",
           "kepub", "plain", "measured", "recover", "resolve"}
Record0 == [at : Places, book : Books \cup {"none"}, fp : 0 .. MaxVersion, asked : 0 .. MaxVersion,
            of : 0 .. MaxVersion, live : BOOLEAN]

-----------------------------------------------------------------------------
(* What a request is to the abstract cache. *)
Requests == [c \in Clients |-> IF Pending(c) THEN [book |-> actor[c].book, version |-> actor[c].asked]
                               ELSE Nothing]

PendingAt == {"path", "wait", "acquire", "convert", "record", "open", "failed"}

(* Steps between asking and answering are not seen by the abstract cache. *)
LEMMA SameRequests ==
  ASSUME \A c \in Clients : /\ actor'[c].at \in PendingAt <=> actor[c].at \in PendingAt
                            /\ actor[c].at \in PendingAt =>
                                 actor'[c].book = actor[c].book /\ actor'[c].asked = actor[c].asked
  PROVE  Requests' = Requests
  BY DEF Requests, Pending, PendingAt

(* The builder of indexes is no client of the abstract cache. *)
LEMMA NotTheBuilder ==
  ASSUME NEW r, actor \in [Callers -> Record0], actor' = [actor EXCEPT ![Builder] = r]
  PROVE  Requests' = Requests
<1>1. \A c \in Clients : actor'[c] = actor[c]
  BY EbookAssumption DEF Callers, Clients
<1> QED BY <1>1, SameRequests
-----------------------------------------------------------------------------
(* The invariant *)

LEMMA TypesOfInv ==
  ASSUME Inv
  PROVE  /\ actor \in [Callers -> Record0] /\ source \in [Books -> Versions]
         /\ copy \in [Key -> 0 .. MaxVersion]
         /\ \A a \in Callers : AskedOK(a) /\ KeyOK(a)
BY DEF Inv, EbookTypeOK, CallersOK, Record0, Places

(* A step that moves one goroutine, or none. *)
LEMMA OneMoves ==
  ASSUME Inv, NEW a \in Callers, NEW q \in Record0, actor' = [actor EXCEPT ![a] = q],
         source' = source, (AskedOK(a) /\ KeyOK(a))'
  PROVE  CallersOK' /\ actor' \in [Callers -> Record0]
<1>1. actor' \in [Callers -> Record0]
  BY TypesOfInv
<1>2. ASSUME NEW x \in Callers, x # a PROVE (AskedOK(x) /\ KeyOK(x))'
  <2>1. actor'[x] = actor[x]
    BY <1>2, TypesOfInv
  <2> QED BY <2>1, TypesOfInv DEF AskedOK, KeyOK, HasKey
<1> QED BY <1>1, <1>2 DEF CallersOK

(* A conversion ends, and so does the waiting of those who joined it. *)
LEMMA AllAreTold ==
  ASSUME Inv, NEW a \in Callers, HasKey(a), actor[a].at # "recover", NEW at \in {"open", "failed"}, Finish(a, at), source' = source
  PROVE  CallersOK' /\ actor' \in [Callers -> Record0] /\ Requests' = Requests
<1>1. ASSUME NEW x \in Callers
      PROVE  /\ actor'[x] = actor[x] \/ (HasKey(x) /\ actor[x].at # "recover" /\ actor'[x] = [actor[x] EXCEPT !.at = at])
             /\ actor'[x] \in Record0 /\ (AskedOK(x) /\ KeyOK(x))'
  <2>1. actor[x] \in Record0 /\ AskedOK(x) /\ KeyOK(x)
    BY TypesOfInv
  <2>2. CASE x = a \/ (At(x, "wait") /\ KeyOf(x) = KeyOf(a))
    <3>1. HasKey(x) /\ actor[x].at # "recover" /\ actor'[x] = [actor[x] EXCEPT !.at = at]
      BY <2>2 DEF Finish, HasKey, At
    <3> QED BY <2>1, <3>1 DEF Record0, Places, AskedOK, KeyOK, HasKey
  <2>3. CASE ~ (x = a \/ (At(x, "wait") /\ KeyOf(x) = KeyOf(a)))
    <3>1. actor'[x] = actor[x]
      BY <2>3 DEF Finish
    <3> QED BY <2>1, <3>1 DEF AskedOK, KeyOK, HasKey
  <2> QED BY <2>2, <2>3
<1>2. actor' \in [Callers -> Record0]
  BY <1>1 DEF Finish
<1>3. Requests' = Requests
  <2>1. ASSUME NEW c \in Clients
        PROVE  /\ actor'[c].at \in PendingAt <=> actor[c].at \in PendingAt
               /\ actor'[c].book = actor[c].book /\ actor'[c].asked = actor[c].asked
    <3>1. c \in Callers /\ actor[c] \in Record0
      BY TypesOfInv DEF Callers
    <3> QED BY <1>1, <3>1 DEF Record0, HasKey, PendingAt
  <2> QED BY <2>1, SameRequests
<1> QED BY <1>1, <1>2, <1>3 DEF CallersOK
-----------------------------------------------------------------------------
(* What the abstract cache sees of a step *)

AbstractStep == [Promise!Next]_(Promise!vars)

LEMMA Unseen ==
  ASSUME Requests' = Requests, source' = source, given' = given
  PROVE  AbstractStep
BY DEF AbstractStep, Promise!vars, Requests

LEMMA SeenAsAsking ==
  ASSUME NEW c \in Clients, NEW b \in Books, Requests[c] = Nothing, source' = source, given' = given,
         Requests' = [Requests EXCEPT ![c] = [book |-> b, version |-> source[b]]]
  PROVE  AbstractStep
<1>1. Promise!Ask(c, b)
  BY DEF Promise!Ask, Promise!NoRequest, Nothing, Requests
<1> QED BY <1>1 DEF AbstractStep, Promise!Next

LEMMA SeenAsRefusal ==
  ASSUME NEW C \in SUBSET Clients, source' = source, given' = given,
         Requests' = [c \in Clients |-> IF c \in C THEN Nothing ELSE Requests[c]]
  PROVE  AbstractStep
<1>1. Promise!Refuse(C)
  BY DEF Promise!Refuse, Promise!NoRequest, Nothing, Requests
<1> QED BY <1>1 DEF AbstractStep, Promise!Next

LEMMA SeenAsAnswer ==
  ASSUME NEW c \in Clients, Requests[c] # Nothing, source' = source,
         NEW v \in Requests[c].version .. source[Requests[c].book],
         given' = [given EXCEPT ![c] = [book |-> Requests[c].book, version |-> v]],
         Requests' = [Requests EXCEPT ![c] = Nothing]
  PROVE  AbstractStep
<1>1. Promise!Answer(c)
  BY DEF Promise!Answer, Promise!NoRequest, Nothing, Requests
<1> QED BY <1>1 DEF AbstractStep, Promise!Next

-----------------------------------------------------------------------------
(* The steps of those who ask *)

Kept == CallersOK' /\ actor' \in [Callers -> Record0]

LEMMA IdleFits == Idle \in Record0
BY EbookAssumption DEF Idle, Record0, Places

LEMMA BeginsFits ==
  ASSUME Inv, NEW a \in Callers, NEW b \in Books, At(a, "idle"), Begins(a, b), source' = source, given' = given
  PROVE  Kept /\ AbstractStep
<1> DEFINE q == [Idle EXCEPT !.at = "path", !.book = b, !.asked = source[b]]
<1>1. q \in Record0 /\ q.at = "path" /\ q.book = b /\ q.asked = source[b]
  <2>1. source[b] \in 0 .. MaxVersion
    BY TypesOfInv, EbookAssumption DEF Versions
  <2> QED BY <2>1, IdleFits DEF Record0, Places
<1>2. actor' = [actor EXCEPT ![a] = q] /\ actor'[a] = q
  BY TypesOfInv DEF Begins
<1>3. (AskedOK(a) /\ KeyOK(a))'
  BY <1>1, <1>2, TypesOfInv, EbookAssumption DEF AskedOK, KeyOK, HasKey, Versions
<1>4. Kept
  BY <1>1, <1>2, <1>3, OneMoves DEF Kept
<1> SUFFICES AbstractStep
  BY <1>4
<1>5. CASE a = Builder
  <2>1. Requests' = Requests
    <3> HIDE DEF q
    <3> QED BY <1>2, <1>5, NotTheBuilder, TypesOfInv
  <2> QED BY <2>1, Unseen
<1>6. CASE a \in Clients
  <2>1. Requests' = [Requests EXCEPT ![a] = [book |-> b, version |-> source[b]]]
    <3>1. Pending(a)'
      BY <1>1, <1>2 DEF Pending
    <3>2. ASSUME NEW c \in Clients, c # a PROVE actor'[c] = actor[c]
      BY <1>2, <3>2, TypesOfInv DEF Callers
    <3> QED BY <1>1, <1>2, <1>6, <3>1, <3>2 DEF Requests, Pending
  <2>2. Requests[a] = Nothing
    BY <1>6 DEF Requests, Pending, At
  <2> QED BY <1>6, <2>1, <2>2, SeenAsAsking
<1> QED BY <1>5, <1>6 DEF Callers

(* A goroutine goes on with what it has been asked. *)
LEMMA MovesOn ==
  ASSUME Inv, NEW a \in Callers, NEW q \in Record0, actor' = [actor EXCEPT ![a] = q],
         actor[a].at \in PendingAt, q.at \in PendingAt,
         q.book = actor[a].book, q.asked = actor[a].asked,
         KeyOK(a)', source' = source, given' = given
  PROVE  Kept /\ AbstractStep
<1>1. actor'[a] = q
  BY TypesOfInv
<1>2. AskedOK(a)'
  BY <1>1, TypesOfInv DEF AskedOK, PendingAt
<1>3. Requests' = Requests
  <2>1. \A c \in Clients : c # a => actor'[c] = actor[c]
    BY TypesOfInv DEF Callers
  <2> QED BY <1>1, <2>1, SameRequests
<1> QED BY <1>2, <1>3, OneMoves, Unseen DEF Kept

(* A client leaves with nothing. *)
LEMMA Leaves ==
  ASSUME Inv, NEW a \in Callers, actor' = [actor EXCEPT ![a] = Idle], source' = source, given' = given
  PROVE  Kept /\ AbstractStep
<1>1. actor'[a] = Idle
  BY TypesOfInv
<1>2. (AskedOK(a) /\ KeyOK(a))'
  BY <1>1 DEF AskedOK, KeyOK, HasKey, Idle
<1>3. Kept
  BY <1>2, IdleFits, OneMoves DEF Kept
<1>4. Requests' = [c \in Clients |-> IF c \in {a} \cap Clients THEN Nothing ELSE Requests[c]]
  <2>1. \A c \in Clients : c # a => actor'[c] = actor[c]
    BY TypesOfInv DEF Callers
  <2> QED BY <1>1, <2>1 DEF Requests, Pending, Idle
<1> QED BY <1>3, <1>4, SeenAsRefusal

LEMMA PathStep ==
  ASSUME Inv, NEW a \in Callers, Path(a)
  PROVE  Kept /\ AbstractStep
<1> DEFINE b == actor[a].book
           place == IF b \in Plain THEN "open"
                    ELSE IF InFlight(<<b, source[b]>>) THEN "wait"
                    ELSE IF copy[<<b, source[b]>>] # 0 THEN "open" ELSE "acquire"
           q == [actor[a] EXCEPT !.fp = source[b], !.at = place]
<1>1. actor[a] \in Record0 /\ b \in Books /\ actor[a].at = "path" /\ AskedOK(a)
  BY TypesOfInv DEF AskedOK, Path, At
<1>2. source[b] \in Versions /\ source[b] \in 0 .. MaxVersion
  BY <1>1, TypesOfInv, EbookAssumption DEF Versions
<1>3. place \in {"open", "wait", "acquire"} /\ (place # "open" => b \in Convertible)
  BY <1>1 DEF Books
<1>4. /\ q \in Record0 /\ q.at = place /\ q.fp = source[b]
      /\ q.book = b /\ q.asked = actor[a].asked
  <2> HIDE DEF place
  <2> QED BY <1>1, <1>2, <1>3 DEF Record0, Places
<1>5. actor' = [actor EXCEPT ![a] = q]
  BY <1>1, TypesOfInv DEF Path, Fingerprint
<1>6. actor'[a] = q /\ source' = source /\ given' = given
  BY <1>5, TypesOfInv DEF Path
<1>7. KeyOK(a)'
  <2> HIDE DEF place, q
  <2> QED BY <1>1, <1>2, <1>3, <1>4, <1>6 DEF KeyOK, HasKey, AskedOK
<1>8. actor[a].at \in PendingAt /\ q.at \in PendingAt
  <2> HIDE DEF place, q
  <2> QED BY <1>1, <1>3, <1>4 DEF PendingAt
<1> HIDE DEF q
<1> QED BY <1>4, <1>5, <1>6, <1>7, <1>8, MovesOn

(* Goes(a, place), from one place between asking and answering to another. *)
LEMMA GoesOn ==
  ASSUME Inv, NEW a \in Callers, NEW place \in {"convert", "record"}, HasKey(a), actor[a].at # "recover", Goes(a, place),
         source' = source, given' = given
  PROVE  Kept /\ AbstractStep
<1> DEFINE q == [actor[a] EXCEPT !.at = place]
<1>1. actor[a] \in Record0 /\ KeyOK(a)
  BY TypesOfInv
<1>2. q \in Record0 /\ q.at = place /\ q.fp = actor[a].fp /\ q.book = actor[a].book /\ q.asked = actor[a].asked
  BY <1>1 DEF Record0, Places
<1>3. actor' = [actor EXCEPT ![a] = q] /\ actor'[a] = q
  BY TypesOfInv DEF Goes
<1> HIDE DEF q
<1>4. KeyOK(a)'
  BY <1>1, <1>2, <1>3 DEF KeyOK
<1>5. actor[a].at \in PendingAt /\ q.at \in PendingAt
  BY <1>2 DEF PendingAt, HasKey
<1> QED BY <1>2, <1>3, <1>4, <1>5, MovesOn

LEMMA ConversionSteps ==
  ASSUME Inv, NEW a \in Callers, Acquire(a) \/ Convert(a) \/ ConvertFails(a) \/ Record(a)
  PROVE  Kept /\ AbstractStep
<1>1. HasKey(a) /\ actor[a].at # "recover" /\ source' = source /\ given' = given
  BY DEF Acquire, Convert, ConvertFails, Record, At, HasKey
<1>2. CASE Finish(a, "open") \/ Finish(a, "failed")
  BY <1>1, <1>2, AllAreTold, Unseen DEF Kept
<1>3. CASE Goes(a, "convert") \/ Goes(a, "record")
  BY <1>1, <1>3, GoesOn
<1> QED BY <1>2, <1>3 DEF Acquire, Convert, ConvertFails, Record

(* What is opened was in the library at some time since it was asked for. *)
LEMMA ContentIsFresh ==
  ASSUME Inv, NEW c \in Callers, At(c, "open"), Content(c) # 0
  PROVE  /\ actor[c].book \in Books /\ actor[c].asked \in Nat
         /\ Content(c) \in actor[c].asked .. source[actor[c].book]
<1>1. /\ actor[c] \in Record0 /\ AskedOK(c) /\ KeyOK(c) /\ actor[c].book \in Books
      /\ source[actor[c].book] \in Versions
  BY TypesOfInv DEF AskedOK, At
<1>2. CASE actor[c].book \in Plain
  BY <1>1, <1>2, EbookAssumption DEF Content, AskedOK, At, Record0, Versions
<1>3. CASE actor[c].book \notin Plain
  <2>1. actor[c].book \in Convertible /\ KeyOf(c) \in Key /\ actor[c].asked <= actor[c].fp
    BY <1>1, <1>3 DEF Books, KeyOK, HasKey, At, KeyOf, Key
  <2>2. copy[KeyOf(c)] \in 0 .. MaxVersion /\ actor[c].fp <= copy[KeyOf(c)]
        /\ copy[KeyOf(c)] <= source[actor[c].book]
    BY <1>3, <2>1, TypesOfInv DEF Inv, CopiesOK, Content, KeyOf
  <2> QED BY <1>1, <1>3, <2>1, <2>2, EbookAssumption DEF Content, Record0, Versions
<1> QED BY <1>2, <1>3

LEMMA OpenStep ==
  ASSUME Inv, NEW c \in Clients, NEW kepub \in BOOLEAN, Open(c, kepub)
  PROVE  Kept /\ AbstractStep
<1> DEFINE q == IF c = Prewarmer /\ kepub THEN [actor[c] EXCEPT !.at = "recover"] ELSE Idle
<1>1. /\ c \in Callers /\ actor[c] \in Record0 /\ AskedOK(c) /\ KeyOK(c) /\ actor[c].at = "open"
      /\ actor' = [actor EXCEPT ![c] = q] /\ actor'[c] = q /\ source' = source
  BY TypesOfInv DEF Callers, Open, At
<1>2. q \in Record0 /\ q.at \in {"recover", "idle"} 
      /\ (q.at # "idle" => q.book = actor[c].book /\ q.asked = actor[c].asked /\ q.fp = actor[c].fp)
  <2>1. /\ [actor[c] EXCEPT !.at = "recover"] \in Record0
        /\ [actor[c] EXCEPT !.at = "recover"].at = "recover"
        /\ [actor[c] EXCEPT !.at = "recover"].book = actor[c].book
        /\ [actor[c] EXCEPT !.at = "recover"].asked = actor[c].asked
        /\ [actor[c] EXCEPT !.at = "recover"].fp = actor[c].fp
    BY <1>1 DEF Record0, Places
  <2>2. Idle.at = "idle"
    BY DEF Idle
  <2> QED BY <2>1, <2>2, IdleFits
<1> HIDE DEF q
<1>3. (AskedOK(c) /\ KeyOK(c))'
  BY <1>1, <1>2 DEF AskedOK, KeyOK, HasKey
<1>4. Kept
  BY <1>1, <1>2, <1>3, OneMoves DEF Kept
<1>5. /\ Requests[c] = [book |-> actor[c].book, version |-> actor[c].asked]
      /\ Requests' = [Requests EXCEPT ![c] = Nothing]
      /\ Requests' = [d \in Clients |-> IF d \in {c} THEN Nothing ELSE Requests[d]]
  <2>1. \A d \in Clients : d # c => actor'[d] = actor[d]
    BY <1>1, TypesOfInv DEF Callers
  <2> QED BY <1>1, <1>2, <2>1 DEF Requests, Pending
<1>6. CASE Content(c) # 0 /\ actor[c].live
  <2>1. given' = [given EXCEPT ![c] = [book |-> actor[c].book, version |-> Content(c)]]
    BY <1>6 DEF Open
  <2>2. actor[c].book \in Books /\ Content(c) \in actor[c].asked .. source[actor[c].book]
    BY <1>1, <1>6, ContentIsFresh DEF At
  <2>3. Requests[c] # Nothing
    BY <1>5, <2>2, EbookAssumption DEF Nothing
  <2>4. Requests[c].book = actor[c].book /\ Requests[c].version = actor[c].asked
    BY <1>5
  <2>5. AbstractStep
    BY <1>1, <1>5, <2>1, <2>2, <2>3, <2>4, SeenAsAnswer
  <2> QED BY <1>4, <2>5
<1>7. CASE ~ (Content(c) # 0 /\ actor[c].live)
  <2>1. given' = given
    BY <1>7 DEF Open
  <2>2. AbstractStep
    BY <1>1, <1>5, <2>1, SeenAsRefusal
  <2> QED BY <1>4, <2>2
<1> QED BY <1>6, <1>7

(* A goroutine moves to a place that is no place of a request, or is marked  *)
(* as cancelled: its request, if it is one, is what it was.                  *)
LEMMA MovesUnseen ==
  ASSUME Inv, NEW a \in Callers, NEW q \in Record0, actor' = [actor EXCEPT ![a] = q],
         q.at = "idle" \/ (q.book = actor[a].book /\ q.asked = actor[a].asked /\ q.fp = actor[a].fp),
         q.at = actor[a].at \/ q.at \in Places \ {"wait", "acquire", "convert", "record", "open", "recover"},
         actor[a].at # "idle" \/ q.at = "idle",
         a = Builder \/ q.at = actor[a].at \/ {q.at, actor[a].at} \cap PendingAt = {},
         source' = source, given' = given
  PROVE  Kept /\ AbstractStep
<1>1. actor'[a] = q /\ actor[a] \in Record0 /\ AskedOK(a) /\ KeyOK(a)
  BY TypesOfInv
<1>2. (AskedOK(a) /\ KeyOK(a))'
  BY <1>1 DEF AskedOK, KeyOK, HasKey
<1>3. Kept
  BY <1>2, OneMoves DEF Kept
<1>4. Requests' = Requests
  <2>1. CASE a = Builder
    BY <2>1, NotTheBuilder, TypesOfInv
  <2>2. CASE a # Builder
    <3>1. \A c \in Clients : c # a => actor'[c] = actor[c]
      BY TypesOfInv DEF Callers
    <3> QED BY <1>1, <2>2, <3>1, SameRequests DEF PendingAt
  <2> QED BY <2>1, <2>2
<1> QED BY <1>3, <1>4, Unseen

LEMMA RefusedStep ==
  ASSUME Inv, NEW a \in Callers, Refused(a)
  PROVE  Kept /\ AbstractStep
BY Leaves DEF Refused

LEMMA BuilderInCallers == Builder \in Callers /\ Builder \notin Clients
BY EbookAssumption DEF Callers

LEMMA ServedFileStep ==
  ASSUME Inv, NEW kind \in {"kepub", "plain"}, ServedFile(kind)
  PROVE  Kept /\ AbstractStep
<1> DEFINE v == Content(Builder)
           place == IF v = 0 THEN "failed"
                    ELSE IF index[actor[Builder].book].fp = FingerprintOf(kind, actor[Builder].book, actor[Builder].fp, v)
                    THEN "measured" ELSE kind
           q == [actor[Builder] EXCEPT !.of = v, !.at = place]
<1>1. actor[Builder] \in Record0 /\ actor[Builder].at = "open"
  BY TypesOfInv, BuilderInCallers DEF ServedFile, At
<1>2. v \in 0 .. MaxVersion
  <2>1. CASE v = 0
    BY <2>1, EbookAssumption
  <2>2. CASE v # 0
    BY <1>1, <2>2, ContentIsFresh, BuilderInCallers, TypesOfInv, EbookAssumption DEF At, Versions
  <2> QED BY <2>1, <2>2
<1>3. place \in {"failed", "measured", "kepub", "plain"}
  OBVIOUS
<1>4. actor' = [actor EXCEPT ![Builder] = q]
  BY TypesOfInv, BuilderInCallers DEF ServedFile
<1> HIDE DEF v, place
<1>5. q \in Record0 /\ q.at = place /\ q.book = actor[Builder].book /\ q.asked = actor[Builder].asked
      /\ q.fp = actor[Builder].fp
  BY <1>1, <1>2, <1>3 DEF Record0, Places
<1>6. source' = source /\ given' = given
  BY DEF ServedFile
<1> HIDE DEF q
<1>7. q.at \in Places \ {"wait", "acquire", "convert", "record", "open", "recover"}
  BY <1>3, <1>5 DEF Places
<1> QED BY <1>1, <1>4, <1>5, <1>6, <1>7, MovesUnseen, BuilderInCallers

LEMMA MeasureSteps ==
  ASSUME Inv, Measure \/ Measured
  PROVE  Kept /\ AbstractStep
<1>1. actor[Builder] \in Record0 /\ Builder \in Callers
  BY TypesOfInv, BuilderInCallers
<1>2. CASE Measured
  BY <1>1, <1>2, Leaves DEF Measured
<1>3. ASSUME NEW place \in {"measured", "failed"}, Goes(Builder, place), actor[Builder].at \in {"kepub", "plain"},
             source' = source, given' = given
      PROVE  Kept /\ AbstractStep
  <2> DEFINE q == [actor[Builder] EXCEPT !.at = place]
  <2>1. q \in Record0 /\ q.at = place /\ q.fp = actor[Builder].fp /\ q.book = actor[Builder].book
        /\ q.asked = actor[Builder].asked
    BY <1>1, <1>3 DEF Record0, Places
  <2>2. actor' = [actor EXCEPT ![Builder] = q]
    BY <1>3 DEF Goes
  <2>3. q.at \in Places \ {"wait", "acquire", "convert", "record", "open", "recover"}
    BY <2>1, <1>3 DEF Places
  <2> HIDE DEF q
  <2> QED BY <1>1, <1>3, <2>1, <2>2, <2>3, MovesUnseen
<1>4. CASE Measure
  <2>1. actor[Builder].at \in {"kepub", "plain"} /\ source' = source /\ given' = given
    BY <1>4 DEF Measure
  <2>2. Goes(Builder, "measured") \/ Goes(Builder, "failed")
    BY <1>4 DEF Measure
  <2> QED BY <1>3, <2>1, <2>2
<1> QED BY <1>2, <1>4

LEMMA CancelStep ==
  ASSUME Inv, NEW a \in Readers \cup {Builder}, Cancel(a)
  PROVE  Kept /\ AbstractStep
<1> DEFINE q == [actor[a] EXCEPT !.live = FALSE]
<1>1. a \in Callers /\ actor[a] \in Record0
  BY TypesOfInv DEF Callers, Clients
<1>2. q \in Record0 /\ q.at = actor[a].at /\ q.fp = actor[a].fp /\ q.book = actor[a].book /\ q.asked = actor[a].asked
  BY <1>1 DEF Record0
<1>3. actor' = [actor EXCEPT ![a] = q] /\ actor[a].at # "idle" /\ source' = source /\ given' = given
  BY DEF Cancel, At
<1> HIDE DEF q
<1> QED BY <1>1, <1>2, <1>3, MovesUnseen

LEMMA RecoverySteps ==
  ASSUME Inv, NEW found \in BOOLEAN, RecoverCover(found) \/ ResolveRecovered
  PROVE  Kept /\ AbstractStep
<1>1. Prewarmer \in Callers /\ actor[Prewarmer] \in Record0 /\ source' = source /\ given' = given
      /\ actor[Prewarmer].at \in {"recover", "resolve"}
  BY TypesOfInv DEF Callers, Clients, RecoverCover, ResolveRecovered, At
<1>2. CASE actor' = [actor EXCEPT ![Prewarmer] = Idle]
  BY <1>1, <1>2, Leaves
<1>3. CASE actor' = [actor EXCEPT ![Prewarmer] = [@ EXCEPT !.at = "resolve"]]
  <2> DEFINE q == [actor[Prewarmer] EXCEPT !.at = "resolve"]
  <2>1. q \in Record0 /\ q.at = "resolve" /\ q.fp = actor[Prewarmer].fp /\ q.book = actor[Prewarmer].book
        /\ q.asked = actor[Prewarmer].asked
    BY <1>1 DEF Record0, Places
  <2>2. actor' = [actor EXCEPT ![Prewarmer] = q]
    BY <1>3
  <2>3. q.at \in Places \ {"wait", "acquire", "convert", "record", "open", "recover"}
    BY <2>1 DEF Places
  <2> HIDE DEF q
  <2> QED BY <1>1, <2>1, <2>2, <2>3, MovesUnseen DEF PendingAt
<1> QED BY <1>2, <1>3 DEF RecoverCover, ResolveRecovered

LEMMA CrashStep ==
  ASSUME Inv, EbookCrash
  PROVE  Kept /\ AbstractStep
<1>1. actor' = [a \in Callers |-> Idle] /\ source' = source /\ given' = given
  BY DEF EbookCrash
<1>2. \A a \in Callers : actor'[a] = Idle /\ Idle.at = "idle"
  BY <1>1 DEF Idle
<1>3. Kept
  BY <1>1, <1>2, IdleFits DEF Kept, CallersOK, AskedOK, KeyOK, HasKey
<1>4. Requests' = [c \in Clients |-> IF c \in Clients THEN Nothing ELSE Requests[c]]
  BY <1>2 DEF Requests, Pending, Callers
<1> QED BY <1>1, <1>3, <1>4, SeenAsRefusal

LEMMA ReplaceStep ==
  ASSUME Inv, NEW b \in Books, Replace(b)
  PROVE  Kept /\ AbstractStep /\ source' \in [Books -> Versions] /\ CopiesOK'
<1>1. /\ source' = [source EXCEPT ![b] = @ + 1] /\ source[b] < MaxVersion
      /\ actor' = actor /\ given' = given /\ copy' = copy
  BY DEF Replace
<1>2. source' \in [Books -> Versions] /\ \A c \in Books : source[c] <= source'[c]
  BY <1>1, TypesOfInv, EbookAssumption DEF Versions
<1>3. ASSUME NEW a \in Callers PROVE (AskedOK(a) /\ KeyOK(a))'
  <2>1. AskedOK(a) /\ KeyOK(a) /\ actor[a] \in Record0
    BY TypesOfInv
  <2>2. \A c \in Books : source[c] \in Int /\ source'[c] \in Int
    BY <1>2, TypesOfInv, EbookAssumption DEF Versions
  <2> QED BY <1>1, <1>2, <2>1, <2>2, EbookAssumption DEF AskedOK, KeyOK, HasKey, Record0, Versions, Books
<1>4. CopiesOK'
  <2>1. ASSUME NEW k \in Key, copy[k] # 0
        PROVE  k[2] <= copy[k] /\ copy[k] <= source'[k[1]]
    <3>1. k[2] <= copy[k] /\ copy[k] <= source[k[1]]
      BY <2>1 DEF Inv, CopiesOK
    <3>2. k[1] \in Books /\ copy[k] \in 0 .. MaxVersion
      BY TypesOfInv DEF Key, Books
    <3>3. source[k[1]] \in Int /\ source'[k[1]] \in Int
      BY <1>2, <3>2, TypesOfInv, EbookAssumption DEF Versions
    <3> QED BY <1>2, <3>1, <3>2, <3>3, EbookAssumption
  <2> QED BY <1>1, <2>1 DEF CopiesOK
<1>5. Kept
  BY <1>1, <1>3, TypesOfInv DEF Kept, CallersOK
<1>6. Promise!Replace(b)
  <2>1. Requests' = Requests
    BY <1>1, SameRequests
  <2> QED BY <1>1, <2>1 DEF Promise!Replace, Requests
<1> QED BY <1>2, <1>4, <1>5, <1>6 DEF AbstractStep, Promise!Next

(* A step of the janitor, of the world outside, or of covers alone. *)
LEMMA NobodyMoves ==
  ASSUME Inv, actor' = actor, source' = source, given' = given
  PROVE  Kept /\ AbstractStep
<1>1. Kept
  BY TypesOfInv DEF Kept, CallersOK, AskedOK, KeyOK, HasKey
<1>2. Requests' = Requests
  BY SameRequests
<1> QED BY <1>1, <1>2, Unseen

-----------------------------------------------------------------------------
(* All steps *)

LEMMA StepKeepsAndShows ==
  ASSUME Inv, [Next]_vars
  PROVE  Kept /\ AbstractStep
<1>1. CASE UNCHANGED vars
  BY <1>1, NobodyMoves DEF vars, ebookVars
<1>2. CASE EbookNext
  <2>1. ASSUME NEW b \in Books, Replace(b) PROVE Kept /\ AbstractStep
    BY <2>1, ReplaceStep
  <2>2. ASSUME NEW b \in Books, Ensure(b) PROVE Kept /\ AbstractStep
    BY <2>2, BeginsFits, BuilderInCallers DEF Ensure
  <2>3. ASSUME NEW b \in Books, RetryAfter(b) PROVE Kept /\ AbstractStep
    BY <2>3, NobodyMoves DEF RetryAfter
  <2>4. ASSUME NEW b \in Books, NEW r \in Readers, Ask(r, b) PROVE Kept /\ AbstractStep
    BY <2>4, BeginsFits DEF Ask, Callers, Clients
  <2>5. ASSUME NEW b \in Convertible, Visit(b) PROVE Kept /\ AbstractStep
    BY <2>5, BeginsFits DEF Visit, Callers, Clients, Books
  <2>6. ASSUME NEW a \in Callers,
               Path(a) \/ Acquire(a) \/ Convert(a) \/ ConvertFails(a) \/ Record(a) \/ Refused(a)
        PROVE  Kept /\ AbstractStep
    BY <2>6, PathStep, ConversionSteps, RefusedStep
  <2>7. ASSUME NEW c \in Clients, NEW kepub \in BOOLEAN, Open(c, kepub) PROVE Kept /\ AbstractStep
    BY <2>7, OpenStep
  <2>8. ASSUME NEW kind \in {"kepub", "plain"}, ServedFile(kind) PROVE Kept /\ AbstractStep
    BY <2>8, ServedFileStep
  <2>9. CASE Measure \/ Measured
    BY <2>9, MeasureSteps
  <2>10. ASSUME NEW over \in SUBSET rows, Evict(over) PROVE Kept /\ AbstractStep
    BY <2>10, NobodyMoves DEF Evict
  <2>11. ASSUME NEW k \in Key, Unlink(k) \/ DeleteRow(k) PROVE Kept /\ AbstractStep
    BY <2>11, NobodyMoves DEF Unlink, DeleteRow
  <2>12. ASSUME NEW a \in Readers \cup {Builder}, Cancel(a) PROVE Kept /\ AbstractStep
    BY <2>12, CancelStep
  <2> QED BY <1>2, <2>1, <2>2, <2>3, <2>4, <2>5, <2>6, <2>7, <2>8, <2>9, <2>10, <2>11, <2>12 DEF EbookNext
<1>3. ASSUME NEW b \in Books, ReplaceCover(b) \/ ScanCover(b) \/ ResolveBook(b) PROVE Kept /\ AbstractStep
  BY <1>3, NobodyMoves DEF ReplaceCover, ScanCover, ResolveBook, ebookVars
<1>4. CASE (\E found \in BOOLEAN : RecoverCover(found)) \/ ResolveRecovered
  BY <1>4, RecoverySteps
<1>5. ASSUME NEW v \in Viewers,
             \/ \E b \in Books, m \in 0 .. MaxVersion : HandleCover(v, b, m)
             \/ Get(v) \/ Render(v) \/ RenderFails(v) \/ Rename(v) \/ RecordPicture(v) \/ Serve(v)
      PROVE  Kept /\ AbstractStep
  BY <1>5, NobodyMoves DEF HandleCover, Get, Render, RenderFails, Rename, RecordPicture, Serve, ebookVars
<1>6. ASSUME NEW over \in SUBSET pictures, EvictPictures(over) PROVE Kept /\ AbstractStep
  BY <1>6, NobodyMoves DEF EvictPictures, ebookVars
<1>7. ASSUME NEW i \in ImageIds, UnlinkPicture(i) \/ DeletePictureRow(i) PROVE Kept /\ AbstractStep
  BY <1>7, NobodyMoves DEF UnlinkPicture, DeletePictureRow, ebookVars
<1>8. CASE Crash
  BY <1>8, CrashStep DEF Crash
<1> QED BY <1>1, <1>2, <1>3, <1>4, <1>5, <1>6, <1>7, <1>8 DEF Next

(* The tables and files of the cache; a conversion reads the file as it is.  *)
FilesFit ==
  /\ source \in [Books -> Versions] /\ copy \in [Key -> 0 .. MaxVersion]
  /\ rows \subseteq Key /\ kepubs \subseteq Books /\ shunned \subseteq Books
  /\ removing.unlinked \subseteq removing.listed /\ removing.listed \subseteq rows

LEMMA FilesStay ==
  ASSUME Inv, UNCHANGED <<source, copy, rows, kepubs, shunned, removing>>
  PROVE  FilesFit' /\ CopiesOK'
BY DEF Inv, EbookTypeOK, FilesFit, CopiesOK

LEMMA ConvertFiles ==
  ASSUME Inv, NEW a \in Callers, Convert(a)
  PROVE  FilesFit' /\ CopiesOK'
<1>1. KeyOK(a) /\ HasKey(a)
  BY TypesOfInv DEF Convert, At, HasKey
<1>2. /\ KeyOf(a) \in Key /\ actor[a].book \in Books /\ source[actor[a].book] \in 0 .. MaxVersion
      /\ actor[a].fp <= source[actor[a].book]
  BY <1>1, TypesOfInv, EbookAssumption DEF KeyOK, KeyOf, Key, Books, Versions
<1>3. copy' = [copy EXCEPT ![KeyOf(a)] = source[actor[a].book]] /\ UNCHANGED <<source, rows, kepubs, shunned, removing>>
  BY DEF Convert
<1>4. FilesFit'
  BY <1>2, <1>3 DEF Inv, EbookTypeOK, FilesFit
<1>5. ASSUME NEW k \in Key, copy'[k] # 0 PROVE k[2] <= copy'[k] /\ copy'[k] <= source[k[1]]
  <2>1. CASE k = KeyOf(a)
    <3>1. copy'[k] = source[actor[a].book] /\ k[1] = actor[a].book /\ k[2] = actor[a].fp
      BY <1>2, <1>3, <2>1, TypesOfInv DEF KeyOf
    <3> QED BY <1>2, <3>1
  <2>2. CASE k # KeyOf(a)
    <3>1. copy'[k] = copy[k]
      BY <1>3, <2>2, TypesOfInv
    <3> QED BY <1>5, <3>1 DEF Inv, CopiesOK
  <2> QED BY <2>1, <2>2
<1> QED BY <1>3, <1>4, <1>5 DEF CopiesOK

LEMMA UnlinkFiles ==
  ASSUME Inv, NEW k \in Key, Unlink(k)
  PROVE  FilesFit' /\ CopiesOK'
<1>1. copy' = [copy EXCEPT ![k] = 0] /\ UNCHANGED <<source, rows, kepubs, shunned>>
  BY DEF Unlink
<1>2. removing'.listed = removing.listed /\ removing'.unlinked = removing.unlinked \cup {k} /\ k \in removing.listed
  BY DEF Unlink, Inv, EbookTypeOK
<1>3. FilesFit'
  BY <1>1, <1>2, EbookAssumption DEF Inv, EbookTypeOK, FilesFit
<1>4. CopiesOK'
  BY <1>1, TypesOfInv DEF Inv, CopiesOK
<1> QED BY <1>3, <1>4

LEMMA StepKeepsFiles ==
  ASSUME Inv, [Next]_vars
  PROVE  FilesFit' /\ CopiesOK'
<1>1. ASSUME UNCHANGED ebookVars PROVE FilesFit' /\ CopiesOK'
  BY <1>1, FilesStay DEF ebookVars
<1>2. ASSUME NEW a \in Callers, Path(a) \/ Acquire(a) \/ ConvertFails(a) PROVE FilesFit' /\ CopiesOK'
  BY <1>2, FilesStay DEF Path, Acquire, ConvertFails
<1>3. ASSUME NEW a \in Callers, Record(a) PROVE FilesFit' /\ CopiesOK'
  <2>1. KeyOf(a) \in Key
    BY <1>3, TypesOfInv DEF Record, At, KeyOK, HasKey, KeyOf, Key
  <2> QED BY <1>3, <2>1 DEF Record, Inv, EbookTypeOK, FilesFit, CopiesOK
<1>4. ASSUME NEW a \in Callers, Refused(a) PROVE FilesFit' /\ CopiesOK'
  <2>1. a = Builder => actor[a].book \in Books
    BY <1>4, TypesOfInv DEF Refused, At, AskedOK
  <2> QED BY <1>4, <2>1 DEF Refused, Inv, EbookTypeOK, FilesFit, CopiesOK
<1>5. ASSUME NEW c \in Clients, NEW kepub \in BOOLEAN, Open(c, kepub) PROVE FilesFit' /\ CopiesOK'
  <2>1. actor[c].book \in Books
    BY <1>5, TypesOfInv DEF Open, At, AskedOK, Callers
  <2> QED BY <1>5, <2>1 DEF Open, Inv, EbookTypeOK, FilesFit, CopiesOK
<1>6. ASSUME NEW over \in SUBSET rows, Evict(over) PROVE FilesFit' /\ CopiesOK'
  BY <1>6 DEF Evict, Inv, EbookTypeOK, FilesFit, CopiesOK
<1>7. ASSUME NEW k \in Key, DeleteRow(k) PROVE FilesFit' /\ CopiesOK'
  BY <1>7 DEF DeleteRow, Inv, EbookTypeOK, FilesFit, CopiesOK
<1>8. ASSUME NEW b \in Books, Replace(b) PROVE FilesFit' /\ CopiesOK'
  BY <1>8, ReplaceStep DEF Replace, Inv, EbookTypeOK, FilesFit
<1>9. ASSUME NEW b \in Books, RetryAfter(b) PROVE FilesFit' /\ CopiesOK'
  BY <1>9 DEF RetryAfter, Inv, EbookTypeOK, FilesFit, CopiesOK
<1>10. CASE EbookNext
  <2>1. ASSUME NEW b \in Books, NEW r \in Readers, Ask(r, b) PROVE FilesFit' /\ CopiesOK'
    BY <2>1, FilesStay DEF Ask
  <2>2. ASSUME NEW b \in Books, Ensure(b) PROVE FilesFit' /\ CopiesOK'
    BY <2>2, FilesStay DEF Ensure
  <2>3. ASSUME NEW b \in Convertible, Visit(b) PROVE FilesFit' /\ CopiesOK'
    BY <2>3, FilesStay DEF Visit
  <2>4. ASSUME NEW kind \in {"kepub", "plain"}, ServedFile(kind) PROVE FilesFit' /\ CopiesOK'
    BY <2>4, FilesStay DEF ServedFile
  <2>5. CASE Measure \/ Measured
    BY <2>5, FilesStay DEF Measure, Measured
  <2>6. ASSUME NEW a \in Readers \cup {Builder}, Cancel(a) PROVE FilesFit' /\ CopiesOK'
    BY <2>6, FilesStay DEF Cancel
  <2> QED BY <1>2, <1>3, <1>4, <1>5, <1>6, <1>7, <1>8, <1>9, <1>10, <2>1, <2>2, <2>3, <2>4, <2>5, <2>6,
             ConvertFiles, UnlinkFiles DEF EbookNext
<1>11. CASE Crash
  BY <1>11 DEF Crash, EbookCrash, Inv, EbookTypeOK, FilesFit, CopiesOK
<1>12. ASSUME NEW found \in BOOLEAN, RecoverCover(found) \/ ResolveRecovered PROVE FilesFit' /\ CopiesOK'
  BY <1>12, FilesStay DEF RecoverCover, ResolveRecovered
<1>13. ASSUME NEW b \in Books, ReplaceCover(b) \/ ScanCover(b) \/ ResolveBook(b) PROVE FilesFit' /\ CopiesOK'
  BY <1>1, <1>13 DEF ReplaceCover, ScanCover, ResolveBook
<1>14. ASSUME NEW v \in Viewers,
              \/ \E b \in Books, m \in 0 .. MaxVersion : HandleCover(v, b, m)
              \/ Get(v) \/ Render(v) \/ RenderFails(v) \/ Rename(v) \/ RecordPicture(v) \/ Serve(v)
       PROVE  FilesFit' /\ CopiesOK'
  BY <1>1, <1>14 DEF HandleCover, Get, Render, RenderFails, Rename, RecordPicture, Serve
<1>15. ASSUME NEW over \in SUBSET pictures, EvictPictures(over) PROVE FilesFit' /\ CopiesOK'
  BY <1>1, <1>15 DEF EvictPictures
<1>16. ASSUME NEW i \in ImageIds, UnlinkPicture(i) \/ DeletePictureRow(i) PROVE FilesFit' /\ CopiesOK'
  BY <1>1, <1>16 DEF UnlinkPicture, DeletePictureRow
<1>17. CASE UNCHANGED vars
  BY <1>1, <1>17 DEF vars
<1> QED BY <1>10, <1>11, <1>12, <1>13, <1>14, <1>15, <1>16, <1>17 DEF Next

-----------------------------------------------------------------------------
LEMMA InvHolds == Spec => []Inv
<1>1. Init => Inv
  <2> SUFFICES ASSUME Init PROVE Inv
    OBVIOUS
  <2>1. /\ source = [b \in Books |-> 1] /\ copy = [k \in Key |-> 0] /\ actor = [a \in Callers |-> Idle]
        /\ rows = {} /\ kepubs = {} /\ shunned = {} /\ removing = [listed |-> {}, unlinked |-> {}]
    BY DEF Init, EbookInit
  <2>2. EbookTypeOK
    BY <2>1, IdleFits, EbookAssumption DEF EbookTypeOK, Versions, Record0, Places
  <2>3. CopiesOK /\ CallersOK
    BY <2>1 DEF CopiesOK, CallersOK, AskedOK, KeyOK, HasKey, Idle
  <2> QED BY <2>2, <2>3 DEF Inv
<1>2. Inv /\ [Next]_vars => Inv'
  BY StepKeepsAndShows, StepKeepsFiles DEF Inv, EbookTypeOK, FilesFit, Kept, Record0, Places
<1> QED BY <1>1, <1>2, PTL DEF Spec

(* Type correctness of the cache and of everyone who uses it, whatever the   *)
(* books, readers, slots and budget (ebookconv.go, textindex/builder.go).    *)
THEOREM EbookTypes == Spec => []EbookTypeOK
<1>1. Inv => EbookTypeOK
  BY DEF Inv
<1> QED BY <1>1, InvHolds, PTL

(* EPUBFor (ebookconv.go:468-488) cannot be told from a conversion made anew *)
(* for every request: for any books, clients, slots and budget, every step   *)
(* of the caches is a step of OnDemand, or one that nobody sees.             *)
THEOREM ConversionsOnDemand == Spec => GivenOnDemand
<1>1. Init => Promise!Init
  <2> SUFFICES ASSUME Init PROVE Promise!Init
    OBVIOUS
  <2>1. \A c \in Clients : ~ Pending(c)
    BY DEF Init, EbookInit, Pending, Idle, Callers
  <2> QED BY <2>1 DEF Init, EbookInit, Promise!Init, Promise!NoRequest, Nothing
<1>2. Inv /\ [Next]_vars => [Promise!Next]_(Promise!vars)
  BY StepKeepsAndShows DEF AbstractStep
<1> QED BY <1>1, <1>2, InvHolds, PTL DEF Spec, GivenOnDemand, Promise!Spec
-----------------------------------------------------------------------------
(***************************************************************************)
(* No picture is older than the cover its id names.  The invariant follows  *)
(* a cover from the library to the device: what a book shows is no newer    *)
(* than what was scanned, that no newer than the picture there is; an id    *)
(* was told by what a book showed; and a picture under an id was read       *)
(* after, and covers are only replaced by newer ones.                       *)
(***************************************************************************)
Marks == 0 .. MaxVersion
ViewerState == [at : {"idle", "get", "render", "rename", "record", "serve"},
                id : ImageIds \cup {<<"none", 0>>}, of : Marks]

CoverTypeOK ==
  /\ cover \in [Books -> Marks] /\ mtime \in [Books -> Marks] /\ shown \in [Books -> Marks]
  /\ image \in [ImageIds -> Marks] /\ viewer \in [Viewers -> ViewerState]

CoversInOrder ==
  \A b \in Books : /\ shown[b] <= mtime[b] /\ mtime[b] <= cover[b]
                   /\ b \in Convertible => mtime[b] = cover[b]

ImagesOK == \A i \in ImageIds : image[i] # 0 => i[2] <= image[i]

ViewerOK(v) ==
  /\ viewer[v].at # "idle" => viewer[v].id \in ImageIds /\ viewer[v].id[2] <= cover[viewer[v].id[1]]
  /\ viewer[v].at = "rename" => viewer[v].id[2] <= viewer[v].of

CoverInv == /\ CoverTypeOK /\ CoversInOrder /\ ImagesOK /\ CoverIsAsNewAsItsId
            /\ \A v \in Viewers : ViewerOK(v)

LEMMA MarksFact == Marks \subseteq Nat /\ 0 \in Marks /\ Versions \subseteq Marks
BY EbookAssumption DEF Marks, Versions

(* A cover that is replaced takes no id out of order. *)
LEMMA NewerCover ==
  ASSUME CoverInv, NEW b \in Books, NEW v \in Marks, cover[b] <= v, cover' = [cover EXCEPT ![b] = v],
         image' = image, viewer' = viewer, behind' = behind
  PROVE  /\ cover' \in [Books -> Marks] /\ \A c \in Books : cover[c] <= cover'[c]
         /\ ImagesOK' /\ CoverIsAsNewAsItsId' /\ \A w \in Viewers : ViewerOK(w)'
<1>1. cover' \in [Books -> Marks] /\ \A c \in Books : cover[c] <= cover'[c]
  <2>1. cover \in [Books -> Marks]
    BY DEF CoverInv, CoverTypeOK
  <2>2. ASSUME NEW c \in Books PROVE cover'[c] \in Marks /\ cover[c] <= cover'[c]
    <3>1. cover[c] \in Nat /\ cover'[c] = IF c = b THEN v ELSE cover[c]
      BY <2>1, MarksFact
    <3> QED BY <2>1, <3>1
  <2> QED BY <2>1, <2>2
<1>2. ASSUME NEW w \in Viewers PROVE ViewerOK(w)'
  <2>1. ViewerOK(w) /\ viewer'[w] = viewer[w]
    BY DEF CoverInv
  <2>2. CASE viewer[w].at = "idle"
    BY <2>1, <2>2 DEF ViewerOK
  <2>3. CASE viewer[w].at # "idle"
    <3>1. viewer[w].id \in ImageIds /\ viewer[w].id[1] \in Books /\ viewer[w].id[2] \in Marks
          /\ viewer[w].id[2] <= cover[viewer[w].id[1]]
      BY <2>1, <2>3 DEF ViewerOK, ImageIds, Marks
    <3>2. cover[viewer[w].id[1]] \in Nat /\ cover'[viewer[w].id[1]] \in Nat /\ viewer[w].id[2] \in Nat
      BY <1>1, <3>1, MarksFact DEF CoverInv, CoverTypeOK
    <3>3. viewer[w].id[2] <= cover'[viewer[w].id[1]]
      BY <1>1, <3>1, <3>2
    <3> QED BY <2>1, <3>1, <3>3 DEF ViewerOK
  <2> QED BY <2>2, <2>3
<1> QED BY <1>1, <1>2 DEF CoverInv, ImagesOK, CoverIsAsNewAsItsId

(* A step of one request for a cover. *)
LEMMA ViewerMoves ==
  ASSUME CoverInv, NEW v \in Viewers, NEW q \in ViewerState, Moves(v, q), ViewerOK(v)',
         UNCHANGED <<cover, mtime, shown>>
  PROVE  viewer' \in [Viewers -> ViewerState] /\ CoversInOrder' /\ \A w \in Viewers : ViewerOK(w)'
<1>1. viewer' \in [Viewers -> ViewerState]
  BY DEF CoverInv, CoverTypeOK, Moves
<1>2. ASSUME NEW w \in Viewers, w # v PROVE ViewerOK(w)'
  <2>1. viewer'[w] = viewer[w] /\ ViewerOK(w)
    BY <1>2 DEF CoverInv, CoverTypeOK, Moves
  <2> QED BY <2>1 DEF ViewerOK
<1> QED BY <1>1, <1>2 DEF CoverInv, CoversInOrder
-----------------------------------------------------------------------------
(* Steps of the covers themselves, and of the requests for them. *)

LEMMA ViewerFits ==
  ASSUME CoverInv, NEW v \in Viewers
  PROVE  /\ viewer[v] \in ViewerState /\ ViewerOK(v)
         /\ viewer[v].at # "idle" => /\ FileOf(v) = viewer[v].id /\ viewer[v].id \in ImageIds
                                    /\ viewer[v].id[1] \in Books /\ viewer[v].id[2] \in Marks
<1>1. viewer[v] \in ViewerState /\ ViewerOK(v)
  BY DEF CoverInv, CoverTypeOK
<1>2. ASSUME viewer[v].at # "idle"
      PROVE  /\ FileOf(v) = viewer[v].id /\ viewer[v].id \in ImageIds
             /\ viewer[v].id[1] \in Books /\ viewer[v].id[2] \in Marks
  BY <1>1, <1>2 DEF ViewerOK, FileOf, ImageId, ImageIds, Marks
<1> QED BY <1>1, <1>2

LEMMA GoneFits == Gone \in ViewerState /\ Gone.at = "idle"
BY MarksFact DEF Gone, ViewerState

LEMMA CoverSteps ==
  ASSUME CoverInv, NEW b \in Books, ReplaceCover(b) \/ ScanCover(b) \/ ResolveBook(b)
  PROVE  CoverInv'
<1>1. cover \in [Books -> Marks] /\ mtime \in [Books -> Marks] /\ shown \in [Books -> Marks]
  BY DEF CoverInv, CoverTypeOK
<1>2. \A c \in Books : cover[c] \in Nat /\ mtime[c] \in Nat /\ shown[c] \in Nat
  BY <1>1, MarksFact
<1>3. CASE ReplaceCover(b)
  <2>1. cover[b] + 1 \in Marks /\ cover[b] <= cover[b] + 1 /\ b \notin Convertible
    BY <1>1, <1>2, <1>3, EbookAssumption DEF ReplaceCover, Marks
  <2>2. /\ cover' = [cover EXCEPT ![b] = cover[b] + 1]
        /\ UNCHANGED <<mtime, shown, image, viewer, behind>>
    BY <1>3 DEF ReplaceCover
  <2>3. /\ cover' \in [Books -> Marks] /\ \A c \in Books : cover[c] <= cover'[c]
        /\ ImagesOK' /\ CoverIsAsNewAsItsId' /\ \A w \in Viewers : ViewerOK(w)'
    BY <2>1, <2>2, NewerCover
  <2>4. CoversInOrder'
    <3>1. ASSUME NEW c \in Books
          PROVE  /\ shown'[c] <= mtime'[c] /\ mtime'[c] <= cover'[c]
                 /\ c \in Convertible => mtime'[c] = cover'[c]
      <4>1. cover'[c] \in Nat /\ cover[c] <= cover'[c] /\ (c # b => cover'[c] = cover[c])
        BY <1>1, <2>2, <2>3, MarksFact
      <4> QED BY <1>2, <2>1, <2>2, <4>1 DEF CoverInv, CoversInOrder
    <3> QED BY <3>1 DEF CoversInOrder
  <2> QED BY <2>2, <2>3, <2>4 DEF CoverInv, CoverTypeOK
<1>4. CASE ScanCover(b)
  <2>1. /\ mtime' = [mtime EXCEPT ![b] = cover[b]] /\ shown' = [shown EXCEPT ![b] = cover[b]]
        /\ UNCHANGED <<cover, image, viewer, behind>>
    BY <1>4 DEF ScanCover
  <2>2. CoversInOrder' /\ mtime' \in [Books -> Marks] /\ shown' \in [Books -> Marks]
    BY <1>1, <1>2, <2>1 DEF CoverInv, CoversInOrder
  <2> QED BY <2>1, <2>2 DEF CoverInv, CoverTypeOK, ImagesOK, CoverIsAsNewAsItsId, ViewerOK
<1>5. CASE ResolveBook(b)
  <2>1. shown' = [shown EXCEPT ![b] = mtime[b]] /\ UNCHANGED <<cover, mtime, image, viewer, behind>>
    BY <1>5 DEF ResolveBook
  <2>2. CoversInOrder' /\ shown' \in [Books -> Marks]
    BY <1>1, <1>2, <2>1 DEF CoverInv, CoversInOrder
  <2> QED BY <2>1, <2>2 DEF CoverInv, CoverTypeOK, ImagesOK, CoverIsAsNewAsItsId, ViewerOK
<1> QED BY <1>3, <1>4, <1>5

LEMMA RecoverSteps ==
  ASSUME Inv, CoverInv, \/ \E found \in BOOLEAN : RecoverCover(found)
                        \/ ResolveRecovered
  PROVE  CoverInv'
<1> DEFINE b == actor[Prewarmer].book
<1>1. cover \in [Books -> Marks] /\ mtime \in [Books -> Marks] /\ shown \in [Books -> Marks]
  BY DEF CoverInv, CoverTypeOK
<1>2. \A c \in Books : cover[c] \in Nat /\ mtime[c] \in Nat /\ shown[c] \in Nat
  BY <1>1, MarksFact
<1>3. AskedOK(Prewarmer) /\ KeyOK(Prewarmer)
  BY TypesOfInv DEF Callers, Clients
<1>4. ASSUME NEW found \in BOOLEAN, RecoverCover(found) PROVE CoverInv'
  <2>1. CASE found /\ b \in Convertible /\ mtime[b] = 0 /\ Content(Prewarmer) # 0
    <3>1. b \in Books /\ Content(Prewarmer) \in Marks
      <4>1. b \in Convertible /\ b \notin Plain /\ actor[Prewarmer].fp \in Versions
        BY <1>3, <1>4, <2>1, EbookAssumption DEF RecoverCover, At, KeyOK, HasKey
      <4>2. KeyOf(Prewarmer) \in Key
        BY <4>1 DEF KeyOf, Key
      <4> QED BY <4>1, <4>2, TypesOfInv DEF Content, Books, Marks
    <3>2. /\ cover' = [cover EXCEPT ![b] = Content(Prewarmer)]
          /\ mtime' = [mtime EXCEPT ![b] = Content(Prewarmer)]
          /\ UNCHANGED <<shown, image, viewer, behind>>
      BY <1>4, <2>1 DEF RecoverCover
    <3>3. cover[b] = 0 /\ shown[b] = 0 /\ Content(Prewarmer) \in Nat /\ cover[b] <= Content(Prewarmer)
      <4> DEFINE w == Content(Prewarmer)
      <4>1. b \in Books /\ b \in Convertible /\ mtime[b] = 0 /\ w \in Nat
        BY <2>1, <3>1, MarksFact
      <4> HIDE DEF b, w
      <4>2. shown[b] <= mtime[b] /\ mtime[b] = cover[b] /\ shown[b] \in Nat
        BY <1>2, <4>1 DEF CoverInv, CoversInOrder
      <4>3. cover[b] = 0 /\ shown[b] = 0 /\ w \in Nat /\ cover[b] <= w
        BY <4>1, <4>2
      <4> QED BY <4>3 DEF w
    <3>4. /\ cover' \in [Books -> Marks] /\ \A c \in Books : cover[c] <= cover'[c]
          /\ ImagesOK' /\ CoverIsAsNewAsItsId' /\ \A w \in Viewers : ViewerOK(w)'
      <4> HIDE DEF b
      <4> QED BY <3>1, <3>2, <3>3, NewerCover
    <3>5. mtime' \in [Books -> Marks] /\ CoversInOrder'
      <4> DEFINE w == Content(Prewarmer)
      <4>1. /\ cover' = [cover EXCEPT ![b] = w] /\ mtime' = [mtime EXCEPT ![b] = w] /\ shown' = shown
            /\ b \in Books /\ w \in Marks /\ w \in Nat /\ shown[b] = 0
        BY <3>1, <3>2, <3>3
      <4> HIDE DEF b, w
      <4>2. ASSUME NEW c \in Books
            PROVE  /\ shown'[c] <= mtime'[c] /\ mtime'[c] <= cover'[c]
                   /\ c \in Convertible => mtime'[c] = cover'[c]
        BY <1>1, <1>2, <4>1 DEF CoverInv, CoversInOrder
      <4>3. mtime' \in [Books -> Marks]
        BY <1>1, <4>1
      <4> QED BY <4>2, <4>3 DEF CoversInOrder
    <3> QED BY <3>2, <3>4, <3>5 DEF CoverInv, CoverTypeOK
  <2>2. CASE ~ (found /\ b \in Convertible /\ mtime[b] = 0 /\ Content(Prewarmer) # 0)
    <3>1. UNCHANGED <<cover, mtime, shown, image, viewer, behind>>
      BY <1>4, <2>2 DEF RecoverCover
    <3> QED BY <3>1 DEF CoverInv, CoverTypeOK, CoversInOrder, ImagesOK, CoverIsAsNewAsItsId, ViewerOK
  <2> QED BY <2>1, <2>2
<1>5. CASE ResolveRecovered
  <2>1. b \in Books
    BY <1>3, <1>5 DEF ResolveRecovered, At, AskedOK
  <2>2. shown' = [shown EXCEPT ![b] = mtime[b]] /\ UNCHANGED <<cover, mtime, image, viewer, behind>>
    BY <1>5 DEF ResolveRecovered
  <2>3. CoversInOrder' /\ shown' \in [Books -> Marks]
    <3> HIDE DEF b
    <3> QED BY <1>1, <1>2, <2>1, <2>2 DEF CoverInv, CoversInOrder
  <2> QED BY <2>2, <2>3 DEF CoverInv, CoverTypeOK, ImagesOK, CoverIsAsNewAsItsId, ViewerOK
<1> QED BY <1>4, <1>5

LEMMA ViewerSteps ==
  ASSUME CoverInv, NEW v \in Viewers,
         \/ \E b \in Books, m \in 0 .. MaxVersion : HandleCover(v, b, m)
         \/ Get(v) \/ Render(v) \/ RenderFails(v) \/ Rename(v) \/ RecordPicture(v) \/ Serve(v)
  PROVE  CoverInv'
<1> DEFINE q == viewer[v]
<1>1. /\ cover \in [Books -> Marks] /\ mtime \in [Books -> Marks] /\ shown \in [Books -> Marks]
      /\ image \in [ImageIds -> Marks] /\ viewer \in [Viewers -> ViewerState] /\ CoversInOrder /\ ImagesOK
  BY DEF CoverInv, CoverTypeOK
<1>2. \A c \in Books : cover[c] \in Nat /\ mtime[c] \in Nat /\ shown[c] \in Nat
  BY <1>1, MarksFact
<1>3. /\ q \in ViewerState /\ ViewerOK(v)
      /\ q.at # "idle" => /\ FileOf(v) = q.id /\ q.id \in ImageIds
                         /\ q.id[1] \in Books /\ q.id[2] \in Marks /\ q.id[2] \in Nat
  BY ViewerFits, MarksFact
<1>4. ASSUME NEW r \in ViewerState, Moves(v, r), UNCHANGED <<cover, mtime, shown, image, behind>>,
             r.at # "idle" => r.id \in ImageIds /\ r.id[2] <= cover[r.id[1]],
             r.at = "rename" => r.id[2] <= r.of
      PROVE  CoverInv'
  <2>1. viewer'[v] = r
    BY <1>1, <1>4 DEF Moves
  <2>2. ViewerOK(v)'
    BY <1>4, <2>1 DEF ViewerOK
  <2>3. viewer' \in [Viewers -> ViewerState] /\ CoversInOrder' /\ \A w \in Viewers : ViewerOK(w)'
    BY <1>4, <2>2, ViewerMoves
  <2> QED BY <1>4, <2>3 DEF CoverInv, CoverTypeOK, ImagesOK, CoverIsAsNewAsItsId
<1>5. ASSUME NEW b \in Books, NEW m \in 0 .. MaxVersion, HandleCover(v, b, m) PROVE CoverInv'
  <2>1. m \in Nat /\ <<b, m>> \in ImageIds /\ m <= cover[b]
    BY <1>1, <1>2, <1>5 DEF HandleCover, CoversInOrder, ImageIds
  <2>2. [at |-> "get", id |-> <<b, m>>, of |-> 0] \in ViewerState
    BY <2>1, MarksFact DEF ViewerState
  <2> QED BY <1>4, <1>5, <2>1, <2>2 DEF HandleCover
<1>6. CASE Get(v)
  <2>1. [q EXCEPT !.at = "serve"] \in ViewerState /\ [q EXCEPT !.at = "render"] \in ViewerState
    BY <1>3 DEF ViewerState
  <2>2. q.at = "get" /\ q.id \in ImageIds /\ q.id[2] <= cover[q.id[1]]
    BY <1>3, <1>6 DEF Get, ViewerOK
  <2> DEFINE r == IF image[FileOf(v)] # 0 THEN [q EXCEPT !.at = "serve"]
                  ELSE IF shown[q.id[1]] # 0 THEN [q EXCEPT !.at = "render"] ELSE Gone
  <2>3. r \in ViewerState /\ (r.at # "idle" => r.id = q.id) /\ r.at # "rename"
    BY <1>3, <2>1, GoneFits DEF ViewerState
  <2>4. Moves(v, r) /\ UNCHANGED <<cover, mtime, shown, image, behind>>
    BY <1>6 DEF Get
  <2> HIDE DEF r
  <2> QED BY <1>4, <2>2, <2>3, <2>4
<1>7. CASE Render(v)
  <2> DEFINE r == [q EXCEPT !.at = "rename", !.of = cover[q.id[1]]]
  <2>1. q.at = "render" /\ q.id \in ImageIds /\ q.id[1] \in Books /\ q.id[2] <= cover[q.id[1]]
    BY <1>3, <1>7 DEF Render, ViewerOK
  <2>2. r \in ViewerState /\ r.id = q.id /\ r.of = cover[q.id[1]]
    BY <1>1, <1>3, <2>1 DEF ViewerState
  <2>3. Moves(v, r) /\ UNCHANGED <<cover, mtime, shown, image, behind>>
    BY <1>7 DEF Render
  <2> HIDE DEF r
  <2> QED BY <1>4, <2>1, <2>2, <2>3
<1>8. CASE RenderFails(v)
  BY <1>4, <1>8, GoneFits DEF RenderFails
<1>9. CASE Rename(v)
  <2> DEFINE r == [q EXCEPT !.at = "record"]
  <2>1. /\ q.at = "rename" /\ q.id \in ImageIds /\ FileOf(v) = q.id
        /\ q.id[2] <= cover[q.id[1]] /\ q.id[2] <= q.of /\ q.of \in Marks
    BY <1>3, <1>9 DEF Rename, ViewerOK, ViewerState
  <2>2. r \in ViewerState /\ r.id = q.id /\ r.at = "record"
    BY <1>3 DEF ViewerState
  <2>3. Moves(v, r) /\ image' = [image EXCEPT ![q.id] = q.of] /\ UNCHANGED <<cover, mtime, shown, behind>>
    BY <1>9, <2>1 DEF Rename
  <2>4. image' \in [ImageIds -> Marks] /\ ImagesOK'
    BY <1>1, <2>1, <2>3 DEF ImagesOK
  <2>5. viewer'[v] = r
    BY <1>1, <2>3 DEF Moves
  <2>6. ViewerOK(v)'
    <3> HIDE DEF r
    <3> QED BY <2>1, <2>2, <2>3, <2>5 DEF ViewerOK
  <2>7. viewer' \in [Viewers -> ViewerState] /\ CoversInOrder' /\ \A w \in Viewers : ViewerOK(w)'
    <3> HIDE DEF r
    <3> QED BY <2>2, <2>3, <2>6, ViewerMoves
  <2> QED BY <2>3, <2>4, <2>7 DEF CoverInv, CoverTypeOK, CoverIsAsNewAsItsId
<1>10. CASE RecordPicture(v)
  <2> DEFINE r == [q EXCEPT !.at = "serve"]
  <2>1. q.id \in ImageIds /\ q.id[2] <= cover[q.id[1]]
    BY <1>3, <1>10 DEF RecordPicture, ViewerOK
  <2>2. r \in ViewerState /\ r.id = q.id /\ r.at = "serve"
    BY <1>3 DEF ViewerState
  <2>3. Moves(v, r) /\ UNCHANGED <<cover, mtime, shown, image, behind>>
    BY <1>10 DEF RecordPicture
  <2> HIDE DEF r
  <2> QED BY <1>4, <2>1, <2>2, <2>3
<1>11. CASE Serve(v)
  <2>1. q.id \in ImageIds /\ FileOf(v) = q.id /\ q.id[2] \in Nat
    BY <1>3, <1>11 DEF Serve
  <2>2. image[q.id] \in Nat
    BY <1>1, <2>1, MarksFact
  <2>3. ~ (image[q.id] # 0 /\ image[q.id] < q.id[2])
    BY <1>1, <2>1, <2>2 DEF ImagesOK
  <2>4. Moves(v, Gone) /\ UNCHANGED <<cover, mtime, shown, image, behind>>
    BY <1>11, <2>1, <2>3 DEF Serve
  <2> QED BY <1>4, <2>4, GoneFits
<1> QED BY <1>5, <1>6, <1>7, <1>8, <1>9, <1>10, <1>11

LEMMA OtherSteps ==
  ASSUME CoverInv,
         \/ UNCHANGED vars
         \/ EbookNext /\ UNCHANGED coverVars
         \/ \E over \in SUBSET pictures : EvictPictures(over)
         \/ \E i \in ImageIds : UnlinkPicture(i) \/ DeletePictureRow(i)
         \/ Crash
  PROVE  CoverInv'
<1>1. CASE UNCHANGED <<cover, mtime, shown, image, viewer, behind>>
  BY <1>1 DEF CoverInv, CoverTypeOK, CoversInOrder, ImagesOK, CoverIsAsNewAsItsId, ViewerOK
<1>2. ASSUME NEW i \in ImageIds, UnlinkPicture(i) PROVE CoverInv'
  <2>1. image' = [image EXCEPT ![i] = 0] /\ UNCHANGED <<cover, mtime, shown, viewer, behind>>
    BY <1>2 DEF UnlinkPicture
  <2>2. image' \in [ImageIds -> Marks] /\ ImagesOK'
    BY <2>1, MarksFact DEF CoverInv, CoverTypeOK, ImagesOK
  <2> QED BY <2>1, <2>2 DEF CoverInv, CoverTypeOK, CoversInOrder, CoverIsAsNewAsItsId, ViewerOK
<1>3. CASE Crash
  <2>1. viewer' = [v \in Viewers |-> Gone] /\ UNCHANGED <<cover, mtime, shown, image, behind>>
    BY <1>3 DEF Crash
  <2>2. viewer' \in [Viewers -> ViewerState] /\ \A w \in Viewers : ViewerOK(w)'
    BY <2>1, GoneFits DEF ViewerOK, Gone
  <2> QED BY <2>1, <2>2 DEF CoverInv, CoverTypeOK, CoversInOrder, ImagesOK, CoverIsAsNewAsItsId
<1> QED BY <1>1, <1>2, <1>3 DEF vars, coverVars, EvictPictures, DeletePictureRow
-----------------------------------------------------------------------------
(* For any books, requests and sequence of new covers, evictions and crashes, *)
(* no picture sent is older than the cover its image id names (kobo/covers.go,*)
(* covers/covers.go, cmd/kobibri/commands.go OnConverted).                   *)
THEOREM NoStaleCover == Spec => []CoverIsAsNewAsItsId
<1>1. Init => CoverInv
  <2> SUFFICES ASSUME Init PROVE CoverInv
    OBVIOUS
  <2>1. 1 \in Marks /\ 0 \in Marks
    BY EbookAssumption DEF Marks
  <2>2. CoverTypeOK
    BY <2>1, GoneFits DEF Init, CoverTypeOK
  <2>3. CoversInOrder /\ ImagesOK /\ CoverIsAsNewAsItsId
    BY EbookAssumption DEF Init, CoversInOrder, ImagesOK, CoverIsAsNewAsItsId
  <2>4. \A v \in Viewers : ViewerOK(v)
    BY DEF Init, ViewerOK, Gone
  <2> QED BY <2>2, <2>3, <2>4 DEF CoverInv
<1>2. Inv /\ CoverInv /\ [Next]_vars => CoverInv'
  BY CoverSteps, RecoverSteps, ViewerSteps, OtherSteps DEF Next
<1>3. CoverInv => CoverIsAsNewAsItsId
  BY DEF CoverInv
<1> QED BY <1>1, <1>2, <1>3, InvHolds, PTL DEF Spec
-----------------------------------------------------------------------------
(***************************************************************************)
(* An index that has the fingerprint of the file given now was measured     *)
(* from it.  The file is read after its fingerprint was taken, and files    *)
(* are only replaced by newer ones: what an index was measured from is no   *)
(* older than its fingerprint says, and no newer than the file that has the *)
(* name now.  If the two ends meet, so does what lies between them.         *)
(***************************************************************************)
Fingerprints == [kind : {"none", "kepub", "plain"}, name : 0 .. MaxVersion, of : 0 .. MaxVersion]
Indexes == [fp : Fingerprints, of : 0 .. MaxVersion]

NoNewer(b, name, of) ==
  /\ of \in Versions /\ of <= source[b]
  /\ b \in Convertible => name \in Versions /\ (copy[<<b, name>>] # 0 => of <= copy[<<b, name>>])

IndexOK(b) ==
  index[b].fp.kind # "none" => /\ index[b].fp.of \in Versions /\ index[b].fp.of <= index[b].of
                               /\ NoNewer(b, index[b].fp.name, index[b].of)

BuilderOK ==
  actor[Builder].at \in {"kepub", "plain"} =>
    /\ actor[Builder].book \in Books
    /\ NoNewer(actor[Builder].book, actor[Builder].fp, actor[Builder].of)

IndexInv == index \in [Books -> Indexes] /\ BuilderOK /\ \A b \in Books : IndexOK(b)

(* Files are only replaced by newer ones, or removed. *)
FilesGrow ==
  /\ \A b \in Books : source[b] <= source'[b]
  /\ \A k \in Key : copy'[k] \in {copy[k], 0, source[k[1]]}
LEMMA FilesOnlyGrow ==
  ASSUME Inv, [Next]_vars
  PROVE  FilesGrow
<1>1. source \in [Books -> Versions] /\ copy \in [Key -> 0 .. MaxVersion]
  BY TypesOfInv
<1>2. \A b \in Books : source[b] \in Nat
  BY <1>1, EbookAssumption DEF Versions
<1>3. CASE UNCHANGED <<source, copy>>
  BY <1>2, <1>3 DEF FilesGrow
<1>4. ASSUME NEW a \in Callers, Convert(a) PROVE FilesGrow
  <2>1. KeyOf(a) \in Key /\ KeyOf(a)[1] = actor[a].book
    BY <1>4, TypesOfInv DEF Convert, At, KeyOK, HasKey, KeyOf, Key
  <2>2. copy' = [copy EXCEPT ![KeyOf(a)] = source[KeyOf(a)[1]]] /\ source' = source
    BY <1>4, <2>1 DEF Convert
  <2> QED BY <1>1, <1>2, <2>1, <2>2 DEF FilesGrow
<1>5. ASSUME NEW k \in Key, Unlink(k) PROVE FilesGrow
  <2>1. copy' = [copy EXCEPT ![k] = 0] /\ source' = source
    BY <1>5 DEF Unlink
  <2> QED BY <1>1, <1>2, <2>1 DEF FilesGrow
<1>6. ASSUME NEW b \in Books, Replace(b) PROVE FilesGrow
  <2>1. source' = [source EXCEPT ![b] = source[b] + 1] /\ copy' = copy
    BY <1>6 DEF Replace
  <2> QED BY <1>1, <1>2, <2>1 DEF FilesGrow
<1>7. CASE EbookNext
  BY <1>3, <1>4, <1>5, <1>6, <1>7
  DEF EbookNext, Ensure, RetryAfter, Ask, Visit, Path, Acquire, ConvertFails, Record, Refused, Open, ServedFile,
      Measure, Measured, Evict, DeleteRow, Cancel
<1>8. CASE UNCHANGED vars \/ Crash
  BY <1>3, <1>8 DEF vars, ebookVars, Crash, EbookCrash
<1>9. CASE (\E found \in BOOLEAN : RecoverCover(found)) \/ ResolveRecovered
  BY <1>3, <1>9 DEF RecoverCover, ResolveRecovered
<1>10. ASSUME UNCHANGED ebookVars PROVE FilesGrow
  BY <1>3, <1>10 DEF ebookVars
<1>11. ASSUME NEW b \in Books, ReplaceCover(b) \/ ScanCover(b) \/ ResolveBook(b) PROVE FilesGrow
  BY <1>10, <1>11 DEF ReplaceCover, ScanCover, ResolveBook
<1>12. ASSUME NEW v \in Viewers,
              \/ \E b \in Books, m \in 0 .. MaxVersion : HandleCover(v, b, m)
              \/ Get(v) \/ Render(v) \/ RenderFails(v) \/ Rename(v) \/ RecordPicture(v) \/ Serve(v)
       PROVE  FilesGrow
  BY <1>10, <1>12 DEF HandleCover, Get, Render, RenderFails, Rename, RecordPicture, Serve
<1>13. ASSUME NEW over \in SUBSET pictures, EvictPictures(over) PROVE FilesGrow
  BY <1>10, <1>13 DEF EvictPictures
<1>14. ASSUME NEW i \in ImageIds, UnlinkPicture(i) \/ DeletePictureRow(i) PROVE FilesGrow
  BY <1>10, <1>14 DEF UnlinkPicture, DeletePictureRow
<1> QED BY <1>7, <1>8, <1>9, <1>11, <1>12, <1>13, <1>14 DEF Next

(* What is no newer than the file stays so, whatever becomes of the file. *)
LEMMA NoNewerStays ==
  ASSUME Inv, Inv', FilesGrow, NEW b \in Books, NEW name, NEW of, NoNewer(b, name, of)
  PROVE  /\ of <= source'[b]
         /\ b \in Convertible => (copy'[<<b, name>>] # 0 => of <= copy'[<<b, name>>])
<1>1. source[b] \in Versions /\ source'[b] \in Versions /\ of \in Versions /\ of <= source[b] /\ source[b] <= source'[b]
  BY DEF Inv, EbookTypeOK, FilesGrow, NoNewer
<1>2. of <= source'[b]
  BY <1>1, EbookAssumption DEF Versions
<1>3. ASSUME b \in Convertible, copy'[<<b, name>>] # 0 PROVE of <= copy'[<<b, name>>]
  <2>1. <<b, name>> \in Key /\ <<b, name>>[1] = b
    BY <1>3 DEF NoNewer, Key
  <2>2. copy'[<<b, name>>] = copy[<<b, name>>] \/ copy'[<<b, name>>] = source[b]
    BY <1>3, <2>1 DEF FilesGrow
  <2> QED BY <1>1, <1>3, <2>2 DEF NoNewer
<1> QED BY <1>2, <1>3

BuilderStays ==
  actor'[Builder].at \in {"kepub", "plain"} =>
    /\ actor[Builder].at \in {"kepub", "plain"}
    /\ actor'[Builder].book = actor[Builder].book /\ actor'[Builder].fp = actor[Builder].fp
    /\ actor'[Builder].of = actor[Builder].of

BuilderKnows == BuilderOK'

LEMMA OldIndexesStay ==
  ASSUME Inv, Inv', FilesGrow, IndexInv, NEW b \in Books, index'[b] = index[b]
  PROVE  IndexOK(b)'
<1>1. CASE index[b].fp.kind = "none"
  BY <1>1 DEF IndexOK
<1>2. CASE index[b].fp.kind # "none"
  <2>1. NoNewer(b, index[b].fp.name, index[b].of) /\ index[b].fp.of \in Versions /\ index[b].fp.of <= index[b].of
    BY <1>2 DEF IndexInv, IndexOK
  <2>2. /\ index[b].of <= source'[b]
        /\ b \in Convertible => (copy'[<<b, index[b].fp.name>>] # 0 => index[b].of <= copy'[<<b, index[b].fp.name>>])
    BY <2>1, NoNewerStays
  <2> QED BY <2>1, <2>2 DEF IndexOK, NoNewer
<1> QED BY <1>1, <1>2

LEMMA BuilderStillKnows ==
  ASSUME Inv, Inv', FilesGrow, IndexInv, BuilderStays
  PROVE  BuilderKnows
<1> DEFINE q == actor[Builder]
<1>1. ASSUME actor'[Builder].at \in {"kepub", "plain"}
      PROVE  /\ actor'[Builder].book \in Books
             /\ NoNewer(actor[Builder].book, actor[Builder].fp, actor[Builder].of)'
  <2>1. /\ q.book \in Books /\ NoNewer(q.book, q.fp, q.of)
        /\ actor'[Builder].book = q.book /\ actor'[Builder].fp = q.fp /\ actor'[Builder].of = q.of
    BY <1>1 DEF BuilderStays, IndexInv, BuilderOK
  <2>2. /\ q.of <= source'[q.book]
        /\ q.book \in Convertible => (copy'[<<q.book, q.fp>>] # 0 => q.of <= copy'[<<q.book, q.fp>>])
    <3> HIDE DEF q
    <3> QED BY <2>1, NoNewerStays
  <2> QED BY <2>1, <2>2 DEF NoNewer
<1> QED BY <1>1 DEF BuilderKnows, BuilderOK

(* Steps that measure nothing. *)
LEMMA OtherStepsMeasureNothing ==
  ASSUME Inv, Inv', FilesGrow, IndexInv, BuilderStays, index' = index
  PROVE  IndexInv'
<1>1. \A b \in Books : IndexOK(b)'
  BY OldIndexesStay
<1>2. BuilderOK'
  BY BuilderStillKnows DEF BuilderKnows
<1> QED BY <1>1, <1>2 DEF IndexInv

(* The file that is opened to be measured. *)
LEMMA ContentIsNoNewer ==
  ASSUME Inv, NEW a \in Callers, actor[a].at # "idle", Content(a) # 0,
         actor[a].book \in Convertible => actor[a].fp \in Versions
  PROVE  NoNewer(actor[a].book, actor[a].fp, Content(a))
<1> DEFINE q == actor[a]
<1>1. q.book \in Books /\ source[q.book] \in Versions
  BY TypesOfInv DEF AskedOK
<1>2. CASE q.book \in Plain
  BY <1>1, <1>2, EbookAssumption DEF Content, NoNewer, Versions
<1>3. CASE q.book \notin Plain
  <2>1. q.book \in Convertible /\ KeyOf(a) \in Key /\ KeyOf(a) = <<q.book, q.fp>>
    BY <1>1, <1>3 DEF Books, KeyOf, Key
  <2>2. Content(a) = copy[KeyOf(a)] /\ copy[KeyOf(a)] \in Versions /\ copy[KeyOf(a)] <= source[q.book]
    BY <1>3, <2>1, TypesOfInv, EbookAssumption DEF Content, Versions, Inv, CopiesOK
  <2> QED BY <1>1, <2>1, <2>2, EbookAssumption DEF NoNewer, Versions
<1> QED BY <1>2, <1>3

LEMMA ServedFileIsKnown ==
  ASSUME Inv, Inv', FilesGrow, IndexInv, NEW kind \in {"kepub", "plain"}, ServedFile(kind)
  PROVE  IndexInv'
<1> DEFINE q == actor[Builder]
           v == Content(Builder)
<1>1. /\ Builder \in Callers /\ q \in Record0 /\ q.at = "open" /\ KeyOK(Builder) /\ q.book \in Books
  BY TypesOfInv, BuilderInCallers DEF ServedFile, At, AskedOK
<1>2. /\ actor'[Builder].of = v /\ actor'[Builder].book = q.book /\ actor'[Builder].fp = q.fp
      /\ actor'[Builder].at \in {"kepub", "plain"} => v # 0
      /\ UNCHANGED <<source, copy, index>>
  BY <1>1, TypesOfInv DEF ServedFile, Record0
<1>3. \A b \in Books : IndexOK(b)'
  BY <1>2, OldIndexesStay
<1>4. ASSUME actor'[Builder].at \in {"kepub", "plain"}
      PROVE  NoNewer(q.book, q.fp, v)
  <2>1. v # 0
    BY <1>2, <1>4
  <2>2. q.book \in Convertible => q.fp \in Versions
    BY <1>1 DEF KeyOK, HasKey
  <2> QED BY <1>1, <2>1, <2>2, ContentIsNoNewer
<1>5. BuilderOK'
  <2> HIDE DEF v
  <2> QED BY <1>1, <1>2, <1>4 DEF BuilderOK, NoNewer
<1> QED BY <1>2, <1>3, <1>5 DEF IndexInv

LEMMA MeasureFits ==
  ASSUME Inv, Inv', FilesGrow, IndexInv, Measure
  PROVE  IndexInv'
<1> DEFINE q == actor[Builder]
           v == IF q.at = "kepub" THEN q.of ELSE Content(Builder)
<1>1. /\ Builder \in Callers /\ q \in Record0 /\ q.at \in {"kepub", "plain"} /\ q.book \in Books
      /\ NoNewer(q.book, q.fp, q.of) /\ UNCHANGED <<source, copy>>
  BY TypesOfInv, BuilderInCallers DEF Measure, IndexInv, BuilderOK
<1>2. actor'[Builder].at \in {"measured", "failed"}
  <2>1. \/ actor' = [actor EXCEPT ![Builder].at = "measured"]
        \/ actor' = [actor EXCEPT ![Builder].at = "failed"]
    BY DEF Measure, Goes
  <2> QED BY <1>1, <2>1, TypesOfInv DEF Record0
<1>3. BuilderOK'
  BY <1>2 DEF BuilderOK
<1>4. CASE index' = index
  BY <1>3, <1>4, OldIndexesStay DEF IndexInv
<1>5. CASE v # 0 /\ index' = [index EXCEPT ![q.book] = Measurement(q, v)]
  <2>1. NoNewer(q.book, q.fp, v) /\ q.of \in Versions /\ v \in Versions /\ q.of <= v
    <3>1. CASE q.at = "kepub"
      BY <1>1, <3>1, EbookAssumption DEF NoNewer, Versions
    <3>2. CASE q.at = "plain"
      <4>1. v = Content(Builder) /\ q.at # "idle"
        BY <3>2
      <4>2. NoNewer(q.book, q.fp, v)
        BY <1>1, <1>5, <4>1, ContentIsNoNewer DEF NoNewer
      <4>3. q.of <= v
        <5>1. CASE q.book \in Plain
          BY <1>1, <4>1, <5>1 DEF Content, NoNewer
        <5>2. CASE q.book \notin Plain
          <6>1. q.book \in Convertible /\ v = copy[<<q.book, q.fp>>]
            BY <1>1, <4>1, <5>2 DEF Content, KeyOf, Books
          <6> QED BY <1>1, <1>5, <6>1 DEF NoNewer
        <5> QED BY <5>1, <5>2
      <4> QED BY <1>1, <4>2, <4>3 DEF NoNewer
    <3> QED BY <1>1, <3>1, <3>2
  <2> DEFINE m == Measurement(q, v)
             name == IF q.book \in Plain THEN 0 ELSE q.fp
  <2>2. /\ m = [fp |-> [kind |-> q.at, name |-> name, of |-> q.of], of |-> v]
        /\ name \in 0 .. MaxVersion /\ q.of \in 0 .. MaxVersion /\ v \in 0 .. MaxVersion
        /\ (q.book \in Convertible => name = q.fp)
    BY <1>1, <2>1, EbookAssumption DEF Measurement, FingerprintOf, Record0, Versions
  <2>3. m \in Indexes /\ m.fp.of = q.of /\ m.of = v /\ m.fp.name = name
    <3> HIDE DEF name, v, m
    <3> QED BY <1>1, <2>2 DEF Indexes, Fingerprints
  <2>4. index' \in [Books -> Indexes] /\ index'[q.book] = m /\ \A b \in Books : b # q.book => index'[b] = index[b]
    <3> HIDE DEF m
    <3> QED BY <1>1, <1>5, <2>3 DEF IndexInv, m
  <2>5. ASSUME NEW b \in Books PROVE IndexOK(b)'
    <3>1. CASE b = q.book
      <4> HIDE DEF name, v, m, q
      <4> QED BY <1>1, <2>1, <2>2, <2>3, <2>4, <3>1 DEF IndexOK, NoNewer
    <3>2. CASE b # q.book
      BY <2>4, <3>2, OldIndexesStay
    <3> QED BY <3>1, <3>2
  <2> QED BY <1>3, <2>4, <2>5 DEF IndexInv
<1> QED BY <1>4, <1>5 DEF Measure

(* The builder goes on from reading only by measuring. *)
LEMMA BuilderStaysOr ==
  ASSUME Inv, [Next]_vars
  PROVE  \/ BuilderStays /\ index' = index
         \/ Measure
         \/ \E kind \in {"kepub", "plain"} : ServedFile(kind)
<1> DEFINE Fine == BuilderStays /\ index' = index
<1>1. actor \in [Callers -> Record0] /\ Builder \in Callers /\ Builder \notin Clients
  BY TypesOfInv, BuilderInCallers
<1>2. ASSUME index' = index, actor' = actor PROVE Fine
  BY <1>2 DEF BuilderStays
<1>3. ASSUME NEW a \in Callers, NEW q, actor' = [actor EXCEPT ![a] = q], index' = index,
             q.at \notin {"kepub", "plain"}
      PROVE  Fine
  BY <1>1, <1>3 DEF BuilderStays
<1>4. ASSUME NEW a \in Callers, NEW at \in {"open", "failed"}, Finish(a, at), index' = index
      PROVE  Fine
  <2>1. \/ actor'[Builder] = actor[Builder]
        \/ actor'[Builder] = [actor[Builder] EXCEPT !.at = at]
    BY <1>1, <1>4 DEF Finish
  <2> QED BY <1>1, <1>4, <2>1 DEF BuilderStays, Record0
<1>5. ASSUME NEW a \in Callers, NEW place \in {"convert", "record"}, Goes(a, place), index' = index
      PROVE  Fine
  <2>1. \/ actor'[Builder] = actor[Builder]
        \/ actor'[Builder] = [actor[Builder] EXCEPT !.at = place]
    BY <1>1, <1>5 DEF Goes
  <2> QED BY <1>1, <1>5, <2>1 DEF BuilderStays, Record0
<1>6. ASSUME NEW a \in Callers, NEW b \in Books, Begins(a, b), index' = index PROVE Fine
  <2>1. [Idle EXCEPT !.at = "path", !.book = b, !.asked = source[b]].at = "path"
    BY DEF Idle
  <2> QED BY <1>3, <1>6, <2>1 DEF Begins
<1>7. ASSUME NEW a \in Callers, actor' = [actor EXCEPT ![a] = Idle], index' = index PROVE Fine
  BY <1>3, <1>7 DEF Idle
<1>8. ASSUME NEW c \in Clients, NEW q, actor' = [actor EXCEPT ![c] = q], index' = index PROVE Fine
  <2>1. actor'[Builder] = actor[Builder]
    BY <1>1, <1>8
  <2> QED BY <1>8, <2>1 DEF BuilderStays
<1>9. ASSUME NEW a \in Callers, Path(a) PROVE Fine
  <2>1. actor'[Builder] = actor[Builder] \/ actor'[Builder].at \in {"open", "wait", "acquire"}
    BY <1>1, <1>9 DEF Path, Record0
  <2> QED BY <1>9, <2>1 DEF Path, BuilderStays
<1>10. ASSUME NEW a \in Callers, Acquire(a) \/ Convert(a) \/ ConvertFails(a) \/ Record(a) PROVE Fine
  BY <1>4, <1>5, <1>10 DEF Acquire, Convert, ConvertFails, Record
<1>11. ASSUME NEW a \in Readers \cup {Builder}, Cancel(a) PROVE Fine
  <2>1. a \in Callers /\ actor' = [actor EXCEPT ![a].live = FALSE] /\ index' = index
    BY <1>11 DEF Cancel, Callers, Clients
  <2>2. actor'[Builder] = actor[Builder] \/ actor'[Builder] = [actor[Builder] EXCEPT !.live = FALSE]
    BY <1>1, <2>1
  <2> QED BY <1>1, <2>1, <2>2 DEF BuilderStays, Record0
<1>12. ASSUME NEW c \in Clients, NEW kepub \in BOOLEAN, Open(c, kepub) PROVE Fine
  BY <1>8, <1>12 DEF Open
<1>13. ASSUME NEW a \in Callers, Refused(a) PROVE Fine
  BY <1>7, <1>13 DEF Refused
<1>14. CASE Measured
  BY <1>1, <1>7, <1>14 DEF Measured
<1>15. CASE Crash
  <2>1. actor'[Builder].at = "idle" /\ index' = index
    BY <1>1, <1>15 DEF Crash, EbookCrash, Idle
  <2> QED BY <2>1 DEF BuilderStays
<1>16. ASSUME NEW found \in BOOLEAN, RecoverCover(found) \/ ResolveRecovered PROVE Fine
  <2>1. Prewarmer \in Clients
    BY DEF Clients
  <2> QED BY <1>8, <1>16, <2>1 DEF RecoverCover, ResolveRecovered
<1>17. ASSUME UNCHANGED ebookVars PROVE Fine
  BY <1>2, <1>17 DEF ebookVars
<1>18. ASSUME NEW b \in Books, Ensure(b) \/ (\E r \in Readers : Ask(r, b)) \/ Visit(b) PROVE Fine
  BY <1>1, <1>6, <1>18 DEF Ensure, Ask, Visit, Callers, Clients
<1>19. ASSUME NEW b \in Books, Replace(b) \/ RetryAfter(b) PROVE Fine
  BY <1>2, <1>19 DEF Replace, RetryAfter
<1>20. ASSUME NEW over \in SUBSET rows, Evict(over) PROVE Fine
  BY <1>2, <1>20 DEF Evict
<1>21. ASSUME NEW k \in Key, Unlink(k) \/ DeleteRow(k) PROVE Fine
  BY <1>2, <1>21 DEF Unlink, DeleteRow
<1>22. ASSUME NEW b \in Books, ReplaceCover(b) \/ ScanCover(b) \/ ResolveBook(b) PROVE Fine
  BY <1>17, <1>22 DEF ReplaceCover, ScanCover, ResolveBook
<1>23. ASSUME NEW v \in Viewers,
              \/ \E b \in Books, m \in 0 .. MaxVersion : HandleCover(v, b, m)
              \/ Get(v) \/ Render(v) \/ RenderFails(v) \/ Rename(v) \/ RecordPicture(v) \/ Serve(v)
       PROVE  Fine
  BY <1>17, <1>23 DEF HandleCover, Get, Render, RenderFails, Rename, RecordPicture, Serve
<1>24. ASSUME NEW over \in SUBSET pictures, EvictPictures(over) PROVE Fine
  BY <1>17, <1>24 DEF EvictPictures
<1>25. ASSUME NEW i \in ImageIds, UnlinkPicture(i) \/ DeletePictureRow(i) PROVE Fine
  BY <1>17, <1>25 DEF UnlinkPicture, DeletePictureRow
<1>26. CASE UNCHANGED vars
  BY <1>17, <1>26 DEF vars
<1> HIDE DEF Fine
<1>27. CASE EbookNext
  <2>1. ASSUME NEW b \in Convertible, Visit(b) PROVE Fine
    BY <1>18, <2>1 DEF Books
  <2> QED BY <1>9, <1>10, <1>11, <1>12, <1>13, <1>14, <1>18, <1>19, <1>20, <1>21, <1>27, <2>1 DEF EbookNext, Fine
<1> QED BY <1>15, <1>16, <1>22, <1>23, <1>24, <1>25, <1>26, <1>27 DEF Next, Fine

(* For any books, readers, slots and budget: an index whose fingerprint is   *)
(* that of the file given now was measured from that file (textindex/       *)
(* builder.go:67-102), though the file is converted, evicted, converted anew *)
(* and replaced between the steps of the builder.                           *)
THEOREM IndexesAreOfTheirFile == Spec => []IndexIsOfItsFile
<1>1. Init => IndexInv
  <2> SUFFICES ASSUME Init PROVE IndexInv
    OBVIOUS
  <2>1. /\ index = [b \in Books |-> [fp |-> NoFile, of |-> 0]] /\ actor[Builder] = Idle
        /\ [fp |-> NoFile, of |-> 0] \in Indexes
    BY BuilderInCallers, EbookAssumption DEF Init, EbookInit, NoFile, Indexes, Fingerprints
  <2>2. \A b \in Books : index[b].fp.kind = "none"
    BY <2>1 DEF NoFile
  <2> QED BY <2>1, <2>2 DEF IndexInv, IndexOK, BuilderOK, Idle
<1>2. Inv /\ Inv' /\ IndexInv /\ [Next]_vars => IndexInv'
  BY FilesOnlyGrow, BuilderStaysOr, OtherStepsMeasureNothing, ServedFileIsKnown, MeasureFits
<1>3. Inv /\ IndexInv => IndexIsOfItsFile
  <2> SUFFICES ASSUME Inv, IndexInv, NEW b \in Books, NEW kind \in {"kepub", "plain"}
               PROVE  LET name == source[b]
                          of == IF b \in Plain THEN source[b] ELSE copy[<<b, name>>]
                      IN  index[b].fp = FingerprintOf(kind, b, name, of) => index[b].of = of
    BY DEF IndexIsOfItsFile
  <2> DEFINE of == IF b \in Plain THEN source[b] ELSE copy[<<b, source[b]>>]
  <2> SUFFICES ASSUME index[b].fp = FingerprintOf(kind, b, source[b], of) PROVE index[b].of = of
    OBVIOUS
  <2>1. /\ index[b].fp.kind = kind /\ index[b].fp.of = of
        /\ b \notin Plain => index[b].fp.name = source[b]
    <3> HIDE DEF of
    <3> QED BY DEF FingerprintOf
  <2>2. /\ of \in Versions /\ of <= index[b].of /\ index[b].of \in Versions /\ index[b].of <= source[b]
        /\ b \in Convertible => (copy[<<b, index[b].fp.name>>] # 0 => index[b].of <= copy[<<b, index[b].fp.name>>])
    BY <2>1 DEF IndexInv, IndexOK, NoNewer
  <2>3. index[b].of <= of
    BY <2>1, <2>2, EbookAssumption DEF Books, Versions
  <2> QED BY <2>2, <2>3, EbookAssumption DEF Versions
<1> QED BY <1>1, <1>2, <1>3, InvHolds, PTL DEF Spec
=============================================================================
