----------------------------- MODULE EbookCache -----------------------------
(***************************************************************************)
(* Books made into EPUB on demand (ebookconv) and measured for reading      *)
(* speed (textindex).  Readers and the prewarmer ask for files, the         *)
(* builder of word indexes opens them, the janitor evicts them: each works  *)
(* in its own goroutine and steps between the others' statements.           *)
(*                                                                         *)
(* A fingerprint is the version of the file it is taken of; all copies have *)
(* one size, so the budget counts them.  Which were used last is left open, *)
(* and epub_failures is left out: it is written, and nothing reads it.       *)
(***************************************************************************)
EXTENDS Integers, FiniteSets

CONSTANTS
  Plain,       \* books the library holds as EPUB
  Convertible, \* books it holds in another format only
  Readers,     \* downloads, by devices and browsers
  Prewarmer,   \* the goroutine of Prewarmer.Run
  Builder,     \* textindex.Builder, measuring one book at a time
  Slots,       \* Options.Concurrency
  Budget,      \* config.EpubCacheBytes, in files
  MaxVersion,  \* bound: versions of a file
  MaxChanges,  \* bound: requests and changes of the world in one behaviour
  Happens      \* the changes of the world that a run exercises

Books == Plain \cup Convertible
Clients == Readers \cup {Prewarmer}
Callers == Clients \cup {Builder}
Versions == 1 .. MaxVersion
Key == Convertible \X Versions

ASSUME EbookAssumption ==
  /\ Plain \cap Convertible = {} /\ "none" \notin Books
  /\ Prewarmer \notin Readers /\ Builder \notin Clients
  /\ Slots \in Nat \ {0} /\ Budget \in Nat /\ MaxVersion \in Nat \ {0} /\ MaxChanges \in Nat
  /\ Happens \subseteq {"replace", "fail", "cancel", "evict", "crash", "cover"}

VARIABLES
  source,    \* source[b]: the version of the file in the library
  copy,      \* copy[k]: the version the converted file was made from, 0 if there is none
  rows,      \* epub_cache
  actor,     \* what every goroutine is doing
  kepubs,    \* converted books with a row in kepub_cache: the prewarmer is done with them
  index,     \* book_text_index: the fingerprint an index has, and what it was measured from
  shunned,   \* Builder.failed: books left alone for an hour
  removing,  \* the janitor: rows it has found over the budget, those whose file it has removed
  given,     \* history: what a client was given last
  changes

ebookVars == <<source, copy, rows, actor, kepubs, index, shunned, removing, given>>

Nothing == [book |-> "none", version |-> 0]
Idle == [at |-> "idle", book |-> "none", fp |-> 0, asked |-> 0, of |-> 0, live |-> TRUE]
NoFile == [kind |-> "none", name |-> 0, of |-> 0]

EbookInit ==
  /\ source = [b \in Books |-> 1]
  /\ copy = [k \in Key |-> 0]
  /\ rows = {} /\ kepubs = {} /\ shunned = {}
  /\ actor = [a \in Callers |-> Idle]
  /\ index = [b \in Books |-> [fp |-> NoFile, of |-> 0]]
  /\ removing = [listed |-> {}, unlinked |-> {}]
  /\ given = [c \in Clients |-> Nothing]

Change(kind) == kind \in Happens /\ changes < MaxChanges /\ changes' = changes + 1
Request == changes < MaxChanges /\ changes' = changes + 1

At(a, place) == actor[a].at = place
Goes(a, place) == actor' = [actor EXCEPT ![a].at = place]
KeyOf(a) == <<actor[a].book, actor[a].fp>>
Leading == {"acquire", "convert", "record"}

FingerprintOfPath(b) == 1 \* seeded bug: the path, and not the file
Fingerprint(b) == source[b]

(* singleflight: those waiting for a key get the leader's result.           *)
InFlight(k) == \E a \in Callers : actor[a].at \in Leading /\ KeyOf(a) = k
Finish(a, at) ==
  actor' = [x \in Callers |-> IF x = a \/ (At(x, "wait") /\ KeyOf(x) = KeyOf(a))
                              THEN [actor[x] EXCEPT !.at = at] ELSE actor[x]]

(***************************************************************************)
(* EPUBFor, and Cache.Path under it.                                       *)
(***************************************************************************)
Begins(a, b) == actor' = [actor EXCEPT ![a] = [Idle EXCEPT !.at = "path", !.book = b, !.asked = source[b]]]

Ask(r, b) ==
  /\ Request
  /\ At(r, "idle")
  /\ Begins(r, b)
  /\ UNCHANGED <<source, copy, rows, kepubs, index, shunned, removing, given>>

(* Prewarmer.pending: a book with no KEPUB yet.                             *)
Visit(b) ==
  /\ Request
  /\ At(Prewarmer, "idle") /\ b \notin kepubs
  /\ Begins(Prewarmer, b)
  /\ UNCHANGED <<source, copy, rows, kepubs, index, shunned, removing, given>>

(* A library's own EPUB is taken as it is; of another format the copy there  *)
(* is, or a conversion, joined if one is in flight.                         *)
Path(a) ==
  LET q == actor[a]
      k == <<q.book, Fingerprint(q.book)>>
  IN  /\ At(a, "path")
      /\ actor' = [actor EXCEPT ![a].fp = k[2],
                     ![a].at = IF q.book \in Plain THEN "open"
                               ELSE IF InFlight(k) THEN "wait"
                               ELSE IF copy[k] # 0 THEN "open" ELSE "acquire"]
      /\ UNCHANGED <<source, copy, rows, kepubs, index, shunned, removing, given, changes>>

(* A slot, under the context of the one who leads.                          *)
Acquire(a) ==
  /\ At(a, "acquire")
  /\ IF ~actor[a].live THEN Finish(a, "failed")
     ELSE /\ Cardinality({x \in Callers : actor[x].at \in {"convert", "record"}}) < Slots
          /\ IF copy[KeyOf(a)] # 0 THEN Finish(a, "open") ELSE Goes(a, "convert")
  /\ UNCHANGED <<source, copy, rows, kepubs, index, shunned, removing, given, changes>>

(* The converter reads the file as it is now, and the result is renamed into place. *)
Convert(a) ==
  /\ At(a, "convert") /\ actor[a].live
  /\ copy' = [copy EXCEPT ![KeyOf(a)] = source[actor[a].book]]
  /\ Goes(a, "record")
  /\ UNCHANGED <<source, rows, kepubs, index, shunned, removing, given, changes>>

ConvertFails(a) ==
  /\ At(a, "convert")
  /\ IF actor[a].live THEN Change("fail") ELSE UNCHANGED changes
  /\ Finish(a, "failed")
  /\ UNCHANGED <<source, copy, rows, kepubs, index, shunned, removing, given>>

(* Under a cancelled context nothing is written: the copy stays, with no row. *)
Record(a) ==
  /\ At(a, "record")
  /\ rows' = IF actor[a].live THEN rows \cup {KeyOf(a)} ELSE rows
  /\ Finish(a, "open")
  /\ UNCHANGED <<source, copy, kepubs, index, shunned, removing, given, changes>>

(* There is no EPUB: a download is not found, a book cannot be measured.    *)
Refused(a) ==
  /\ At(a, "failed")
  /\ actor' = [actor EXCEPT ![a] = Idle]
  /\ shunned' = IF a = Builder THEN shunned \cup {actor[a].book} ELSE shunned
  /\ UNCHANGED <<source, copy, rows, kepubs, index, removing, given, changes>>

Content(a) == IF actor[a].book \in Plain THEN source[actor[a].book] ELSE copy[KeyOf(a)]

(* The file is opened; it may have been evicted since.  What is served, or   *)
(* prewarmed, has been made into a KEPUB, if that did not fail.              *)
Open(c, kepub) ==
  LET b == actor[c].book
      v == Content(c)
      served == v # 0 /\ actor[c].live
  IN  /\ At(c, "open")
      /\ kepub => served
      /\ given' = IF served THEN [given EXCEPT ![c] = [book |-> b, version |-> v]] ELSE given
      /\ kepubs' = IF kepub THEN kepubs \cup {b} ELSE kepubs
      /\ actor' = [actor EXCEPT ![c] = IF c = Prewarmer /\ kepub
                                       THEN [actor[c] EXCEPT !.at = "recover"] ELSE Idle]
      /\ UNCHANGED <<source, copy, rows, index, shunned, removing, changes>>

(***************************************************************************)
(* textindex.Builder.                                                      *)
(***************************************************************************)
Ensure(b) ==
  /\ Request
  /\ At(Builder, "idle") /\ b \notin shunned
  /\ Begins(Builder, b)
  /\ UNCHANGED <<source, copy, rows, kepubs, index, shunned, removing, given>>

(* The fingerprint of a file.  The same bytes under the same name are one    *)
(* file, however often they were made.                                      *)
FingerprintOf(kind, b, name, of) ==
  [kind |-> kind, name |-> IF b \in Plain THEN 0 ELSE name, of |-> of]

(* servedFile finds the KEPUB made of the EPUB, or the EPUB itself where     *)
(* there is none; its fingerprint is taken.                                 *)
ServedFile(kind) ==
  LET q == actor[Builder]
      v == Content(Builder)
  IN  /\ At(Builder, "open")
      /\ actor' = [actor EXCEPT ![Builder].of = v,
                     ![Builder].at = IF v = 0 THEN "failed"
                       ELSE IF index[q.book].fp = FingerprintOf(kind, q.book, q.fp, v) THEN "measured" ELSE kind]
      /\ UNCHANGED <<source, copy, rows, kepubs, index, shunned, removing, given, changes>>

MeasuredThenNamed(q, v) == \* seeded bug: the fingerprint is taken after the file was read
  [fp |-> FingerprintOf(q.at, q.book, q.fp, Content(Builder)), of |-> q.of]
Measurement(q, v) ==
  [fp |-> FingerprintOf(q.at, q.book, q.fp, q.of), of |-> v]

(* Build reads the file, and SaveTextIndex replaces the whole index.  A      *)
(* KEPUB stays what it is; an EPUB may have been replaced, or be gone.       *)
Measure ==
  LET q == actor[Builder]
      v == IF q.at = "kepub" THEN q.of ELSE Content(Builder)
  IN  /\ q.at \in {"kepub", "plain"}
      /\ IF v # 0 /\ q.live
         THEN /\ index' = [index EXCEPT ![q.book] = Measurement(q, v)]
              /\ Goes(Builder, "measured")
         ELSE index' = index /\ Goes(Builder, "failed")
      /\ UNCHANGED <<source, copy, rows, kepubs, shunned, removing, given, changes>>

Measured ==
  /\ At(Builder, "measured")
  /\ actor' = [actor EXCEPT ![Builder] = Idle]
  /\ UNCHANGED <<source, copy, rows, kepubs, index, shunned, removing, given, changes>>

RetryAfter(b) ==
  /\ b \in shunned
  /\ shunned' = shunned \ {b}
  /\ UNCHANGED <<source, copy, rows, actor, kepubs, index, removing, given, changes>>

(***************************************************************************)
(* The janitor: Evict lists the rows over the budget, removes the file of    *)
(* each, then its row.                                                      *)
(***************************************************************************)
Least(m, n) == IF m < n THEN m ELSE n

Evict(over) ==
  /\ Change("evict")
  /\ removing.listed = {} /\ over # {} /\ over \subseteq rows
  /\ Cardinality(rows \ over) = Least(Budget, Cardinality(rows))
  /\ removing' = [listed |-> over, unlinked |-> {}]
  /\ UNCHANGED <<source, copy, rows, actor, kepubs, index, shunned, given>>

Unlink(k) ==
  /\ k \in removing.listed \ removing.unlinked
  /\ copy' = [copy EXCEPT ![k] = 0]
  /\ removing' = [removing EXCEPT !.unlinked = @ \cup {k}]
  /\ UNCHANGED <<source, rows, actor, kepubs, index, shunned, given, changes>>

DeleteRow(k) ==
  /\ k \in removing.unlinked
  /\ rows' = rows \ {k}
  /\ removing' = [listed |-> removing.listed \ {k}, unlinked |-> removing.unlinked \ {k}]
  /\ UNCHANGED <<source, copy, actor, kepubs, index, shunned, given, changes>>

(***************************************************************************)
(* The world.                                                              *)
(***************************************************************************)
Replace(b) ==
  /\ Change("replace")
  /\ source[b] < MaxVersion
  /\ source' = [source EXCEPT ![b] = @ + 1]
  /\ UNCHANGED <<copy, rows, actor, kepubs, index, shunned, removing, given>>

(* A reader hangs up, or the two minutes of EnsureAsync are over.           *)
Cancel(a) ==
  /\ Change("cancel")
  /\ ~At(a, "idle") /\ actor[a].live
  /\ actor' = [actor EXCEPT ![a].live = FALSE]
  /\ UNCHANGED <<source, copy, rows, kepubs, index, shunned, removing, given>>

EbookCrash ==
  /\ actor' = [a \in Callers |-> Idle]
  /\ shunned' = {}
  /\ removing' = [listed |-> {}, unlinked |-> {}]
  /\ UNCHANGED <<source, copy, rows, kepubs, index, given>>

EbookNext ==
  \/ \E b \in Books : Replace(b) \/ Ensure(b) \/ RetryAfter(b) \/ (\E r \in Readers : Ask(r, b))
  \/ \E b \in Convertible : Visit(b)
  \/ \E a \in Callers : \/ Path(a) \/ Acquire(a) \/ Convert(a) \/ ConvertFails(a) \/ Record(a) \/ Refused(a)
  \/ \E c \in Clients, kepub \in BOOLEAN : Open(c, kepub)
  \/ \E kind \in {"kepub", "plain"} : ServedFile(kind)
  \/ Measure \/ Measured
  \/ \E over \in SUBSET rows : Evict(over)
  \/ \E k \in Key : Unlink(k) \/ DeleteRow(k)
  \/ \E a \in Readers \cup {Builder} : Cancel(a)

-----------------------------------------------------------------------------
EbookTypeOK ==
  /\ source \in [Books -> Versions]
  /\ copy \in [Key -> 0 .. MaxVersion]
  /\ rows \subseteq Key /\ kepubs \subseteq Books /\ shunned \subseteq Books
  /\ removing.unlinked \subseteq removing.listed /\ removing.listed \subseteq rows
  /\ actor \in [Callers -> [at : {"idle", "path", "wait", "acquire", "convert", "record", "failed", "open",
                                  "kepub", "plain", "measured", "recover", "resolve"},
                            book : Books \cup {"none"}, fp : 0 .. MaxVersion, asked : 0 .. MaxVersion,
                            of : 0 .. MaxVersion, live : BOOLEAN]]

(* Downloads get what the library holds: the cache cannot be told from a      *)
(* conversion made anew for every request (EPUBFor, Cache.Path,              *)
(* ebookconv.go:278-301), however conversions are joined, fail, are          *)
(* cancelled, and their files evicted and replaced meanwhile.                *)
Pending(c) == actor[c].at \in {"path", "wait", "acquire", "convert", "record", "open", "failed"}
Promise == INSTANCE OnDemand WITH
  request <- [c \in Clients |-> IF Pending(c) THEN [book |-> actor[c].book, version |-> actor[c].asked]
                                ELSE Nothing]
GivenOnDemand == Promise!Spec

(* A word index that has the fingerprint of the file a device is given now   *)
(* was measured from that very file (builder.go:67-102): a fingerprint taken *)
(* of another version than was then read never survives the next look.       *)
IndexIsOfItsFile ==
  \A b \in Books, kind \in {"kepub", "plain"} :
    LET name == source[b]
        of == IF b \in Plain THEN source[b] ELSE copy[<<b, name>>]
    IN  index[b].fp = FingerprintOf(kind, b, name, of) => index[b].of = of
=============================================================================
