---------------------------- MODULE ReaderProofs ----------------------------
(***************************************************************************)
(* Who a reader is (Access) and what it reports of its reading (Reading),   *)
(* for any tokens, readers, rows, requests, books and times.                *)
(*                                                                         *)
(* Access: a reader is one row, and a revoked token falls silent.  What     *)
(* makes the invariant inductive is what a request carries from one         *)
(* statement of UpsertDevice to the next: a request about to insert a row   *)
(* has seen that the token has no nameless row beside its own, unless       *)
(* another request of the token is about to insert one too.                 *)
(*                                                                         *)
(* Reading: places follow (PlaceInv: a report on its way tells the place    *)
(* its reader is at, and whoever wrote or knows a revision is at its        *)
(* place), minutes add up (MinutesInv: the minutes of a reader in a book    *)
(* telescope over its counter and are within what it was read), the streaks *)
(* are right and the two pages agree (what the recursions compute, by the   *)
(* least report or day at which they would differ).                         *)
(***************************************************************************)
EXTENDS Access, Reading, WellFoundedInduction, FiniteSetTheorems, TLAPS

Owned == {"live", "revoked"}
Steps == {"idle", "lookup", "found", "upsert", "insert", "get", "handle"}

RowTypes == [token : Tokens \cup {Nobody}, id : Ids \cup {Nameless}, tombstones : SUBSET BookIDs]
TokenTypes == [user : Users \cup {Nobody}, state : {"unissued", "live", "revoked", "gone"}]
RequestTypes == [at : Steps, token : Tokens \cup {Nobody}, id : Ids \cup {Nameless},
                 row : Rows \cup {0}, book : BookIDs \cup {Nobody}]

Types ==
  /\ user \subseteq Users /\ cache \subseteq Tokens /\ revoking \subseteq Tokens
  /\ token \in [Tokens -> TokenTypes]
  /\ device \in [Rows -> RowTypes]
  /\ latest \in [Tokens -> Rows \cup {0}]
  /\ request \in [Requests -> RequestTypes]
  /\ deleted \subseteq Tokens \X Ids \X BookIDs
  /\ raced \subseteq Tokens

(* A token that may have rows belongs to a user that is there.              *)
TokensOwned == \A t \in Tokens : token[t].state \in Owned => token[t].user \in user

RowsOwned ==
  \A d \in Rows : /\ device[d].token \in Tokens => token[device[d].token].state \in Owned
                  /\ device[d].token = Nobody => device[d].tombstones = {}

NamesUnique ==
  \A d, e \in Rows : /\ device[d].token \in Tokens
                     /\ device[d].token = device[e].token /\ device[d].id = device[e].id
                     => d = e

LatestOK ==
  \A t \in Tokens : /\ latest[t] # 0 => device[latest[t]].token = t
                    /\ latest[t] = 0 => RowsOf(t) = {}

RequestOK(r) ==
  /\ ~At(r, "idle") => /\ request[r].token \in Tokens
                       /\ token[request[r].token].state # "unissued"
  /\ At(r, "idle") => request[r].token = Nobody
  /\ At(r, "handle") => request[r].row \in Rows
  /\ request[r].id = Nameless => request[r].book = Nobody

(* What a request about to insert its row has made sure of.                 *)
Fine(r) ==
  LET q == request[r]
  IN  IF q.id = Nameless THEN RowsOf(q.token) = Named(q.token, Nameless)
      ELSE Named(q.token, q.id) # {} \/ Named(q.token, Nameless) = {}

Inserting(r, t) == At(r, "insert") /\ request[r].token = t

InsertOK(r) ==
  At(r, "insert") /\ request[r].token \notin raced =>
    Fine(r) \/ \E s \in Requests \ {r} : Inserting(s, request[r].token)

Alone == \A t \in Tokens : Named(t, Nameless) # {} /\ t \notin raced => RowsOf(t) = Named(t, Nameless)
DeletedKept == \A x \in deleted : \E d \in Named(x[1], x[2]) : x[3] \in device[d].tombstones

Inv == /\ Types /\ TokensOwned /\ RowsOwned /\ NamesUnique /\ LatestOK
       /\ \A r \in Requests : RequestOK(r) /\ InsertOK(r)
       /\ Alone /\ DeletedKept
-----------------------------------------------------------------------------
(* Facts about rows and requests. *)

LEMMA TypeFacts ==
  ASSUME Types
  PROVE  /\ \A d \in Rows : device[d] \in RowTypes
         /\ \A t \in Tokens : token[t] \in TokenTypes /\ latest[t] \in Rows \cup {0}
         /\ \A r \in Requests : request[r] \in RequestTypes
BY DEF Types

LEMMA SameRows ==
  ASSUME \A d \in Rows : device'[d].token = device[d].token /\ device'[d].id = device[d].id
  PROVE  \A t : RowsOf(t)' = RowsOf(t) /\ \A i : Named(t, i)' = Named(t, i)
BY DEF RowsOf, Named

LEMMA FineStays ==
  ASSUME NEW r \in Requests, request'[r] = request[r],
         \A t : RowsOf(t)' = RowsOf(t) /\ \A i : Named(t, i)' = Named(t, i)
  PROVE  Fine(r)' <=> Fine(r)
BY DEF Fine

(* SQLite has a number for a new row as long as the highest is not taken, and it is a free one. *)
LEMMA NextRowIsFree ==
  ASSUME NEW x \in Rows, \A e \in Rows : device[e].token # Nobody => e < x
  PROVE  NextRow \in Rows /\ device[NextRow].token = Nobody
<1> DEFINE used == {d \in Rows : device[d].token # Nobody}
           free == {y \in Rows : \A e \in used : e < y}
<1>1. free \subseteq Nat /\ x \in free /\ Rows \subseteq Nat
  BY AccessAssumption
<1>2. PICK m \in free : \A y \in free : ~(<<y, m>> \in OpToRel(<, Nat))
  <2> HIDE DEF free
  <2> QED BY <1>1, NatLessThanWellFounded, WFMin, Zenon
<1>3. \A y \in free : m <= y
  <2> TAKE y \in free
  <2>1. ~(<<y, m>> \in OpToRel(<, Nat))
    BY <1>2
  <2>2. y \in Nat /\ m \in Nat
    BY <1>1
  <2>3. ~(y < m)
    BY <2>1, <2>2 DEF OpToRel
  <2> QED BY <2>2, <2>3
<1>4. \E d \in Rows : /\ \A e \in used : e < d
                      /\ \A e \in Rows : (\A z \in used : z < e) => d <= e
  BY <1>2, <1>3
<1>5. NextRow \in Rows /\ \A e \in used : e < NextRow
  <2> DEFINE P(d) == /\ \A e \in used : e < d
                     /\ \A e \in Rows : (\A z \in used : z < e) => d <= e
  <2>1. NextRow = CHOOSE d \in Rows : P(d)
    BY DEF NextRow
  <2>2. \E d \in Rows : P(d)
    BY <1>4
  <2>3. NextRow \in Rows /\ P(NextRow)
    <3> HIDE DEF P
    <3> QED BY <2>1, <2>2, Zenon
  <2> QED BY <2>3
<1>6. NextRow \notin used
  BY <1>1, <1>5
<1> QED BY <1>5, <1>6

(* A statement of one request, which writes no row. *)
LEMMA RequestMoves ==
  ASSUME Inv, NEW r \in Requests, NEW q \in RequestTypes, Goes(r, q), UNCHANGED store,
         cache' \subseteq Tokens, ~At(r, "insert"), RequestOK(r)', InsertOK(r)'
  PROVE  Inv'
<1>1. Types'
  BY DEF Inv, Types, Goes, store
<1>2. request'[r] = q /\ \A s \in Requests \ {r} : request'[s] = request[s]
  BY DEF Inv, Types, Goes
<1>3. /\ TokensOwned' /\ RowsOwned' /\ NamesUnique' /\ LatestOK' /\ Alone' /\ DeletedKept'
      /\ \A t : RowsOf(t)' = RowsOf(t) /\ \A i : Named(t, i)' = Named(t, i)
  <2>1. UNCHANGED <<user, token, device, latest, deleted, raced>>
    BY DEF store
  <2>2. \A t : RowsOf(t)' = RowsOf(t) /\ \A i : Named(t, i)' = Named(t, i)
    BY <2>1, SameRows
  <2> QED BY <2>1, <2>2 DEF Inv, TokensOwned, RowsOwned, NamesUnique, LatestOK, Alone, DeletedKept
<1>4. ASSUME NEW s \in Requests, s # r PROVE RequestOK(s)' /\ InsertOK(s)'
  <2>1. request'[s] = request[s] /\ token' = token /\ raced' = raced /\ RequestOK(s) /\ InsertOK(s)
    BY <1>2, <1>4 DEF store, Inv
  <2>2. RequestOK(s)'
    BY <2>1 DEF RequestOK, At
  <2>3. Fine(s)' <=> Fine(s)
    BY <1>3, <2>1, FineStays
  <2>4. \A t, x : x \in Requests /\ Inserting(x, t) => Inserting(x, t)'
    BY <1>2 DEF Inserting, At
  <2> QED BY <2>1, <2>2, <2>3, <2>4 DEF InsertOK, At
<1> QED BY <1>1, <1>3, <1>4 DEF Inv

(* Requests go on as they were where their tokens stay issued and what they saw stays true. *)
LEMMA RequestsStay ==
  ASSUME Inv, UNCHANGED <<request, raced>>,
         \A t \in Tokens : token[t].state # "unissued" => token'[t].state # "unissued",
         \A r \in Requests : At(r, "insert") /\ Fine(r) => Fine(r)'
  PROVE  \A r \in Requests : RequestOK(r)' /\ InsertOK(r)'
<1> TAKE r \in Requests
<1>1. RequestOK(r) /\ InsertOK(r)
  BY DEF Inv
<1> QED BY <1>1 DEF RequestOK, InsertOK, Inserting, At
-----------------------------------------------------------------------------
(* The web interface. *)

(* A token changes its state and no row changes. *)
LEMMA TokenMoves ==
  ASSUME Inv, NEW t \in Tokens, (\E u \in Users : HandleIssueToken(u, t)) \/ HandleRevokeToken(t)
  PROVE  Inv'
<1>1. /\ token' \in [Tokens -> TokenTypes] /\ revoking' \subseteq Tokens
      /\ \A x \in Tokens : x # t => token'[x] = token[x]
      /\ token[t].state # "unissued" => token'[t].user = token[t].user
      /\ token'[t].state \in Owned /\ token'[t].user \in user
  <2>1. token \in [Tokens -> TokenTypes] /\ token[t] \in TokenTypes /\ user \subseteq Users /\ revoking \subseteq Tokens
    BY DEF Inv, Types
  <2>2. CASE HandleRevokeToken(t)
    <3>1. token[t].user \in user
      BY <2>2 DEF Inv, TokensOwned, Owned, HandleRevokeToken
    <3> QED BY <2>1, <2>2, <3>1 DEF HandleRevokeToken, TokenTypes, Owned
  <2>3. CASE \E u \in Users : HandleIssueToken(u, t)
    <3>1. PICK u \in Users : HandleIssueToken(u, t)
      BY <2>3
    <3> QED BY <2>1, <3>1 DEF HandleIssueToken, TokenTypes, Owned
  <2> QED BY <2>2, <2>3
<1>2. UNCHANGED <<user, cache, device, latest, request, deleted, raced>>
  BY DEF HandleIssueToken, HandleRevokeToken
<1>3. \A x : RowsOf(x)' = RowsOf(x) /\ \A i : Named(x, i)' = Named(x, i)
  BY <1>2, SameRows
<1>4. \A r \in Requests : Fine(r)' <=> Fine(r)
  BY <1>2, <1>3, FineStays
<1>5. \A r \in Requests : RequestOK(r)' /\ InsertOK(r)'
  BY <1>1, <1>2, <1>4, RequestsStay DEF Owned
<1>6. Types' /\ TokensOwned' /\ RowsOwned'
  BY <1>1, <1>2 DEF Inv, Types, TokensOwned, RowsOwned
<1> QED BY <1>2, <1>3, <1>5, <1>6 DEF Inv, NamesUnique, LatestOK, Alone, DeletedKept

(* Rows go with their tokens, and with what was deleted under them. *)
LEMMA RowsRemoved ==
  ASSUME Inv, NEW gone \in SUBSET Tokens, RemoveRows(gone),
         UNCHANGED <<request, raced, cache>>, user' \subseteq user, revoking' \subseteq Tokens,
         token' \in [Tokens -> TokenTypes],
         \A t \in Tokens \ gone : token'[t] = token[t],
         \A t \in Tokens : token[t].state # "unissued" => token'[t].state # "unissued",
         \A t \in Tokens : token'[t].state \in Owned => token'[t].user \in user'
  PROVE  Inv'
<1>1. /\ device \in [Rows -> RowTypes] /\ deleted \subseteq Tokens \X Ids \X BookIDs
      /\ latest \in [Tokens -> Rows \cup {0}] /\ NoRow \in RowTypes /\ Nobody \notin Tokens
      /\ NoRow.token = Nobody /\ NoRow.tombstones = {}
  BY AccessAssumption DEF Inv, Types, NoRow, RowTypes
<1>2. /\ \A d \in Rows : device'[d] = IF device[d].token \in gone THEN NoRow ELSE device[d]
      /\ \A t \in Tokens : latest'[t] = IF t \in gone THEN 0 ELSE latest[t]
      /\ device' \in [Rows -> RowTypes] /\ latest' \in [Tokens -> Rows \cup {0}]
      /\ deleted' = {x \in deleted : x[1] \notin gone}
  BY <1>1 DEF RemoveRows
<1>0. \A d \in Rows : \/ device'[d] = device[d] /\ device[d].token \notin gone
                      \/ device'[d] = NoRow /\ device[d].token \in gone /\ device'[d].token \notin Tokens
  <2> TAKE d \in Rows
  <2>1. device'[d] = IF device[d].token \in gone THEN NoRow ELSE device[d]
    BY <1>2
  <2> QED BY <1>1, <2>1
<1>3. \A t \in gone : RowsOf(t)' = {} /\ \A i : Named(t, i)' = {}
  BY <1>0 DEF RowsOf, Named
<1>4. \A t \in Tokens \ gone : RowsOf(t)' = RowsOf(t) /\ \A i : Named(t, i)' = Named(t, i)
  BY <1>0 DEF RowsOf, Named
<1>5. \A r \in Requests : At(r, "insert") /\ Fine(r) => Fine(r)'
  <2> TAKE r \in Requests
  <2>1. At(r, "insert") => request[r].token \in Tokens
    BY DEF Inv, RequestOK, At
  <2>2. request' = request
    OBVIOUS
  <2> QED BY <1>3, <1>4, <2>1, <2>2 DEF Fine
<1>6. \A r \in Requests : RequestOK(r)' /\ InsertOK(r)'
  BY <1>5, RequestsStay
<1>7. Types'
  BY <1>2 DEF Inv, Types
<1>8. RowsOwned' /\ NamesUnique'
  <2>1. \A d \in Rows : /\ device'[d].token \in Tokens => device'[d] = device[d] /\ device[d].token \notin gone
                        /\ (device'[d] = NoRow \/ device'[d] = device[d])
    BY <1>0
  <2>2. RowsOwned'
    <3> SUFFICES ASSUME NEW d \in Rows
                 PROVE  /\ device'[d].token \in Tokens => token'[device'[d].token].state \in Owned
                        /\ device'[d].token = Nobody => device'[d].tombstones = {}
      BY DEF RowsOwned
    <3>1. CASE device'[d] = NoRow
      BY <1>1, <3>1
    <3>2. CASE device'[d] = device[d]
      BY <2>1, <3>2 DEF Inv, RowsOwned
    <3> QED BY <2>1, <3>1, <3>2
  <2>3. NamesUnique'
    BY <2>1 DEF Inv, NamesUnique
  <2> QED BY <2>2, <2>3
<1>9. LatestOK'
  <2> SUFFICES ASSUME NEW t \in Tokens
               PROVE  /\ latest'[t] # 0 => device'[latest'[t]].token = t
                      /\ latest'[t] = 0 => RowsOf(t)' = {}
    BY DEF LatestOK
  <2>1. CASE t \in gone
    BY <1>2, <1>3, <2>1
  <2>2. CASE t \notin gone
    BY <1>1, <1>2, <1>4, <2>2 DEF Inv, LatestOK
  <2> QED BY <2>1, <2>2
<1>10. Alone' /\ DeletedKept'
  <2>1. Alone'
    BY <1>3, <1>4 DEF Inv, Alone
  <2>2. ASSUME NEW x \in deleted' PROVE \E d \in Named(x[1], x[2])' : x[3] \in device'[d].tombstones
    <3>1. x \in deleted /\ x[1] \in Tokens \ gone
      BY <1>1, <1>2, <2>2
    <3>2. PICK d \in Named(x[1], x[2]) : x[3] \in device[d].tombstones
      BY <3>1 DEF Inv, DeletedKept
    <3>3. d \in Rows /\ device'[d] = device[d]
      BY <1>2, <3>1 DEF Named, RowsOf
    <3>4. Named(x[1], x[2])' = Named(x[1], x[2])
      BY <1>4, <3>1
    <3> QED BY <3>2, <3>3, <3>4
  <2> QED BY <2>1, <2>2 DEF DeletedKept
<1> QED BY <1>6, <1>7, <1>8, <1>9, <1>10 DEF Inv, TokensOwned
(* The database took a deletion back: no other row and no other book is touched. *)
LEMMA ForgetKeeps ==
  ASSUME Inv, NEW d \in Rows, NEW b \in BookIDs, HandleForgetTombstone(d, b)
  PROVE  Inv'
<1>1. /\ device \in [Rows -> RowTypes] /\ deleted \subseteq Tokens \X Ids \X BookIDs
      /\ device' = [device EXCEPT ![d].tombstones = @ \ {b}] /\ b \in device[d].tombstones
      /\ deleted' = deleted \ {<<device[d].token, device[d].id, b>>}
      /\ UNCHANGED <<user, token, cache, latest, request, revoking, raced>>
  BY DEF Inv, Types, HandleForgetTombstone
<1>2. /\ device' \in [Rows -> RowTypes]
      /\ \A e \in Rows : /\ device'[e].token = device[e].token /\ device'[e].id = device[e].id
                         /\ device'[e].tombstones \subseteq device[e].tombstones
                         /\ device[e].tombstones \ {b} \subseteq device'[e].tombstones
                         /\ e # d => device'[e] = device[e]
  BY <1>1 DEF RowTypes
<1>3. \A t : RowsOf(t)' = RowsOf(t) /\ \A i : Named(t, i)' = Named(t, i)
  BY <1>2, SameRows
<1>4. \A r \in Requests : Fine(r)' <=> Fine(r)
  BY <1>1, <1>3, FineStays
<1>5. \A r \in Requests : RequestOK(r)' /\ InsertOK(r)'
  BY <1>1, <1>4, RequestsStay
<1>6. DeletedKept'
  <2> SUFFICES ASSUME NEW x \in deleted' PROVE \E e \in Named(x[1], x[2])' : x[3] \in device'[e].tombstones
    BY DEF DeletedKept
  <2>1. /\ x \in deleted /\ x \in Tokens \X Ids \X BookIDs
        /\ x # <<device[d].token, device[d].id, b>> /\ x = <<x[1], x[2], x[3]>>
    BY <1>1
  <2>2. PICK e \in Named(x[1], x[2]) : x[3] \in device[e].tombstones
    BY <2>1 DEF Inv, DeletedKept
  <2>3. e \in Rows /\ device[e].token = x[1] /\ device[e].id = x[2]
    BY <2>2 DEF Named, RowsOf
  <2>4. CASE e = d
    <3>1. x[3] # b
      BY <2>1, <2>3, <2>4
    <3> QED BY <1>2, <1>3, <2>2, <2>3, <3>1
  <2>5. CASE e # d
    BY <1>2, <1>3, <2>2, <2>3, <2>5
  <2> QED BY <2>4, <2>5
<1>7. RowsOwned' /\ NamesUnique' /\ LatestOK' /\ Alone'
  <2>1. RowsOwned'
    BY <1>1, <1>2 DEF Inv, RowsOwned
  <2>2. NamesUnique'
    BY <1>1, <1>2 DEF Inv, NamesUnique
  <2>3. LatestOK'
    <3>1. \A t \in Tokens : latest[t] # 0 => latest[t] \in Rows
      BY DEF Inv, Types
    <3> QED BY <1>1, <1>2, <1>3, <3>1 DEF Inv, LatestOK
  <2> QED BY <1>1, <1>3, <2>1, <2>2, <2>3 DEF Inv, Alone
<1> QED BY <1>1, <1>2, <1>5, <1>6, <1>7 DEF Inv, Types, TokensOwned

(* A token is revoked; its readers go; or its user goes, with everything of theirs. *)
LEMMA WebSteps ==
  ASSUME Inv, \/ \E t \in Tokens : \/ (\E u \in Users : HandleIssueToken(u, t)) \/ HandleRevokeToken(t)
                                   \/ RevokeRemovesReaders(t)
              \/ \E u \in Users : HandleDeleteUser(u)
              \/ \E d \in Rows, b \in BookIDs : HandleForgetTombstone(d, b)
  PROVE  Inv'
<1>1. ASSUME NEW t \in Tokens, RevokeRemovesReaders(t) PROVE Inv'
  <2>1. /\ RemoveRows({t}) /\ {t} \in SUBSET Tokens /\ UNCHANGED <<user, token, cache, request, raced>>
        /\ revoking' \subseteq Tokens /\ token' \in [Tokens -> TokenTypes]
    BY <1>1 DEF RevokeRemovesReaders, Inv, Types
  <2>2. \A x \in Tokens : token'[x].state \in Owned => token'[x].user \in user'
    BY <2>1 DEF Inv, TokensOwned
  <2> QED BY <2>1, <2>2, RowsRemoved
<1>2. ASSUME NEW u \in Users, HandleDeleteUser(u) PROVE Inv'
  <2> DEFINE theirs == {t \in Tokens : token[t].user = u}
  <2>1. /\ RemoveRows(theirs) /\ UNCHANGED <<cache, request, raced>> /\ user' = user \ {u}
        /\ revoking' \subseteq Tokens /\ theirs \in SUBSET Tokens
        /\ token' = [t \in Tokens |-> IF t \in theirs THEN [token[t] EXCEPT !.state = "gone"] ELSE token[t]]
    BY <1>2 DEF HandleDeleteUser, Inv, Types
  <2>2. \A t \in Tokens : token[t] \in TokenTypes /\ [token[t] EXCEPT !.state = "gone"] \in TokenTypes
                          /\ [token[t] EXCEPT !.state = "gone"].state = "gone"
    BY DEF Inv, Types, TokenTypes
  <2>3. token' \in [Tokens -> TokenTypes]
    BY <2>1, <2>2
  <2>4. \A t \in Tokens \ theirs : token'[t] = token[t]
    BY <2>1
  <2>5. \A t \in theirs : token'[t].state = "gone"
    BY <2>1, <2>2
  <2>6. \A t \in Tokens : token[t].state # "unissued" => token'[t].state # "unissued"
    BY <2>4, <2>5
  <2>7. \A t \in Tokens : token'[t].state \in Owned => token'[t].user \in user'
    <3>1. \A t \in Tokens \ theirs : token[t].user # u
      OBVIOUS
    <3> QED BY <2>1, <2>4, <2>5, <3>1 DEF Owned, Inv, TokensOwned
  <2>8. user' \subseteq user
    BY <2>1
  <2> HIDE DEF theirs
  <2> QED BY <2>1, <2>3, <2>4, <2>6, <2>7, <2>8, RowsRemoved
<1> QED BY <1>1, <1>2, TokenMoves, ForgetKeeps
-----------------------------------------------------------------------------
(* A request, statement by statement. *)

LEMMA RequestFits ==
  ASSUME Inv, NEW r \in Requests
  PROVE  /\ request[r] \in RequestTypes /\ RequestOK(r)
         /\ ~At(r, "idle") => request[r].token \in Tokens
         /\ Idle \in RequestTypes
BY DEF Inv, Types, RequestOK, Idle, RequestTypes, Steps

(* Until it inserts, what a request does is its own. *)
LEMMA QuietSteps ==
  ASSUME Inv, NEW r \in Requests,
         \/ \E t \in Tokens, i \in Ids \cup {Nameless}, b \in BookIDs \cup {Nobody} :
              token[t].state # "unissued" /\ Arrives(r, t, i, b)
         \/ LookUp(r) \/ PutInCache(r) \/ AdoptRow(r) \/ GetDevice(r)
  PROVE  Inv'
<1> DEFINE q == request[r]
<1>1. q \in RequestTypes /\ RequestOK(r) /\ (~At(r, "idle") => q.token \in Tokens) /\ Idle \in RequestTypes
  BY RequestFits
<1>2. /\ request \in [Requests -> RequestTypes] /\ cache \subseteq Tokens
      /\ device \in [Rows -> RowTypes] /\ latest \in [Tokens -> Rows \cup {0}]
  BY DEF Inv, Types
<1>3. ASSUME NEW t \in Tokens, NEW i \in Ids \cup {Nameless}, NEW b \in BookIDs \cup {Nobody},
             token[t].state # "unissued", Arrives(r, t, i, b)
      PROVE  Inv'
  <2> DEFINE n == [at |-> "lookup", token |-> t, id |-> i, row |-> 0, book |-> b]
  <2>1. n \in RequestTypes /\ Goes(r, n) /\ UNCHANGED <<cache, store>> /\ ~At(r, "insert")
        /\ request'[r] = n /\ (i = Nameless => b = Nobody) /\ UNCHANGED token
        /\ n.at = "lookup" /\ n.token = t /\ n.id = i /\ n.book = b
    BY <1>2, <1>3 DEF Arrives, RequestTypes, Steps, At, Goes, store
  <2>2. RequestOK(r)' /\ InsertOK(r)'
    <3> HIDE DEF n
    <3>1. RequestOK(r)'
      BY <1>3, <2>1 DEF RequestOK, At
    <3> QED BY <2>1, <3>1 DEF InsertOK, At
  <2> QED BY <1>2, <2>1, <2>2, RequestMoves DEF store
<1>4. CASE Ends(r) /\ UNCHANGED <<cache, store>> /\ ~At(r, "insert")
  <2>1. request'[r] = Idle /\ Idle.at = "idle" /\ Idle.token = Nobody /\ Idle.id = Nameless /\ Idle.book = Nobody
    BY <1>2, <1>4 DEF Ends, Goes, Idle
  <2>2. RequestOK(r)' /\ InsertOK(r)'
    BY <2>1 DEF RequestOK, InsertOK, At
  <2> QED BY <1>1, <1>2, <1>4, <2>2, RequestMoves DEF store, Ends
<1>5. ASSUME NEW n \in RequestTypes, Goes(r, n), n.token = q.token, n.at \in {"found", "upsert", "handle"},
             n.id = q.id, n.book = q.book, n.at = "handle" => n.row \in Rows,
             ~At(r, "idle"), ~At(r, "insert"), UNCHANGED store, cache' \subseteq Tokens
      PROVE  Inv'
  <2>1. request'[r] = n
    BY <1>2, <1>5 DEF Goes
  <2>2. RequestOK(r)' /\ InsertOK(r)'
    BY <1>1, <1>5, <2>1 DEF RequestOK, InsertOK, At, store
  <2> QED BY <1>5, <2>2, RequestMoves
<1>6. CASE LookUp(r)
  <2> DEFINE n == [q EXCEPT !.at = IF q.token \in cache THEN "upsert" ELSE "found"]
  <2>1. At(r, "lookup") /\ UNCHANGED <<cache, store>> /\ (Ends(r) \/ Goes(r, n))
    BY <1>6 DEF LookUp
  <2>2. n \in RequestTypes /\ n.token = q.token /\ n.id = q.id /\ n.book = q.book /\ n.at \in {"found", "upsert"}
    BY <1>1 DEF RequestTypes, Steps
  <2> HIDE DEF n
  <2> QED BY <1>2, <1>4, <1>5, <2>1, <2>2 DEF At
<1>7. CASE PutInCache(r)
  <2> DEFINE n == [q EXCEPT !.at = "upsert"]
  <2>1. At(r, "found") /\ UNCHANGED store /\ Goes(r, n) /\ cache' = cache \cup {q.token} /\ q.token \in Tokens
    BY <1>1, <1>7 DEF PutInCache, At
  <2>2. n \in RequestTypes /\ n.token = q.token /\ n.id = q.id /\ n.book = q.book /\ n.at = "upsert"
    BY <1>1 DEF RequestTypes, Steps
  <2> HIDE DEF n
  <2> QED BY <1>2, <1>5, <2>1, <2>2 DEF At
<1>8. CASE GetDevice(r)
  <2> DEFINE there == Named(q.token, q.id)
             n == [q EXCEPT !.at = "handle", !.row = CHOOSE x \in there : TRUE]
  <2>1. At(r, "get") /\ UNCHANGED <<cache, store>> /\ (IF there = {} THEN Ends(r) ELSE Goes(r, n))
    BY <1>8 DEF GetDevice
  <2>2. CASE there = {}
    BY <1>4, <2>1, <2>2 DEF At
  <2>3. CASE there # {}
    <3>1. (CHOOSE x \in there : TRUE) \in Rows
      BY <2>3 DEF Named, RowsOf
    <3>2. n \in RequestTypes /\ n.token = q.token /\ n.id = q.id /\ n.book = q.book /\ n.at = "handle" /\ n.row \in Rows
      BY <1>1, <3>1 DEF RequestTypes, Steps
    <3> HIDE DEF n, there
    <3> QED BY <1>2, <1>5, <2>1, <2>3, <3>2 DEF At
  <2> QED BY <2>2, <2>3
<1>9. CASE AdoptRow(r)
  <2> DEFINE l == latest[q.token]
             i == IF l = 0 THEN Nameless ELSE device[l].id
             n == [q EXCEPT !.at = "insert", !.id = i]
  <2>1. /\ At(r, "upsert") /\ q.id = Nameless /\ UNCHANGED <<cache, store>> /\ Goes(r, n) /\ q.token \in Tokens
        /\ token[q.token].state # "unissued" /\ q.book = Nobody
    BY <1>1, <1>9 DEF AdoptRow, At, RequestOK
  <2>2. l \in Rows \cup {0} /\ i \in Ids \cup {Nameless}
    BY <1>2, <2>1 DEF RowTypes
  <2>3. n \in RequestTypes /\ n.token = q.token /\ n.id = i /\ n.book = Nobody /\ n.at = "insert"
    BY <1>1, <2>1, <2>2 DEF RequestTypes, Steps
  <2>4. request'[r] = n
    BY <1>2, <2>1 DEF Goes
  <2>5. \A t : RowsOf(t)' = RowsOf(t) /\ \A j : Named(t, j)' = Named(t, j)
    BY <2>1, SameRows DEF store
  <2>6. q.token \notin raced => IF i = Nameless THEN RowsOf(q.token) = Named(q.token, Nameless)
                                          ELSE Named(q.token, i) # {}
    <3>1. CASE l = 0
      <4>1. RowsOf(q.token) = {}
        BY <2>1, <3>1 DEF Inv, LatestOK
      <4> QED BY <3>1, <4>1 DEF Named
    <3>2. CASE l # 0
      <4>1. l \in Named(q.token, i)
        BY <2>1, <2>2, <3>2 DEF Inv, LatestOK, Named, RowsOf
      <4> QED BY <2>1, <4>1 DEF Inv, Alone
    <3> QED BY <3>1, <3>2
  <2>7. RequestOK(r)' /\ InsertOK(r)'
    <3> HIDE DEF n, i
    <3>1. RequestOK(r)'
      BY <2>1, <2>3, <2>4 DEF RequestOK, At, store
    <3>2. q.token \notin raced' => Fine(r)'
      BY <2>1, <2>3, <2>4, <2>5, <2>6 DEF Fine, store
    <3> QED BY <2>3, <2>4, <3>1, <3>2 DEF InsertOK
  <2>8. ~At(r, "insert")
    BY <2>1 DEF At
  <2> HIDE DEF n
  <2> QED BY <1>2, <2>1, <2>3, <2>7, <2>8, RequestMoves DEF store
<1> QED BY <1>3, <1>6, <1>7, <1>8, <1>9
(* A nameless row takes the name of the request, unless another row has it.  *)
LEMMA NameSteps ==
  ASSUME Inv, NEW r \in Requests, NameNameless(r),
         NEW t, t = request[r].token, NEW i, i = request[r].id
  PROVE  Inv'
<1> DEFINE q == request[r]
           n == [q EXCEPT !.at = "insert"]
<1>1. /\ request \in [Requests -> RequestTypes] /\ device \in [Rows -> RowTypes]
      /\ latest \in [Tokens -> Rows \cup {0}] /\ deleted \subseteq Tokens \X Ids \X BookIDs
  BY DEF Inv, Types
<1>2. /\ At(r, "upsert") /\ i # Nameless /\ device' = NameRow(t, i) /\ Goes(r, n)
      /\ UNCHANGED <<user, token, cache, latest, revoking, deleted, raced>>
      /\ q \in RequestTypes /\ q.token = t /\ q.id = i /\ t \in Tokens /\ token[t].state # "unissued"
  BY RequestFits DEF NameNameless, At, RequestOK
<1>3. n \in RequestTypes /\ n.token = t /\ n.id = i /\ n.book = q.book /\ n.at = "insert"
  BY <1>2 DEF RequestTypes, Steps
<1>4. request' \in [Requests -> RequestTypes] /\ request'[r] = n
      /\ \A s \in Requests \ {r} : request'[s] = request[s]
  <2> HIDE DEF n
  <2> QED BY <1>1, <1>2, <1>3 DEF Goes
<1> DEFINE renames == Named(t, i) = {}
<1>5. /\ \A d \in Rows : device'[d] = IF d \in Named(t, Nameless) /\ renames THEN [device[d] EXCEPT !.id = i] ELSE device[d]
      /\ device' \in [Rows -> RowTypes]
  BY <1>1, <1>2 DEF NameRow, RowTypes, RequestTypes
<1>6. \A d \in Rows : /\ device'[d].token = device[d].token /\ device'[d].tombstones = device[d].tombstones
                      /\ device'[d].id = IF d \in Named(t, Nameless) /\ renames THEN i ELSE device[d].id
  BY <1>1, <1>5 DEF RowTypes
<1>7. /\ \A x : RowsOf(x)' = RowsOf(x)
      /\ \A x \in Tokens : \A j : x # t \/ j \notin {Nameless, i} => Named(x, j)' = Named(x, j)
      /\ renames => Named(t, Nameless)' = {} /\ Named(t, i)' = Named(t, Nameless)
      /\ ~renames => Named(t, Nameless)' = Named(t, Nameless) /\ Named(t, i)' = Named(t, i)
      /\ Named(t, i) \subseteq Named(t, i)'
  <2>1. \A x : RowsOf(x)' = RowsOf(x)
    BY <1>6 DEF RowsOf
  <2>2. \A d \in Rows : d \in Named(t, Nameless) <=> device[d].token = t /\ device[d].id = Nameless
    BY DEF Named, RowsOf
  <2>3. renames => \A d \in Rows : ~(device[d].token = t /\ device[d].id = i)
    BY DEF Named, RowsOf
  <2> HIDE DEF renames
  <2>4. \A x \in Tokens : \A j : x # t \/ j \notin {Nameless, i} => Named(x, j)' = Named(x, j)
    <3> SUFFICES ASSUME NEW x \in Tokens, NEW j, x # t \/ j \notin {Nameless, i}, NEW d \in Rows
                 PROVE  device'[d].token = x /\ device'[d].id = j <=> device[d].token = x /\ device[d].id = j
      BY <2>1 DEF Named, RowsOf
    <3> QED BY <1>6, <2>2
  <2>5. renames => Named(t, Nameless)' = {} /\ Named(t, i)' = Named(t, Nameless)
    <3> SUFFICES ASSUME renames, NEW d \in Rows
                 PROVE  /\ ~(device'[d].token = t /\ device'[d].id = Nameless)
                        /\ device'[d].token = t /\ device'[d].id = i <=> device[d].token = t /\ device[d].id = Nameless
      BY <2>1 DEF Named, RowsOf
    <3> QED BY <1>2, <1>6, <2>2, <2>3
  <2>6. ~renames => Named(t, Nameless)' = Named(t, Nameless) /\ Named(t, i)' = Named(t, i)
    <3>1. ~renames => \A d \in Rows : device'[d].token = device[d].token /\ device'[d].id = device[d].id
      BY <1>6
    <3> QED BY <3>1, SameRows
  <2>7. Named(t, i) \subseteq Named(t, i)'
    <3>1. renames => Named(t, i) = {}
      BY DEF renames
    <3> QED BY <2>6, <3>1
  <2> QED BY <2>1, <2>4, <2>5, <2>6, <2>7
<1>8. Alone'
  <2> SUFFICES ASSUME NEW x \in Tokens, Named(x, Nameless)' # {}, x \notin raced PROVE RowsOf(x)' = Named(x, Nameless)'
    BY <1>2 DEF Alone
  <2>1. Named(x, Nameless)' = Named(x, Nameless)
    <3> HIDE DEF renames
    <3>1. CASE x = t
      BY <1>7, <3>1
    <3> QED BY <1>2, <1>7, <3>1
  <2> QED BY <1>7, <2>1 DEF Inv, Alone
<1>9. \A s \in Requests : RequestOK(s)' /\ InsertOK(s)'
  <2>1. RequestOK(r)' /\ Fine(r)'
    <3> HIDE DEF n
    <3>1. RequestOK(r)'
      BY <1>2, <1>3, <1>4 DEF RequestOK, At
    <3>2. Named(t, Nameless)' = {} \/ Named(t, i)' # {}
      BY <1>7
    <3> QED BY <1>2, <1>3, <1>4, <3>1, <3>2 DEF Fine
  <2>2. ASSUME NEW s \in Requests, s # r PROVE RequestOK(s)' /\ InsertOK(s)'
    <3>1. request'[s] = request[s] /\ RequestOK(s) /\ InsertOK(s)
      BY <1>4, <2>2 DEF Inv
    <3>2. RequestOK(s)'
      BY <1>2, <3>1 DEF RequestOK, At
    <3>3. CASE request[s].token = t
      <4>1. r \in Requests \ {s} /\ Inserting(r, request[s].token)'
        <5> HIDE DEF n
        <5> QED BY <1>3, <1>4, <2>2, <3>1, <3>3 DEF Inserting, At
      <4> QED BY <3>2, <4>1 DEF InsertOK
    <3>4. CASE request[s].token # t /\ At(s, "insert")
      <4>1. request[s].token \in Tokens
        BY <3>4, RequestFits DEF At
      <4>2. Fine(s)' <=> Fine(s)
        BY <1>7, <3>1, <3>4, <4>1 DEF Fine
      <4>3. \A x \in Requests : Inserting(x, request[s].token) => x # r /\ request'[x] = request[x]
        BY <1>2, <1>4 DEF Inserting, At
      <4> QED BY <1>2, <3>1, <3>2, <4>2, <4>3 DEF InsertOK, Inserting, At
    <3>5. CASE ~At(s, "insert")
      BY <3>1, <3>2, <3>5 DEF InsertOK, At
    <3> QED BY <3>3, <3>4, <3>5
  <2> QED BY <2>1, <2>2 DEF InsertOK
<1>10. DeletedKept'
  <2> SUFFICES ASSUME NEW x \in deleted PROVE \E d \in Named(x[1], x[2])' : x[3] \in device'[d].tombstones
    BY <1>2 DEF DeletedKept
  <2>1. x[1] \in Tokens /\ x[2] # Nameless
    BY <1>1, AccessAssumption
  <2>2. PICK d \in Named(x[1], x[2]) : x[3] \in device[d].tombstones
    BY DEF Inv, DeletedKept
  <2>3. d \in Rows /\ d \in Named(x[1], x[2])'
    <3>1. d \in Rows
      BY <2>2 DEF Named, RowsOf
    <3>2. ASSUME NEW y \in Tokens, NEW j, j # Nameless, d \in Named(y, j) PROVE d \in Named(y, j)'
      <4> HIDE DEF renames
      <4>1. CASE y = t /\ j = i
        BY <1>7, <3>2, <4>1
      <4> QED BY <1>7, <3>2, <4>1
    <3> QED BY <2>1, <2>2, <3>1, <3>2
  <2> QED BY <1>6, <2>2, <2>3
<1>11. RowsOwned' /\ NamesUnique' /\ LatestOK'
  <2>1. RowsOwned'
    BY <1>2, <1>6 DEF Inv, RowsOwned
  <2>2. LatestOK'
    BY <1>1, <1>2, <1>6, <1>7 DEF Inv, LatestOK
  <2>3. NamesUnique'
    <3> SUFFICES ASSUME NEW d \in Rows, NEW e \in Rows, device'[d].token \in Tokens,
                        device'[d].token = device'[e].token, device'[d].id = device'[e].id
                 PROVE  d = e
      BY DEF NamesUnique
    <3>1. device[d].token \in Tokens /\ device[d].token = device[e].token
      BY <1>6
    <3>2. device[d].id = device[e].id
      <4>1. \A c \in Rows : c \in Named(t, Nameless) <=> device[c].token = t /\ device[c].id = Nameless
        BY DEF Named, RowsOf
      <4>2. renames => \A c \in Rows : ~(device[c].token = t /\ device[c].id = i)
        BY DEF Named, RowsOf
      <4> HIDE DEF renames
      <4> QED BY <1>6, <3>1, <4>1, <4>2
    <3> QED BY <3>1, <3>2 DEF Inv, NamesUnique
  <2> QED BY <2>1, <2>2, <2>3
<1>12. Types'
  BY <1>2, <1>4, <1>5 DEF Inv, Types
<1> QED BY <1>2, <1>8, <1>9, <1>10, <1>11, <1>12 DEF Inv, TokensOwned
(* The requests beside the one that inserts: those of its token have raced it, or see no row at all. *)
LEMMA OthersAtInsert ==
  ASSUME Inv, NEW r \in Requests, NEW t \in Tokens, request[r].token = t,
         UNCHANGED token, \A s \in Requests \ {r} : request'[s] = request[s], raced \subseteq raced',
         \A x \in Tokens \ {t} : /\ x \in raced' => x \in raced
                                 /\ RowsOf(x)' = RowsOf(x) /\ \A j : Named(x, j)' = Named(x, j),
         \/ RowsOf(t)' = {} /\ \A j : Named(t, j)' = {}
         \/ \A s \in Requests \ {r} : Inserting(s, t) => t \in raced'
  PROVE  \A s \in Requests \ {r} : RequestOK(s)' /\ InsertOK(s)'
<1> TAKE s \in Requests \ {r}
<1>1. request'[s] = request[s] /\ RequestOK(s) /\ InsertOK(s)
  BY DEF Inv
<1>2. RequestOK(s)'
  BY <1>1 DEF RequestOK, At
<1>3. CASE ~At(s, "insert")
  BY <1>1, <1>2, <1>3 DEF InsertOK, At
<1>4. CASE At(s, "insert")
  <2>1. request[s].token \in Tokens
    BY <1>4, RequestFits DEF At
  <2>2. CASE request[s].token = t
    <3>1. CASE RowsOf(t)' = {} /\ \A j : Named(t, j)' = {}
      <4>1. Fine(s)'
        BY <1>1, <2>2, <3>1 DEF Fine
      <4> QED BY <1>2, <4>1 DEF InsertOK
    <3>2. CASE t \in raced'
      BY <1>1, <1>2, <2>2, <3>2 DEF InsertOK
    <3> QED BY <1>4, <2>2, <3>1, <3>2 DEF Inserting
  <2>3. CASE request[s].token # t
    <3>1. Fine(s)' <=> Fine(s)
      BY <1>1, <2>1, <2>3 DEF Fine
    <3>2. \A x \in Requests : Inserting(x, request[s].token) => x # r /\ request'[x] = request[x]
      BY <2>3 DEF Inserting
    <3> QED BY <1>1, <1>2, <2>1, <2>3, <3>1, <3>2 DEF InsertOK, Inserting, At
  <2> QED BY <2>2, <2>3
<1> QED BY <1>3, <1>4

LEMMA InsertSteps ==
  ASSUME Inv, NEW r \in Requests, InsertOrTouch(r),
         NEW t, t = request[r].token, NEW i, i = request[r].id
  PROVE  Inv'
<1> DEFINE q == request[r]
           n == [q EXCEPT !.at = "get"]
           others == {s \in Requests \ {r} : At(s, "insert") /\ request[s].token = t}
           d == IF Named(t, i) = {} THEN NextRow ELSE CHOOSE x \in Named(t, i) : TRUE
           new == [NoRow EXCEPT !.token = t, !.id = i]
<1>1. /\ request \in [Requests -> RequestTypes] /\ device \in [Rows -> RowTypes]
      /\ latest \in [Tokens -> Rows \cup {0}] /\ deleted \subseteq Tokens \X Ids \X BookIDs
      /\ raced \subseteq Tokens /\ 0 \notin Rows /\ Nobody \notin Tokens
  BY AccessAssumption DEF Inv, Types
<1>2. /\ At(r, "insert") /\ q \in RequestTypes /\ t \in Tokens /\ token[t].state # "unissued" /\ RequestOK(r)
      /\ UNCHANGED <<user, token, cache, revoking, deleted, changes>> /\ Idle \in RequestTypes
      /\ i \in Ids \cup {Nameless}
  BY RequestFits DEF InsertOrTouch, At, RequestOK, RequestTypes
<1>3. CASE token[t].state = "gone"
  <2>1. Ends(r) /\ UNCHANGED <<device, latest, raced>>
    BY <1>3 DEF InsertOrTouch
  <2>2. request' \in [Requests -> RequestTypes] /\ request'[r] = Idle
        /\ \A s \in Requests \ {r} : request'[s] = request[s]
    BY <1>1, <1>2, <2>1 DEF Ends, Goes
  <2>3. \A x : RowsOf(x)' = RowsOf(x) /\ \A j : Named(x, j)' = Named(x, j)
    BY <2>1, SameRows
  <2>4. RowsOf(t) = {} /\ \A j : Named(t, j) = {}
    BY <1>2, <1>3 DEF Inv, RowsOwned, RowsOf, Named, Owned
  <2>5. RowsOf(t)' = {} /\ \A j : Named(t, j)' = {}
    BY <2>3, <2>4
  <2>6. \A s \in Requests \ {r} : RequestOK(s)' /\ InsertOK(s)'
    BY <1>2, <2>1, <2>2, <2>3, <2>5, OthersAtInsert
  <2>7. RequestOK(r)' /\ InsertOK(r)'
    BY <2>2 DEF RequestOK, InsertOK, At, Idle
  <2> QED BY <1>2, <2>1, <2>2, <2>3, <2>6, <2>7
          DEF Inv, Types, TokensOwned, RowsOwned, NamesUnique, LatestOK, Alone, DeletedKept
<1>4. CASE token[t].state # "gone"
  <2>1. /\ Named(t, i) = {} => \E x \in Rows : \A e \in Rows : device[e].token # Nobody => e < x
        /\ device' = IF Named(t, i) = {} THEN [device EXCEPT ![d] = new] ELSE device
        /\ latest' = [latest EXCEPT ![t] = d]
        /\ raced' = IF others = {} THEN raced ELSE raced \cup {t}
        /\ Goes(r, n)
    BY <1>4 DEF InsertOrTouch
  <2>2. n \in RequestTypes /\ n.at = "get" /\ n.token = t /\ n.id = i /\ n.book = q.book
    BY <1>2 DEF RequestTypes, Steps
  <2>3. request' \in [Requests -> RequestTypes] /\ request'[r] = n
        /\ \A s \in Requests \ {r} : request'[s] = request[s]
    <3> HIDE DEF n
    <3> QED BY <1>1, <2>1, <2>2 DEF Goes
  <2>4. RequestOK(r)' /\ InsertOK(r)'
    <3> HIDE DEF n
    <3>1. RequestOK(r)'
      BY <1>2, <2>2, <2>3 DEF RequestOK, At
    <3> QED BY <2>2, <2>3, <3>1 DEF InsertOK, At
  <2>5. raced \subseteq raced' /\ raced' \subseteq Tokens /\ (\A x \in Tokens \ {t} : x \in raced' => x \in raced)
        /\ \A s \in Requests \ {r} : Inserting(s, t) => t \in raced'
    BY <1>1, <1>2, <2>1 DEF Inserting
  <2>6. token[t].state \in Owned
    BY <1>2, <1>4 DEF Owned, Inv, Types, TokenTypes
  <2>7. CASE Named(t, i) # {}
    <3>1. device' = device /\ d \in Named(t, i) /\ d \in Rows /\ device[d].token = t
      BY <2>1, <2>7 DEF Named, RowsOf
    <3>2. \A x : RowsOf(x)' = RowsOf(x) /\ \A j : Named(x, j)' = Named(x, j)
      BY <3>1, SameRows
    <3>3. \A s \in Requests \ {r} : RequestOK(s)' /\ InsertOK(s)'
      BY <1>2, <2>3, <2>5, <3>2, OthersAtInsert
    <3>4. latest' \in [Tokens -> Rows \cup {0}] /\ LatestOK'
      <4> HIDE DEF d
      <4>1. latest' \in [Tokens -> Rows \cup {0}] /\ \A x \in Tokens : latest'[x] = IF x = t THEN d ELSE latest[x]
        BY <1>1, <2>1, <3>1
      <4> QED BY <1>1, <1>2, <3>1, <3>2, <4>1 DEF Inv, LatestOK
    <3>5. Alone' /\ DeletedKept'
      BY <1>2, <2>5, <3>1, <3>2 DEF Inv, Alone, DeletedKept
    <3> QED BY <1>2, <2>3, <2>4, <2>5, <3>1, <3>3, <3>4, <3>5 DEF Inv, Types, TokensOwned, RowsOwned, NamesUnique
  <2>8. CASE Named(t, i) = {}
    <3>1. d \in Rows /\ device[d].token = Nobody
      BY <2>1, <2>8, NextRowIsFree
    <3>2. new \in RowTypes /\ new.token = t /\ new.id = i /\ new.tombstones = {}
      BY <1>2 DEF NoRow, RowTypes
    <3> HIDE DEF d, new
    <3>3. device' \in [Rows -> RowTypes] /\ device'[d] = new /\ \A e \in Rows \ {d} : device'[e] = device[e]
      BY <1>1, <2>1, <2>8, <3>1, <3>2
    <3>4. latest' \in [Tokens -> Rows \cup {0}] /\ \A x \in Tokens : latest'[x] = IF x = t THEN d ELSE latest[x]
      BY <1>1, <2>1, <3>1
    <3>5. /\ \A x \in Tokens \ {t} : RowsOf(x)' = RowsOf(x) /\ \A j : Named(x, j)' = Named(x, j)
          /\ RowsOf(t)' = RowsOf(t) \cup {d}
          /\ \A j : Named(t, j)' = IF j = i THEN {d} ELSE Named(t, j)
      <4>1. \A x \in Tokens \ {t} : RowsOf(x)' = RowsOf(x)
        BY <1>1, <3>1, <3>2, <3>3 DEF RowsOf
      <4>2. RowsOf(t)' = RowsOf(t) \cup {d}
        BY <3>1, <3>2, <3>3 DEF RowsOf
      <4>3. ASSUME NEW x \in Tokens \ {t}, NEW j PROVE Named(x, j)' = Named(x, j)
        BY <1>1, <3>1, <3>2, <3>3 DEF RowsOf, Named
      <4>4. ASSUME NEW j, j # i PROVE Named(t, j)' = Named(t, j)
        BY <1>1, <1>2, <3>1, <3>2, <3>3, <4>4 DEF RowsOf, Named
      <4>5. Named(t, i)' = {d}
        <5>1. \A e \in Rows \ {d} : ~(device[e].token = t /\ device[e].id = i)
          BY <2>8 DEF Named, RowsOf
        <5> QED BY <3>1, <3>2, <3>3, <5>1 DEF Named, RowsOf
      <4> QED BY <4>1, <4>2, <4>3, <4>4, <4>5
    <3>6. \A s \in Requests \ {r} : RequestOK(s)' /\ InsertOK(s)'
      BY <1>2, <2>3, <2>5, <3>5, OthersAtInsert
    <3>7. RowsOwned' /\ NamesUnique'
      <4>1. RowsOwned'
        BY <1>1, <1>2, <2>6, <3>2, <3>3 DEF Inv, RowsOwned
      <4>2. \A e \in Rows \ {d} : ~(device[e].token = t /\ device[e].id = i)
        BY <2>8 DEF Named, RowsOf
      <4>3. NamesUnique'
        BY <1>2, <3>1, <3>2, <3>3, <4>2 DEF Inv, NamesUnique
      <4> QED BY <4>1, <4>3
    <3>8. LatestOK'
      <4> SUFFICES ASSUME NEW x \in Tokens
                   PROVE  /\ latest'[x] # 0 => device'[latest'[x]].token = x
                          /\ latest'[x] = 0 => RowsOf(x)' = {}
        BY DEF LatestOK
      <4>1. CASE x = t
        BY <1>1, <3>1, <3>2, <3>3, <3>4, <4>1
      <4>2. CASE x # t
        <5>1. latest'[x] = latest[x] /\ latest[x] \in Rows \cup {0}
          BY <1>1, <3>4, <4>2
        <5>2. latest[x] # 0 => latest[x] # d /\ latest[x] \in Rows
          BY <1>1, <3>1, <5>1 DEF Inv, LatestOK
        <5> QED BY <3>3, <3>5, <4>2, <5>1, <5>2 DEF Inv, LatestOK
      <4> QED BY <4>1, <4>2
    <3>9. Alone'
      <4> SUFFICES ASSUME NEW x \in Tokens, Named(x, Nameless)' # {}, x \notin raced'
                   PROVE  RowsOf(x)' = Named(x, Nameless)'
        BY DEF Alone
      <4>1. CASE x # t
        BY <2>5, <3>5, <4>1 DEF Inv, Alone
      <4>2. CASE x = t
        <5>1. others = {} /\ t \notin raced
          BY <2>1, <4>2
        <5>2. Fine(r)
          BY <1>2, <5>1 DEF Inv, InsertOK, Inserting
        <5>3. CASE i = Nameless
          <6>1. RowsOf(t) = Named(t, Nameless)
            BY <5>2, <5>3 DEF Fine
          <6>2. RowsOf(t)' = {d} /\ Named(t, Nameless)' = {d}
            BY <2>8, <3>5, <5>3, <6>1
          <6> QED BY <4>2, <6>2
        <5>4. CASE i # Nameless
          <6>1. Named(t, Nameless) = {}
            BY <2>8, <5>2, <5>4 DEF Fine
          <6> QED BY <3>5, <4>2, <5>4, <6>1
        <5> QED BY <5>3, <5>4
      <4> QED BY <4>1, <4>2
    <3>10. DeletedKept'
      <4> SUFFICES ASSUME NEW x \in deleted
                   PROVE  \E e \in Named(x[1], x[2])' : x[3] \in device'[e].tombstones
        BY <1>2 DEF DeletedKept
      <4>1. PICK e \in Named(x[1], x[2]) : x[3] \in device[e].tombstones
        BY DEF Inv, DeletedKept
      <4>2. e \in Rows /\ device[e].token = x[1] /\ x[1] \in Tokens /\ e # d
        BY <1>1, <3>1, <4>1 DEF Named, RowsOf
      <4>3. ASSUME NEW y \in Tokens, NEW j, e \in Named(y, j) PROVE e \in Named(y, j)'
        <5>1. CASE y = t
          BY <2>8, <3>5, <4>3, <5>1
        <5>2. CASE y # t
          BY <3>5, <4>3, <5>2
        <5> QED BY <5>1, <5>2
      <4> QED BY <3>3, <4>1, <4>2, <4>3
    <3> QED BY <1>2, <2>3, <2>4, <2>5, <3>3, <3>4, <3>6, <3>7, <3>8, <3>9, <3>10 DEF Inv, Types, TokensOwned
  <2> QED BY <2>7, <2>8
<1> QED BY <1>3, <1>4
(* What a reader deletes goes to the row of its request, as long as that is there. *)
LEMMA HandleSteps ==
  ASSUME Inv, NEW r \in Requests, Handle(r),
         NEW t, t = request[r].token, NEW i, i = request[r].id,
         NEW d, d = request[r].row, NEW b, b = request[r].book
  PROVE  Inv'
<1> DEFINE recorded == b # Nobody /\ device[d].token # Nobody
<1>1. /\ request \in [Requests -> RequestTypes] /\ device \in [Rows -> RowTypes]
      /\ deleted \subseteq Tokens \X Ids \X BookIDs /\ latest \in [Tokens -> Rows \cup {0}]
  BY DEF Inv, Types
<1>2. /\ At(r, "handle") /\ request[r] \in RequestTypes /\ t \in Tokens /\ RequestOK(r) /\ Idle \in RequestTypes
      /\ d \in Rows /\ b \in BookIDs \cup {Nobody} /\ i \in Ids \cup {Nameless} /\ (i = Nameless => b = Nobody)
  BY RequestFits DEF Handle, At, RequestOK, RequestTypes
<1>3. /\ device' = IF recorded THEN [device EXCEPT ![d].tombstones = @ \cup {b}] ELSE device
      /\ deleted' = IF recorded /\ d \in Named(t, i) THEN deleted \cup {<<t, i, b>>} ELSE deleted
      /\ Ends(r) /\ UNCHANGED <<user, token, cache, latest, revoking, raced>>
  BY DEF Handle
<1>4. /\ device' \in [Rows -> RowTypes]
      /\ \A e \in Rows : /\ device'[e].token = device[e].token /\ device'[e].id = device[e].id
                         /\ device[e].tombstones \subseteq device'[e].tombstones
                         /\ device[e].token = Nobody => device'[e] = device[e]
      /\ recorded => b \in device'[d].tombstones
  <2>1. CASE recorded
    BY <1>1, <1>2, <1>3, <2>1 DEF RowTypes
  <2>2. CASE ~recorded
    BY <1>1, <1>3, <2>2
  <2> QED BY <2>1, <2>2
<1>5. \A x : RowsOf(x)' = RowsOf(x) /\ \A j : Named(x, j)' = Named(x, j)
  BY <1>4, SameRows
<1>6. request' \in [Requests -> RequestTypes] /\ request'[r] = Idle
      /\ \A s \in Requests \ {r} : request'[s] = request[s]
  BY <1>1, <1>2, <1>3 DEF Ends, Goes
<1>7. ASSUME NEW s \in Requests PROVE RequestOK(s)' /\ InsertOK(s)'
  <2>1. CASE s = r
    BY <1>6, <2>1 DEF RequestOK, InsertOK, At, Idle
  <2>2. CASE s # r
    <3>1. request'[s] = request[s] /\ RequestOK(s) /\ InsertOK(s)
      BY <1>6, <2>2 DEF Inv
    <3>2. RequestOK(s)'
      BY <1>3, <3>1 DEF RequestOK, At
    <3>3. Fine(s)' <=> Fine(s)
      BY <1>5, <3>1, FineStays
    <3>4. \A x, y : x \in Requests /\ Inserting(x, y) => x # r /\ request'[x] = request[x]
      BY <1>2, <1>6 DEF Inserting, At
    <3> QED BY <1>3, <3>1, <3>2, <3>3, <3>4 DEF InsertOK, Inserting, At
  <2> QED BY <2>1, <2>2
<1>8. deleted' \subseteq Tokens \X Ids \X BookIDs /\ DeletedKept'
  <2> SUFFICES ASSUME NEW x \in deleted'
               PROVE  /\ x \in Tokens \X Ids \X BookIDs
                      /\ \E e \in Named(x[1], x[2])' : x[3] \in device'[e].tombstones
    BY DEF DeletedKept
  <2>1. CASE x \in deleted
    <3>1. PICK e \in Named(x[1], x[2]) : x[3] \in device[e].tombstones
      BY <2>1 DEF Inv, DeletedKept
    <3>2. e \in Rows
      BY <3>1 DEF Named, RowsOf
    <3> QED BY <1>1, <1>4, <1>5, <2>1, <3>1, <3>2
  <2>2. CASE x \notin deleted
    <3>1. recorded /\ d \in Named(t, i) /\ x = <<t, i, b>>
      BY <1>3, <2>2
    <3>2. x[1] = t /\ x[2] = i /\ x[3] = b
      BY <3>1
    <3>3. x \in Tokens \X Ids \X BookIDs
      BY <1>2, <3>1
    <3>4. d \in Named(t, i)' /\ b \in device'[d].tombstones
      BY <1>4, <1>5, <3>1
    <3> QED BY <3>2, <3>3, <3>4
  <2> QED BY <2>1, <2>2
<1>9. RowsOwned' /\ NamesUnique' /\ LatestOK' /\ Alone'
  <2>1. RowsOwned'
    BY <1>3, <1>4 DEF Inv, RowsOwned
  <2>2. NamesUnique'
    BY <1>4 DEF Inv, NamesUnique
  <2>3. LatestOK'
    BY <1>1, <1>3, <1>4, <1>5 DEF Inv, LatestOK
  <2> QED BY <1>3, <1>5, <2>1, <2>2, <2>3 DEF Inv, Alone
<1> QED BY <1>3, <1>4, <1>6, <1>7, <1>8, <1>9 DEF Inv, Types, TokensOwned

(* Requests and the cache are in the process's memory. *)
LEMMA MemorySteps ==
  ASSUME Inv, Restart \/ (\E t \in Tokens : Expires(t)) \/ UNCHANGED vars
  PROVE  Inv'
<1>1. CASE Restart
  <2>1. /\ request' = [r \in Requests |-> Idle] /\ cache' = {} /\ revoking' = {}
        /\ UNCHANGED <<user, token, device, latest, deleted, raced>>
    BY <1>1 DEF Restart
  <2>2. Idle \in RequestTypes
    BY DEF Idle, RequestTypes, Steps
  <2>3. \A r \in Requests : RequestOK(r)' /\ InsertOK(r)'
    BY <2>1 DEF RequestOK, InsertOK, At, Idle
  <2>4. \A x : RowsOf(x)' = RowsOf(x) /\ \A j : Named(x, j)' = Named(x, j)
    BY <2>1, SameRows
  <2> QED BY <2>1, <2>2, <2>3, <2>4
          DEF Inv, Types, TokensOwned, RowsOwned, NamesUnique, LatestOK, Alone, DeletedKept
<1>2. CASE (\E t \in Tokens : Expires(t)) \/ UNCHANGED vars
  <2>1. UNCHANGED <<user, token, device, latest, request, revoking, deleted, raced>> /\ cache' \subseteq cache
    BY <1>2 DEF Expires, store, vars
  <2>2. \A x : RowsOf(x)' = RowsOf(x) /\ \A j : Named(x, j)' = Named(x, j)
    BY <2>1, SameRows
  <2>3. \A r \in Requests : Fine(r)' <=> Fine(r)
    BY <2>1, <2>2, FineStays
  <2>4. \A r \in Requests : RequestOK(r)' /\ InsertOK(r)'
    BY <2>1, <2>3, RequestsStay
  <2> QED BY <2>1, <2>2, <2>4
          DEF Inv, Types, TokensOwned, RowsOwned, NamesUnique, LatestOK, Alone, DeletedKept
<1> QED BY <1>1, <1>2
-----------------------------------------------------------------------------
LEMMA InitInv == Init => Inv
<1> SUFFICES ASSUME Init PROVE Inv
  OBVIOUS
<1>1. Types
  BY DEF Init, Types, TokenTypes, RowTypes, RequestTypes, Steps, NoRow, Idle
<1>2. \A d \in Rows : device[d].token = Nobody /\ device[d].tombstones = {}
  BY DEF Init, NoRow
<1>3. \A t \in Tokens : RowsOf(t) = {} /\ \A i : Named(t, i) = {}
  BY <1>2, AccessAssumption DEF RowsOf, Named
<1>4. TokensOwned /\ RowsOwned /\ NamesUnique /\ LatestOK
  BY <1>2, <1>3, AccessAssumption DEF Init, TokensOwned, RowsOwned, NamesUnique, LatestOK, Owned
<1>5. \A r \in Requests : RequestOK(r) /\ InsertOK(r)
  BY DEF Init, RequestOK, InsertOK, At, Idle
<1>6. Alone /\ DeletedKept
  BY <1>3 DEF Init, Alone, DeletedKept
<1> QED BY <1>1, <1>4, <1>5, <1>6 DEF Inv

LEMMA StepInv == Inv /\ [Next]_vars => Inv'
<1> SUFFICES ASSUME Inv, [Next]_vars PROVE Inv'
  OBVIOUS
<1>1. ASSUME NEW r \in Requests, NameNameless(r) PROVE Inv'
  BY <1>1, NameSteps
<1>2. ASSUME NEW r \in Requests, InsertOrTouch(r) PROVE Inv'
  BY <1>2, InsertSteps
<1>3. ASSUME NEW r \in Requests, Handle(r) PROVE Inv'
  BY <1>3, HandleSteps
<1> QED BY <1>1, <1>2, <1>3, WebSteps, QuietSteps, MemorySteps DEF Next

LEMMA Invariance == Spec => []Inv
BY InitInv, StepInv, PTL DEF Spec

(* What the tables' constraints promise: a row's token is somebody's, and a  *)
(* token has one row of a name.                                             *)
THEOREM AccessTypes == Spec => []TypeOK
<1>1. Inv => TypeOK
  <2> SUFFICES ASSUME Inv PROVE TypeOK
    OBVIOUS
  <2>1. token \in [Tokens -> [user : Users \cup {Nobody}, state : {"unissued", "live", "revoked", "gone"}]]
    BY DEF Inv, Types, TokenTypes
  <2>2. \A d \in Rows : device[d].token \in Tokens => token[device[d].token].user \in user
    BY DEF Inv, RowsOwned, TokensOwned
  <2>3. \A d \in Rows : device[d].token \in Tokens => Named(device[d].token, device[d].id) = {d}
    BY DEF Inv, NamesUnique, Named, RowsOf
  <2>4. \A t \in Tokens : latest[t] = 0 \/ device[latest[t]].token = t
    BY DEF Inv, LatestOK
  <2> QED BY <2>1, <2>2, <2>3, <2>4 DEF TypeOK, Inv, Types
<1> QED BY <1>1, Invariance, PTL

(* One reader is one row (UpsertDevice), and what it deleted is there,       *)
(* however many requests, revocations and restarts fall between its          *)
(* statements, unless two first requests of one token overlapped.           *)
THEOREM OneReader == Spec => []OneReaderOneRow
<1>1. Inv => OneReaderOneRow
  BY DEF Inv, OneReaderOneRow, Alone, DeletedKept
<1> QED BY <1>1, Invariance, PTL

(* No step lets a request of a revoked token in, or gives it a row, once the *)
(* cache has lost it and the requests that looked it up before have ended.   *)
LEMMA SilentStep ==
  ASSUME Inv, [Next]_vars, NEW t \in Tokens,
         token[t].state \in {"revoked", "gone"}, t \notin cache,
         \A r \in Requests : request[r].token = t => At(r, "lookup")
  PROVE  /\ t \notin cache'
         /\ \A d \in Rows : device'[d].token = t => d \in RowsOf(t)
         /\ \A r \in Requests : request'[r].token = t => request'[r].at = "lookup"
<1> DEFINE Silent == /\ t \notin cache'
                     /\ \A d \in Rows : device'[d].token = t => device[d].token = t
                     /\ \A s \in Requests : request'[s].token = t => request'[s].at = "lookup"
<1>1. /\ request \in [Requests -> RequestTypes] /\ device \in [Rows -> RowTypes] /\ Nobody \notin Tokens
      /\ Idle.token = Nobody /\ NoRow.token = Nobody /\ t # Nobody
  BY AccessAssumption DEF Inv, Types, Idle, NoRow
<1>2. ASSUME \/ \E x \in Tokens : \/ (\E u \in Users : HandleIssueToken(u, x)) \/ HandleRevokeToken(x)
                                  \/ RevokeRemovesReaders(x) \/ Expires(x)
             \/ \E u \in Users : HandleDeleteUser(u)
             \/ \E d \in Rows, b \in BookIDs : HandleForgetTombstone(d, b)
             \/ Restart \/ UNCHANGED vars
      PROVE  Silent
  <2>1. cache' \subseteq cache /\ (request' = request \/ request' = [r \in Requests |-> Idle])
    BY <1>2 DEF HandleIssueToken, HandleRevokeToken, RevokeRemovesReaders, Expires, HandleDeleteUser,
                HandleForgetTombstone, Restart, store, vars
  <2>2. \A d \in Rows : device'[d].token \in {device[d].token, Nobody}
    <3>1. CASE \/ \E x \in Tokens : RevokeRemovesReaders(x)
               \/ \E u \in Users : HandleDeleteUser(u)
      <4>1. PICK gone : RemoveRows(gone)
        BY <3>1 DEF RevokeRemovesReaders, HandleDeleteUser
      <4> QED BY <1>1, <4>1 DEF RemoveRows
    <3>2. CASE \E d \in Rows, b \in BookIDs : HandleForgetTombstone(d, b)
      <4>1. PICK d \in Rows, b \in BookIDs : device' = [device EXCEPT ![d].tombstones = @ \ {b}]
        BY <3>2 DEF HandleForgetTombstone
      <4> QED BY <1>1, <4>1 DEF RowTypes
    <3>3. CASE device' = device
      BY <3>3
    <3> QED BY <1>2, <3>1, <3>2, <3>3
            DEF HandleIssueToken, HandleRevokeToken, Expires, Restart, store, vars
  <2>3. \A s \in Requests : request'[s].token = t => request'[s] = request[s]
    BY <1>1, <2>1
  <2> QED BY <1>1, <2>1, <2>2, <2>3 DEF At
<1>3. ASSUME NEW r \in Requests, \A s \in Requests \ {r} : request'[s] = request[s],
             request'[r].token # t \/ request'[r].at = "lookup",
             \A d \in Rows : device'[d].token = t => device[d].token = t, t \notin cache'
      PROVE  Silent
  BY <1>3 DEF At
<1>4. ASSUME NEW r \in Requests, NEW x \in Tokens, NEW i \in Ids \cup {Nameless}, NEW b \in BookIDs \cup {Nobody},
             Arrives(r, x, i, b)
      PROVE  Silent
  <2> DEFINE n == [at |-> "lookup", token |-> x, id |-> i, row |-> 0, book |-> b]
  <2>1. Goes(r, n) /\ UNCHANGED <<cache, device>> /\ n.at = "lookup"
    BY <1>4 DEF Arrives, store
  <2> HIDE DEF n, Silent
  <2>2. request'[r] = n /\ \A s \in Requests \ {r} : request'[s] = request[s]
    BY <1>1, <2>1 DEF Goes
  <2> QED BY <1>3, <2>1, <2>2
<1>5. ASSUME NEW r \in Requests, LookUp(r) PROVE Silent
  <2> DEFINE n == [request[r] EXCEPT !.at = IF request[r].token \in cache THEN "upsert" ELSE "found"]
  <2>1. UNCHANGED <<cache, device>> /\ IF CachedOrLive(request[r].token) THEN Goes(r, n) ELSE Ends(r)
    BY <1>5 DEF LookUp, store
  <2>2. n.token = request[r].token
    BY <1>1 DEF RequestTypes
  <2> HIDE DEF n, Silent
  <2>3. CASE request[r].token = t
    <3>1. ~CachedOrLive(t)
      BY DEF CachedOrLive
    <3>2. request'[r] = Idle /\ \A s \in Requests \ {r} : request'[s] = request[s]
      BY <1>1, <2>1, <2>3, <3>1 DEF Ends, Goes
    <3> QED BY <1>1, <1>3, <2>1, <3>2
  <2>4. CASE request[r].token # t
    <3>1. request'[r] \in {n, Idle} /\ \A s \in Requests \ {r} : request'[s] = request[s]
      BY <1>1, <2>1 DEF Ends, Goes
    <3> QED BY <1>1, <1>3, <2>1, <2>2, <2>4, <3>1
  <2> QED BY <2>3, <2>4
<1>6. ASSUME NEW r \in Requests, request[r].token # t, NEW n, n.token # t, Goes(r, n),
             \A d \in Rows : device'[d].token = t => device[d].token = t, t \notin cache'
      PROVE  Silent
  <2>1. request'[r] = n /\ \A s \in Requests \ {r} : request'[s] = request[s]
    BY <1>1, <1>6 DEF Goes
  <2> HIDE DEF Silent
  <2> QED BY <1>3, <1>6, <2>1
<1>7. ASSUME NEW r \in Requests, PutInCache(r) \/ AdoptRow(r) \/ GetDevice(r) PROVE Silent
  <2>1. request[r].token # t /\ request[r] \in RequestTypes
    BY <1>1, <1>7 DEF PutInCache, AdoptRow, GetDevice, At
  <2>2. \A a, i, w : /\ [request[r] EXCEPT !.at = a].token # t
                     /\ [request[r] EXCEPT !.at = a, !.id = i].token # t
                     /\ [request[r] EXCEPT !.at = a, !.row = w].token # t
    BY <2>1 DEF RequestTypes
  <2>3. \E n : n.token # t /\ Goes(r, n)
    BY <1>1, <1>7, <2>2, Zenon DEF PutInCache, AdoptRow, GetDevice, Ends
  <2>4. device' = device /\ t \notin cache'
    BY <1>7, <2>1 DEF PutInCache, AdoptRow, GetDevice, store
  <2> HIDE DEF Silent
  <2> QED BY <1>6, <2>1, <2>3, <2>4
<1>8. ASSUME NEW r \in Requests, NameNameless(r) \/ Handle(r) PROVE Silent
  <2>1. request[r].token # t /\ request[r] \in RequestTypes /\ cache' = cache
    BY <1>1, <1>8 DEF NameNameless, Handle, At
  <2>2. \A a : [request[r] EXCEPT !.at = a].token # t
    BY <2>1 DEF RequestTypes
  <2>3. \E n : n.token # t /\ Goes(r, n)
    BY <1>1, <1>8, <2>2, Zenon DEF NameNameless, Handle, Ends
  <2>4. \A d \in Rows : device'[d].token = device[d].token
    <3>1. CASE NameNameless(r)
      <4>1. device' = NameRow(request[r].token, request[r].id)
        BY <3>1 DEF NameNameless
      <4> QED BY <1>1, <4>1 DEF NameRow, RowTypes
    <3>2. CASE Handle(r)
      <4>1. device' = device \/ device' = [device EXCEPT ![request[r].row].tombstones = @ \cup {request[r].book}]
        BY <3>2 DEF Handle
      <4> QED BY <1>1, <4>1 DEF RowTypes
    <3> QED BY <1>8, <3>1, <3>2
  <2> HIDE DEF Silent
  <2> QED BY <1>6, <2>1, <2>3, <2>4
<1>9. ASSUME NEW r \in Requests, InsertOrTouch(r) PROVE Silent
  <2> DEFINE q == request[r]
             new == [NoRow EXCEPT !.token = q.token, !.id = q.id]
  <2>1. q.token # t /\ q \in RequestTypes /\ cache' = cache
    BY <1>1, <1>9 DEF InsertOrTouch, At
  <2>2. [q EXCEPT !.at = "get"].token # t
    BY <2>1 DEF RequestTypes
  <2>3. \E n : n.token # t /\ Goes(r, n)
    BY <1>1, <1>9, <2>2, Zenon DEF InsertOrTouch, Ends
  <2>4. new.token # t
    BY <2>1 DEF NoRow
  <2>5. device' = device \/ \E d : device' = [device EXCEPT ![d] = new]
    BY <1>9, Zenon DEF InsertOrTouch
  <2>6. \A d \in Rows : device'[d].token = t => device[d].token = t
    <3> HIDE DEF new
    <3> QED BY <1>1, <2>4, <2>5
  <2> HIDE DEF Silent, new
  <2> QED BY <1>6, <2>1, <2>3, <2>6
<1>10. Silent
  <2> HIDE DEF Silent
  <2>1. CASE UNCHANGED vars
    BY <1>2, <2>1
  <2>2. CASE Next
    BY <1>2, <1>4, <1>5, <1>7, <1>8, <1>9, <2>2 DEF Next
  <2> QED BY <2>1, <2>2
<1> QED BY <1>10 DEF RowsOf

(* A token that was revoked, or whose user is gone, is served from the cache *)
(* at most (authenticate, tokenCache): the window closes by itself and no    *)
(* step opens it again.                                                     *)
THEOREM RevokedStaysOut == Spec => RevokedFallsSilent
<1>1. Inv /\ [Next]_vars =>
        \A t \in Tokens :
          /\ token[t].state \in {"revoked", "gone"} /\ t \notin cache
          /\ \A r \in Requests : request[r].token = t => At(r, "lookup")
          => /\ t \notin cache'
             /\ \A d \in Rows : device'[d].token = t => d \in RowsOf(t)
             /\ \A r \in Requests : request'[r].token = t => request'[r].at = "lookup"
  BY SilentStep
<1> QED BY <1>1, Invariance, PTL DEF Spec, RevokedFallsSilent

-----------------------------------------------------------------------------
(* The place in a book, in percent and back. *)

LEMMA LengthOK == Length \in Nat /\ Length >= 1 /\ 1 \in Positions /\ Length \in Positions
BY ReadingAssumption DEF Positions

LEMMA PercentOK ==
  ASSUME NEW p \in Positions
  PROVE  Percent(p) \in Percents
<1>1. Length \in Nat /\ Length >= 1 /\ p \in Nat /\ 1 <= p /\ p <= Length
  BY LengthOK DEF Positions
<1>2. (100 * p) \div Length \in Int
  BY <1>1
<1>3. (100 * p) \div Length >= 0
  BY <1>1
<1>4. (100 * p) \div Length <= 100
  BY <1>1
<1> QED BY <1>2, <1>3, <1>4 DEF Percent, Percents

(* A place brought by its percentage is at that percentage. *)
LEMMA PlaceOfPercent ==
  ASSUME NEW p \in Positions, Percent(p) # 0
  PROVE  LET at == (Percent(p) * Length + 99) \div 100
         IN  at \in Positions /\ Percent(at) = Percent(p)
<1> DEFINE q == Percent(p)
           x == q * Length
           at == (x + 99) \div 100
<1>1. Length \in Nat /\ Length >= 1 /\ p \in Nat /\ 1 <= p /\ p <= Length
  BY LengthOK DEF Positions
<1>2. q \in 1..100
  BY PercentOK DEF Percents
<1>3. x \in Nat /\ x <= 100 * p /\ 100 * p < x + Length
  BY <1>1 DEF Percent
<1>4. x >= Length
  BY <1>1, <1>2
<1>5. at \in Nat /\ 100 * at >= x /\ 100 * at <= x + 99
  <2> HIDE DEF x
  <2> QED BY <1>3
<1>6. 100 * at <= 100 * p
  <2> HIDE DEF x, at
  <2> QED BY <1>1, <1>3, <1>5
<1>7. at \in Positions
  <2> HIDE DEF x, at
  <2> QED BY <1>1, <1>3, <1>4, <1>5, <1>6 DEF Positions
<1>8. (100 * at) \div Length = q
  <2>1. 100 * at >= q * Length /\ 100 * at < q * Length + Length
    <3> HIDE DEF at
    <3>1. 100 * at >= x /\ 100 * at < x + Length
      <4> HIDE DEF x
      <4> QED BY <1>1, <1>3, <1>5, <1>6
    <3> QED BY <3>1
  <2> HIDE DEF at, q
  <2> QED BY <2>1, <1>1, <1>2, <1>5
<1> QED BY <1>7, <1>8 DEF Percent

-----------------------------------------------------------------------------
(* Types. *)

LEMMA NoneIsNothing ==
  /\ None \notin Nat /\ None \notin Books /\ None \notin Devices /\ None \notin Status
  /\ None \notin Reported /\ None \notin Events
BY ReadingAssumption

LEMMA HandedOver ==
  ASSUME ReadingTypeOK, NEW b \in Books
  PROVE  ResolveBookID(b) \in Books
BY DEF ReadingTypeOK, ResolveBookID

LEMMA MaxZero ==
  ASSUME NEW x \in Int
  PROVE  Max({0, x}) = IF x > 0 THEN x ELSE 0
<1> DEFINE m == IF x > 0 THEN x ELSE 0
<1>1. m \in {0, x} /\ \A y \in {0, x} : m >= y
  OBVIOUS
<1>2. \A z \in {0, x} : (\A y \in {0, x} : z >= y) => z = m
  OBVIOUS
<1> HIDE DEF m
<1>3. Max({0, x}) = m
  BY <1>1, <1>2 DEF Max
<1> QED BY <1>3 DEF m

(* What a report carries of the copy it was made from. *)
Reflects(r, copy, sections) ==
  /\ r \in Reported /\ r.spent \in {None, copy.spent}
  /\ r.placed => r.percent # None
  /\ "status" \in sections => /\ r.status = copy.status
                              /\ r.placed /\ r.status # "Finished" => r.percent = Percent(copy.position)

LEMMA ReportReflects ==
  ASSUME ReadingTypeOK, NEW d \in Devices, NEW copy \in Copies, NEW b \in Books,
         NEW sections \in SUBSET Sections, copy.position \in Positions
  PROVE  LET r == Report(d, copy, b, sections)
         IN  /\ Reflects(r, copy, sections) /\ r.book = ResolveBookID(b)
             /\ r.deviceAt # None => r.deviceAt <= now
<1> DEFINE status == IF "status" \in sections THEN copy.status ELSE "ReadyToRead"
           percent == IF "bookmark" \in sections THEN Percent(copy.position) ELSE None
           span == IF {"bookmark", "location"} \subseteq sections THEN copy.position ELSE None
           spent == IF "statistics" \in sections THEN copy.spent ELSE None
           deviceAt == IF LagOf[d] = None \/ sections = {"status"} THEN None
                       ELSE Max({0, now - LagOf[d]})
           sent == [book |-> ResolveBookID(b), status |-> status, placed |-> "bookmark" \in sections,
                    percent |-> percent, span |-> span, spent |-> spent, deviceAt |-> deviceAt]
           r == Report(d, copy, b, sections)
<1>1. ResolveBookID(b) \in Books
  BY HandedOver
<1>2. status \in Status
  BY DEF Copies, Status
<1>3. percent \in Percents \cup {None} /\ ("bookmark" \in sections => percent = Percent(copy.position) /\ percent # None)
  BY PercentOK, NoneIsNothing DEF Percents
<1>4. span \in Positions \cup {None}
  OBVIOUS
<1>5. spent \in 0..MaxSpent \cup {None} /\ spent \in {None, copy.spent}
  BY DEF Copies
<1>6. deviceAt \in Times \cup {None} /\ (deviceAt # None => deviceAt <= now)
  <2>1. now \in Nat /\ now <= MaxTime /\ MaxTime \in Nat
    BY ReadingAssumption DEF ReadingTypeOK, Times
  <2>2. CASE LagOf[d] = None \/ sections = {"status"}
    BY <2>2
  <2>3. CASE ~(LagOf[d] = None \/ sections = {"status"})
    <3>1. LagOf[d] \in Nat
      BY <2>3, ReadingAssumption
    <3>2. Max({0, now - LagOf[d]}) \in 0..MaxTime /\ Max({0, now - LagOf[d]}) <= now
      BY <2>1, <3>1, MaxZero
    <3>3. deviceAt = Max({0, now - LagOf[d]})
      BY <2>3
    <3> QED BY <3>2, <3>3 DEF Times
  <2> QED BY <2>2, <2>3
<1>7. r = RepairBookmark(sent)
  BY DEF Report
<1> HIDE DEF r, status, percent, span, spent, deviceAt
<1>8. /\ r.book = ResolveBookID(b) /\ r.status = status /\ r.spent = spent /\ r.deviceAt = deviceAt
      /\ r.status = "Finished" => r.placed /\ r.percent = 100
      /\ r.status # "Finished" => r.percent = percent /\ (r.placed => "bookmark" \in sections)
  BY <1>7 DEF RepairBookmark
<1>9. r \in Reported
  <2>1. sent \in Reported
    BY <1>1, <1>2, <1>3, <1>4, <1>5, <1>6 DEF Reported
  <2>2. CASE status # "Finished"
    <3>1. r = sent
      BY <1>7, <2>2 DEF RepairBookmark
    <3> QED BY <2>1, <3>1
  <2>3. CASE status = "Finished"
    <3>1. r = [sent EXCEPT !.placed = TRUE, !.percent = 100, !.span = None]
      BY <1>7, <2>3 DEF RepairBookmark
    <3>2. r = [book |-> ResolveBookID(b), status |-> status, placed |-> TRUE, percent |-> 100,
               span |-> None, spent |-> spent, deviceAt |-> deviceAt]
      BY <3>1
    <3>3. 100 \in Percents
      BY DEF Percents
    <3> QED BY <1>1, <1>2, <1>5, <1>6, <3>2, <3>3 DEF Reported
  <2> QED BY <2>2, <2>3
<1>10. 100 # None
  BY NoneIsNothing
<1>11. "status" \in sections => status = copy.status
  BY DEF status
<1>12. Reflects(r, copy, sections)
  BY <1>3, <1>5, <1>8, <1>9, <1>10, <1>11 DEF Reflects
<1>13. r.book = ResolveBookID(b) /\ (r.deviceAt # None => r.deviceAt <= now)
  BY <1>6, <1>8
<1> QED BY <1>12, <1>13 DEF r

LEMMA LeastOf ==
  ASSUME NEW S \in SUBSET Nat, S # {}
  PROVE  \E m \in S : \A y \in S : m <= y
<1>1. PICK m \in S : \A y \in S : ~(<<y, m>> \in OpToRel(<, Nat))
  BY NatLessThanWellFounded, WFMin, Zenon
<1>2. ASSUME NEW y \in S PROVE m <= y
  <2>1. ~(<<y, m>> \in OpToRel(<, Nat))
    BY <1>1
  <2>2. y \in Nat /\ m \in Nat
    OBVIOUS
  <2>3. ~(y < m)
    BY <2>1, <2>2 DEF OpToRel
  <2> QED BY <2>2, <2>3
<1> QED BY <1>2

LEMMA MaxOf ==
  ASSUME NEW S \in SUBSET Nat, S # {}, NEW n \in Nat, \A x \in S : x <= n
  PROVE  Max(S) \in S /\ \A x \in S : x <= Max(S)
<1> DEFINE T == {n - x : x \in S}
<1>1. T \in SUBSET Nat /\ T # {}
  <2>1. \A x \in S : n - x \in Nat
    OBVIOUS
  <2> QED BY <2>1
<1>2. PICK m \in T : \A y \in T : m <= y
  BY <1>1, LeastOf
<1>3. PICK x \in S : m = n - x
  OBVIOUS
<1>4. ASSUME NEW y \in S PROVE x >= y
  <2>1. n - y \in T
    OBVIOUS
  <2>2. n - x <= n - y /\ x \in Nat /\ y \in Nat
    BY <1>2, <1>3, <2>1
  <2> QED BY <2>2
<1> QED BY <1>4 DEF Max

LEMMA MinOf ==
  ASSUME NEW S \in SUBSET Nat, S # {}
  PROVE  Min(S) \in S /\ \A x \in S : Min(S) <= x
<1>1. PICK m \in S : \A y \in S : m <= y
  BY LeastOf
<1> QED BY <1>1 DEF Min

(* The last event of a book from a device is one of them, and none is later. *)
LEMMA LastOfMine ==
  ASSUME ReadingTypeOK, NEW d \in Devices, NEW b \in Books
  PROVE  /\ Mine(d, b) \subseteq Nat
         /\ Mine(d, b) = {} => LastEvent(b, d) = None
         /\ Mine(d, b) # {} => /\ Max(Mine(d, b)) \in Mine(d, b)
                               /\ \A i \in Mine(d, b) : i <= Max(Mine(d, b))
                               /\ LastEvent(b, d) = events[Max(Mine(d, b))]
                               /\ LastEvent(b, d) \in Events
                               /\ LastEvent(b, d) # None
<1>1. events \in Seq(Events) /\ Len(events) \in Nat /\ DOMAIN events = 1..Len(events)
  BY DEF ReadingTypeOK
<1>2. Mine(d, b) \in SUBSET Nat /\ \A i \in Mine(d, b) : i <= Len(events)
  BY <1>1 DEF Mine
<1>3. Mine(d, b) = {i \in DOMAIN events : events[i].book = b /\ events[i].device = d}
  BY DEF Mine
<1>4. Mine(d, b) = {} => LastEvent(b, d) = None
  BY <1>3 DEF LastEvent
<1>5. ASSUME Mine(d, b) # {}
      PROVE  /\ Max(Mine(d, b)) \in Mine(d, b)
             /\ \A i \in Mine(d, b) : i <= Max(Mine(d, b))
             /\ LastEvent(b, d) = events[Max(Mine(d, b))]
             /\ LastEvent(b, d) \in Events
             /\ LastEvent(b, d) # None
  <2>1. Max(Mine(d, b)) \in Mine(d, b) /\ \A i \in Mine(d, b) : i <= Max(Mine(d, b))
    BY <1>1, <1>2, <1>5, MaxOf
  <2>2. LastEvent(b, d) = events[Max(Mine(d, b))]
    BY <1>3, <1>5 DEF LastEvent
  <2>3. events[Max(Mine(d, b))] \in Events
    BY <1>1, <2>1 DEF Mine
  <2> QED BY <2>1, <2>2, <2>3, NoneIsNothing
<1> QED BY <1>2, <1>4, <1>5

(* What saving a report makes of the history. *)
Appended(d, r, after) ==
  \/ after = events /\ LastEvent(r.book, d) # None /\ r.spent \in {None, LastEvent(r.book, d).spent}
  \/ \E e \in Events : /\ after = Append(events, e) /\ e.book = r.book /\ e.device = d
                       /\ e.at = now /\ e.deviceAt = r.deviceAt /\ e.spent = r.spent
                       /\ e.delta = SpentDelta(LastEvent(r.book, d), r)

LEMMA DeltaInRange ==
  ASSUME ReadingTypeOK, NEW d \in Devices, NEW r \in Reported
  PROVE  SpentDelta(LastEvent(r.book, d), r) \in 0..MaxSpent
<1> DEFINE last == LastEvent(r.book, d)
<1>1. r.book \in Books /\ r.spent \in 0..MaxSpent \cup {None} /\ MaxSpent \in Nat
  BY ReadingAssumption DEF Reported
<1>2. last = None \/ last \in Events
  BY <1>1, LastOfMine
<1>3. CASE last = None \/ r.spent = None \/ last.spent = None
  BY <1>1, <1>3 DEF SpentDelta
<1>4. CASE ~(last = None \/ r.spent = None \/ last.spent = None)
  <2>1. last.spent \in 0..MaxSpent /\ r.spent \in 0..MaxSpent
    BY <1>1, <1>2, <1>4 DEF Events
  <2>2. SpentDelta(last, r) = Max({0, r.spent - last.spent})
    BY <1>4 DEF SpentDelta
  <2> HIDE DEF last
  <2>3. Max({0, r.spent - last.spent}) = IF r.spent - last.spent > 0 THEN r.spent - last.spent ELSE 0
    BY <1>1, <2>1, MaxZero
  <2>4. SpentDelta(last, r) \in 0..MaxSpent
    BY <1>1, <2>1, <2>2, <2>3
  <2> QED BY <2>4 DEF last
<1> QED BY <1>3, <1>4

LEMMA AppendingAppends ==
  ASSUME ReadingTypeOK, NEW d \in Devices, NEW r \in Reported
  PROVE  Appended(d, r, AppendReadingEvent(d, r))
<1> DEFINE last == LastEvent(r.book, d)
           again == /\ last # None /\ r.span = last.span /\ r.status = last.status
                    /\ r.spent \in {None, last.spent}
           delta == SpentDelta(last, r)
           e == [book |-> r.book, device |-> d, at |-> now, deviceAt |-> r.deviceAt,
                 status |-> r.status, percent |-> r.percent, span |-> r.span,
                 spent |-> r.spent, delta |-> delta]
<1>1. AppendReadingEvent(d, r) = IF again THEN events ELSE Append(events, e)
  BY DEF AppendReadingEvent
<1>2. CASE again
  BY <1>1, <1>2 DEF Appended
<1>3. CASE ~again
  <2>1. delta \in 0..MaxSpent /\ now \in Times
    BY DeltaInRange DEF ReadingTypeOK
  <2>2. e \in Events
    <3> HIDE DEF delta
    <3> QED BY <2>1 DEF Events, Reported
  <2>3. AppendReadingEvent(d, r) = Append(events, e)
    BY <1>1, <1>3
  <2> QED BY <2>2, <2>3 DEF Appended
<1> QED BY <1>2, <1>3

-----------------------------------------------------------------------------
(* The two steps of a report. *)

(* What the two steps of a report make of the state. *)
Putting(d, b, minutes, sections, copy, r) ==
  /\ copy \in Copies /\ copy.position \in Positions /\ copy.spent = reader[d][b].spent + minutes
  /\ reader' = [reader EXCEPT ![d] = [reader[d] EXCEPT ![b] = copy]]
  /\ Reflects(r, copy, sections) /\ r.book = ResolveBookID(b)
  /\ r.deviceAt # None => r.deviceAt <= now
  /\ pending' = [pending EXCEPT ![d] = r]
  /\ partial' = IF "status" \in sections /\ r.placed THEN partial ELSE partial \cup {r.book}

LEMMA PutStatePuts ==
  ASSUME ReadingTypeOK, NEW d \in Devices, NEW b \in Books, NEW minutes \in 0..1,
         NEW p \in Positions, NEW sections \in Shapes[d], PutState(d, b, minutes, p, sections)
  PROVE  \E copy \in Copies, r \in Reported : Putting(d, b, minutes, sections, copy, r)
<1>1. /\ sections \in SUBSET Sections /\ MaxSpent \in Nat
      /\ reader \in [Devices -> [Books -> Copies]] /\ pending \in [Devices -> Reported \cup {None}]
  BY ReadingAssumption DEF ReadingTypeOK
<1>2. PICK old \in Copies : old = reader[d][b]
  BY <1>1
<1> DEFINE copy0 == [status |-> IF p = Length THEN "Finished" ELSE "Reading",
                     position |-> IF p = Length THEN 1 ELSE p, spent |-> old.spent + minutes]
<1>3. copy0 \in Copies /\ copy0.position \in Positions
  <2>1. old.spent \in 0..MaxSpent /\ old.spent + minutes <= MaxSpent
    BY <1>2 DEF PutState, Copies
  <2>2. old.spent + minutes \in 0..MaxSpent
    BY <1>1, <2>1
  <2>3. (IF p = Length THEN 1 ELSE p) \in Positions
    BY LengthOK
  <2>4. (IF p = Length THEN "Finished" ELSE "Reading") \in Status
    BY DEF Status
  <2> QED BY <2>2, <2>3, <2>4 DEF Copies
<1>4. PICK copy \in Copies : copy = copy0
  BY <1>3
<1>5. reader' = [reader EXCEPT ![d] = [reader[d] EXCEPT ![b] = copy]]
  BY <1>1, <1>2, <1>4 DEF PutState
<1>6. reader'[d][b] = copy
  BY <1>1, <1>5
<1>7. PICK r \in Reported : r = Report(d, copy, b, sections)
  BY <1>1, <1>3, <1>4, ReportReflects DEF Reflects
<1>8. Reflects(r, copy, sections) /\ r.book = ResolveBookID(b) /\ (r.deviceAt # None => r.deviceAt <= now)
  BY <1>1, <1>3, <1>4, <1>7, ReportReflects
<1>9. pending' = [pending EXCEPT ![d] = r]
  BY <1>6, <1>7 DEF PutState
<1>10. pending'[d] = r
  BY <1>1, <1>9
<1>11. partial' = IF "status" \in sections /\ r.placed THEN partial ELSE partial \cup {r.book}
  BY <1>10 DEF PutState
<1>12. copy.position \in Positions /\ copy.spent = reader[d][b].spent + minutes
  BY <1>2, <1>3, <1>4
<1> QED BY <1>5, <1>8, <1>9, <1>11, <1>12 DEF Putting

Saving(d, r) ==
  /\ pending[d] = r /\ pending[d] # None
  /\ state' = [state EXCEPT ![r.book] = Upsert(state[r.book], d, r)]
  /\ Appended(d, r, events')
  /\ pending' = [pending EXCEPT ![d] = None]

LEMMA SaveReadingStateSaves ==
  ASSUME ReadingTypeOK, NEW d \in Devices, SaveReadingState(d)
  PROVE  \E r \in Reported : Saving(d, r)
<1>1. PICK r \in Reported : r = pending[d]
  BY DEF SaveReadingState, ReadingTypeOK
<1>2. state' = [state EXCEPT ![r.book] = Upsert(state[r.book], d, r)] /\ events' = AppendReadingEvent(d, r)
  BY <1>1 DEF SaveReadingState, ReadingTypeOK
<1>3. Appended(d, r, events')
  BY <1>2, AppendingAppends
<1> QED BY <1>1, <1>2, <1>3 DEF Saving, SaveReadingState

LEMMA UpsertOK ==
  ASSUME NEW s \in Progress, NEW d \in Devices, NEW r \in Reported, r.placed => r.percent # None
  PROVE  Upsert(s, d, r) \in Progress
<1>1. (IF r.placed THEN r.percent ELSE s.percent) \in Percents
  BY DEF Progress, Reported
<1>2. (IF r.placed THEN r.span ELSE s.span) \in Positions \cup {None}
  BY DEF Progress, Reported
<1>3. r.status \in Status /\ s.rev + 1 \in Nat
  BY DEF Progress, Reported
<1> QED BY <1>1, <1>2, <1>3 DEF Upsert, Progress

LEMMA ReaderInitially ==
  ASSUME ReadingInit
  PROVE  ReadingTypeOK
<1>1. Unread \in Copies
  <2>1. 0 \in 0..MaxSpent /\ "ReadyToRead" \in Status
    BY ReadingAssumption DEF Status
  <2> QED BY <2>1 DEF Unread, Copies
<1>2. NoState \in Progress
  <2>1. 0 \in Percents /\ 0 \in Nat /\ "ReadyToRead" \in Status
    BY DEF Status, Percents
  <2> QED BY <2>1 DEF NoState, Progress
<1>3. 0 \in Times
  BY ReadingAssumption DEF Times
<1>4. events \in Seq(Events)
  BY DEF ReadingInit
<1> QED BY <1>1, <1>2, <1>3, <1>4 DEF ReadingInit, ReadingTypeOK

LEMMA BroughtOK ==
  ASSUME NEW copy \in Copies, NEW s \in Progress
  PROVE  Brought(copy, s) \in Copies
<1>1. s.percent \in Percents /\ copy.position \in Positions \cup {None} /\ 1 \in Positions
  BY LengthOK DEF Progress, Copies
<1>2. ASSUME s.percent # 0 PROVE (s.percent * Length + 99) \div 100 \in Positions
  <2>1. PICK q \in 1..100 : q = s.percent
    BY <1>1, <1>2 DEF Percents
  <2>2. PICK x \in Nat : x = q * Length
    BY LengthOK
  <2>3. Length \in Nat /\ Length >= 1
    BY LengthOK
  <2>4. x >= 1 /\ x <= 100 * Length
    BY <2>1, <2>2, <2>3
  <2>5. (x + 99) \div 100 \in 1..Length
    BY <2>2, <2>3, <2>4
  <2> QED BY <2>1, <2>2, <2>5 DEF Positions
<1> DEFINE at == IF s.percent = 0 THEN copy.position
                 ELSE IF s.status = "Finished" THEN 1 ELSE (s.percent * Length + 99) \div 100
<1>3. at \in Positions \cup {None} /\ s.status \in Status
  BY <1>1, <1>2 DEF Progress
<1>4. Brought(copy, s) = [copy EXCEPT !.status = s.status, !.position = at]
  BY DEF Brought
<1> HIDE DEF at
<1> QED BY <1>3, <1>4 DEF Copies

LEMMA TypesHold ==
  ASSUME ReadingTypeOK, [ReadingNext]_readingVars
  PROVE  ReadingTypeOK'
<1>1. ASSUME NEW d \in Devices, NEW b \in Books, NEW minutes \in 0..1, NEW p \in Positions,
             NEW sections \in Shapes[d], PutState(d, b, minutes, p, sections)
      PROVE  ReadingTypeOK'
  <2>1. PICK copy \in Copies, r \in Reported : Putting(d, b, minutes, sections, copy, r)
    BY <1>1, PutStatePuts
  <2>2. reader' \in [Devices -> [Books -> Copies]] /\ pending' \in [Devices -> Reported \cup {None}]
    BY <2>1 DEF Putting, ReadingTypeOK
  <2>3. \A x \in Devices : pending'[x] # None /\ pending'[x].placed => pending'[x].percent # None
    BY <2>1 DEF Putting, ReadingTypeOK, Reflects
  <2>4. partial' \subseteq Books
    BY <2>1 DEF Putting, ReadingTypeOK, Reported
  <2>5. lived' \in [Devices -> [Books -> Nat]] /\ reports' \in Nat
    BY <1>1 DEF PutState, ReadingTypeOK
  <2> QED BY <1>1, <2>2, <2>3, <2>4, <2>5 DEF PutState, ReadingTypeOK
<1>2. ASSUME NEW d \in Devices, SaveReadingState(d)
      PROVE  ReadingTypeOK'
  <2>1. PICK r \in Reported : Saving(d, r)
    BY <1>2, SaveReadingStateSaves
  <2>2. r.book \in Books /\ (r.placed => r.percent # None)
    BY <2>1 DEF Saving, ReadingTypeOK, Reported
  <2>3. state[r.book] \in Progress
    BY <2>2 DEF ReadingTypeOK
  <2>4. Upsert(state[r.book], d, r) \in Progress
    BY <2>2, <2>3, UpsertOK
  <2>5. state' \in [Books -> Progress]
    BY <2>1, <2>4 DEF Saving, ReadingTypeOK
  <2>6. events' \in Seq(Events)
    <3>1. events \in Seq(Events)
      BY DEF ReadingTypeOK
    <3>2. ASSUME NEW e \in Events PROVE Append(events, e) \in Seq(Events)
      BY <3>1
    <3>3. events' = events \/ \E e \in Events : events' = Append(events, e)
      BY <2>1 DEF Saving, Appended
    <3> QED BY <3>1, <3>2, <3>3
  <2>7. pending' \in [Devices -> Reported \cup {None}]
        /\ \A x \in Devices : pending'[x] # None /\ pending'[x].placed => pending'[x].percent # None
    BY <2>1 DEF Saving, ReadingTypeOK
  <2> QED BY <1>2, <2>5, <2>6, <2>7 DEF SaveReadingState, ReadingTypeOK
<1>3. ASSUME NEW d \in Devices, SaveFails(d)
      PROVE  ReadingTypeOK'
  <2>1. pending[d] \in Reported
    BY <1>3 DEF SaveFails, ReadingTypeOK
  <2>2. pending' \in [Devices -> Reported \cup {None}]
        /\ \A x \in Devices : pending'[x] # None /\ pending'[x].placed => pending'[x].percent # None
    BY <1>3 DEF SaveFails, ReadingTypeOK
  <2>3. partial' \subseteq Books /\ besides' \in Nat
    BY <1>3, <2>1 DEF SaveFails, Besides, ReadingTypeOK, Reported
  <2> QED BY <1>3, <2>2, <2>3 DEF SaveFails, ReadingTypeOK
<1>4. ASSUME NEW d \in Devices, Sync(d)
      PROVE  ReadingTypeOK'
  <2>1. \A b \in Books : Brought(reader[d][b], state[b]) \in Copies
    BY BroughtOK DEF ReadingTypeOK
  <2>2. reader' \in [Devices -> [Books -> Copies]]
    BY <1>4, <2>1 DEF Sync, ReadingTypeOK
  <2>3. \A b \in Books : (IF b \in Roots THEN state[b].rev ELSE 0) \in Nat
    BY DEF ReadingTypeOK, Progress
  <2>4. baseline' \in [Devices -> [Books -> Nat]]
    BY <1>4, <2>3 DEF Sync, ReadingTypeOK
  <2>5. besides' \in Nat
    BY <1>4 DEF Sync, Besides, ReadingTypeOK
  <2> QED BY <1>4, <2>2, <2>4, <2>5 DEF Sync, ReadingTypeOK
<1>5. ASSUME NEW s \in Books, NEW l \in Books, MergeBooks(s, l)
      PROVE  ReadingTypeOK'
  <2>1. NoState \in Progress
    BY DEF NoState, Progress, Status, Percents
  <2>2. state' \in [Books -> Progress]
    BY <1>5, <2>1 DEF MergeBooks, ReadingTypeOK
  <2>3. into' \in [Books -> Books \cup {None}] /\ merged' \subseteq Books /\ besides' \in Nat
    BY <1>5 DEF MergeBooks, Besides, ReadingTypeOK
  <2> QED BY <1>5, <2>2, <2>3 DEF MergeBooks, ReadingTypeOK
<1>6. ASSUME NEW d \in Devices, NEW b \in Books, CounterRestarts(d, b)
      PROVE  ReadingTypeOK'
  <2>1. [reader[d][b] EXCEPT !.spent = 0] \in Copies
    <3>1. reader[d][b] \in Copies /\ 0 \in 0..MaxSpent
      BY ReadingAssumption DEF ReadingTypeOK
    <3> QED BY <3>1 DEF Copies
  <2>2. reader' \in [Devices -> [Books -> Copies]] /\ besides' \in Nat
    BY <1>6, <2>1 DEF CounterRestarts, Besides, ReadingTypeOK
  <2> QED BY <1>6, <2>2 DEF CounterRestarts, ReadingTypeOK
<1>7. CASE Tick
  <2>1. now' \in Times
    BY <1>7, ReadingAssumption DEF Tick, ReadingTypeOK, Times
  <2> QED BY <1>7, <2>1 DEF Tick, ReadingTypeOK
<1>8. CASE UNCHANGED readingVars
  BY <1>8 DEF readingVars, ReadingTypeOK
<1> QED BY <1>1, <1>2, <1>3, <1>4, <1>5, <1>6, <1>7, <1>8 DEF ReadingNext

-----------------------------------------------------------------------------
(* Places. *)

Clean(b) == b \notin partial \cup merged

(* Only books that took part in a merge have, or are, a survivor.           *)
MergesKnown == \A c \in Books : into[c] # None => c \in merged /\ into[c] \in merged

AtPlace(copy, s) ==
  /\ copy.status = s.status
  /\ s.status # "Finished" /\ s.percent # 0 => Percent(copy.position) = s.percent

(* A percentage is that of some place, so that a reader sent there reports it again. *)
IsAPlace(s) ==
  s.rev > 0 /\ s.status # "Finished" => \E p \in Positions : s.percent = Percent(p)

ReportsOn(d, b) == pending[d] # None /\ pending[d].book = b

(* A report on its way is of the place its reader is at; without one, the   *)
(* reader that wrote last, and one that has seen the revision, are there.   *)
Follows(d, b) ==
  /\ baseline[d][b] <= state[b].rev
  /\ ReportsOn(d, b) =>
       /\ pending[d].placed /\ pending[d].status = reader[d][b].status
       /\ pending[d].status # "Finished" => /\ reader[d][b].position \in Positions
                                            /\ pending[d].percent = Percent(reader[d][b].position)
  /\ ~ReportsOn(d, b) /\ state[b].rev > 0 /\ (baseline[d][b] = state[b].rev \/ state[b].writer = d)
       => AtPlace(reader[d][b], state[b])

Places == \A b \in Books : Clean(b) => IsAPlace(state[b]) /\ \A d \in Devices : Follows(d, b)

PlaceInv == MergesKnown /\ Places

LEMMA PlaceInitially ==
  ASSUME ReadingInit
  PROVE  PlaceInv
BY DEF ReadingInit, PlaceInv, MergesKnown, Places, IsAPlace, Follows, ReportsOn, NoState

(* Where nothing that a place is told by changes, it is told as before. *)
LEMMA PlaceStays ==
  ASSUME NEW d \in Devices, NEW b \in Books, Follows(d, b),
         state'[b] = state[b], baseline'[d][b] = baseline[d][b],
         reader'[d][b].status = reader[d][b].status, reader'[d][b].position = reader[d][b].position,
         ReportsOn(d, b)' = ReportsOn(d, b), ReportsOn(d, b) => pending'[d] = pending[d]
  PROVE  Follows(d, b)'
BY DEF Follows, ReportsOn, AtPlace

LEMMA CleanIsRoot ==
  ASSUME MergesKnown, NEW b \in Books, Clean(b), NEW c \in Books, ResolveBookID(c) = b
  PROVE  c = b
BY DEF MergesKnown, Clean, ResolveBookID

LEMMA BroughtThere ==
  ASSUME NEW copy \in Copies, NEW s \in Progress, s.rev > 0, IsAPlace(s)
  PROVE  AtPlace(Brought(copy, s), s)
<1> DEFINE at == IF s.percent = 0 THEN copy.position
                 ELSE IF s.status = "Finished" THEN 1 ELSE (s.percent * Length + 99) \div 100
           new == [copy EXCEPT !.status = s.status, !.position = at]
<1>1. Brought(copy, s) = new
  BY DEF Brought
<1>2. new.status = s.status /\ new.position = at
  <2> HIDE DEF at
  <2> QED BY DEF Copies
<1>3. ASSUME s.status # "Finished", s.percent # 0
      PROVE  Percent(at) = s.percent
  <2>1. PICK p \in Positions : s.percent = Percent(p)
    BY <1>3 DEF IsAPlace
  <2>2. at = (Percent(p) * Length + 99) \div 100
    BY <1>3, <2>1
  <2>3. Percent(at) = Percent(p)
    BY <1>3, <2>1, <2>2, PlaceOfPercent
  <2> QED BY <2>1, <2>3
<1> HIDE DEF at, new
<1> QED BY <1>1, <1>2, <1>3 DEF AtPlace

-----------------------------------------------------------------------------
(* Every step keeps them there. *)

LEMMA PlaceHoldsPut ==
  ASSUME ReadingTypeOK, PlaceInv, NEW d \in Devices, NEW b \in Books, NEW minutes \in 0..1,
         NEW p \in Positions, NEW sections \in Shapes[d], PutState(d, b, minutes, p, sections)
  PROVE  PlaceInv'
<1>1. PICK copy \in Copies, r \in Reported : Putting(d, b, minutes, sections, copy, r)
  BY PutStatePuts
<1>2. UNCHANGED <<state, into, baseline, merged>> /\ pending[d] = None
  BY DEF PutState
<1>3. MergesKnown'
  BY <1>2 DEF PlaceInv, MergesKnown
<1>4. /\ reader \in [Devices -> [Books -> Copies]] /\ pending \in [Devices -> Reported \cup {None}]
      /\ reader' = [reader EXCEPT ![d] = [reader[d] EXCEPT ![b] = copy]]
      /\ pending' = [pending EXCEPT ![d] = r] /\ r # None
  BY <1>1, NoneIsNothing DEF Putting, ReadingTypeOK
<1>5. ASSUME NEW c \in Books, Clean(c)'
      PROVE  IsAPlace(state[c])' /\ \A x \in Devices : Follows(x, c)'
  <2>1. Clean(c) /\ (r.book = c => "status" \in sections /\ r.placed)
    BY <1>1, <1>2, <1>5 DEF Clean, Putting
  <2>2. IsAPlace(state[c]) /\ \A x \in Devices : Follows(x, c)
    BY <2>1 DEF PlaceInv, Places
  <2>3. r.book = c => b = c
    BY <1>1, <2>1, CleanIsRoot DEF PlaceInv, Putting
  <2>4. b = c => r.book = c
    BY <1>1, <2>1 DEF PlaceInv, MergesKnown, Putting, Clean, ResolveBookID
  <2>5. ASSUME NEW x \in Devices, ~(x = d /\ b = c)
        PROVE  Follows(x, c)'
    <3>1. reader'[x][c] = reader[x][c]
      BY <1>4, <2>5
    <3>2. ReportsOn(x, c)' = ReportsOn(x, c) /\ (ReportsOn(x, c) => pending'[x] = pending[x])
      BY <1>2, <1>4, <2>3, <2>5 DEF ReportsOn
    <3>3. state'[c] = state[c] /\ baseline'[x][c] = baseline[x][c]
      BY <1>2
    <3> QED BY <2>2, <3>1, <3>2, <3>3, PlaceStays
  <2>6. ASSUME b = c
        PROVE  Follows(d, c)'
    <3>1. reader'[d][c] = copy /\ pending'[d] = r /\ r.book = c
      BY <1>4, <2>4, <2>6
    <3>2. r.placed /\ r.status = copy.status /\ copy.position \in Positions
          /\ (r.status # "Finished" => r.percent = Percent(copy.position))
      BY <1>1, <2>1, <3>1 DEF Putting, Reflects
    <3>3. baseline'[d][c] <= state'[c].rev
      BY <1>2, <2>2 DEF Follows
    <3> QED BY <1>4, <3>1, <3>2, <3>3 DEF Follows, ReportsOn
  <2> QED BY <1>2, <2>2, <2>5, <2>6
<1> QED BY <1>3, <1>5 DEF PlaceInv, Places

LEMMA PlaceHoldsSave ==
  ASSUME ReadingTypeOK, PlaceInv, NEW d \in Devices, SaveReadingState(d)
  PROVE  PlaceInv'
<1>1. PICK r \in Reported : Saving(d, r)
  BY SaveReadingStateSaves
<1>2. UNCHANGED <<reader, into, baseline, partial, merged>>
  BY DEF SaveReadingState
<1>3. MergesKnown'
  BY <1>2 DEF PlaceInv, MergesKnown
<1>4. /\ state \in [Books -> Progress] /\ pending \in [Devices -> Reported \cup {None}]
      /\ baseline \in [Devices -> [Books -> Nat]]
      /\ pending[d] = r /\ r # None /\ r.book \in Books
      /\ state' = [state EXCEPT ![r.book] = Upsert(state[r.book], d, r)]
      /\ pending' = [pending EXCEPT ![d] = None]
  BY <1>1, NoneIsNothing DEF Saving, ReadingTypeOK, Reported
<1>5. ASSUME NEW c \in Books, Clean(c)'
      PROVE  IsAPlace(state[c])' /\ \A x \in Devices : Follows(x, c)'
  <2>1. Clean(c)
    BY <1>2, <1>5 DEF Clean
  <2>2. IsAPlace(state[c]) /\ \A x \in Devices : Follows(x, c)
    BY <2>1 DEF PlaceInv, Places
  <2>3. CASE r.book # c
    <3>1. state'[c] = state[c]
      BY <1>4, <2>3
    <3>2. ASSUME NEW x \in Devices
          PROVE  Follows(x, c)'
      <4>1. ReportsOn(x, c)' = ReportsOn(x, c) /\ (ReportsOn(x, c) => pending'[x] = pending[x])
        BY <1>4, <2>3 DEF ReportsOn
      <4> QED BY <1>2, <2>2, <3>1, <4>1, PlaceStays
    <3> QED BY <2>2, <3>1, <3>2
  <2>4. CASE r.book = c
    <3> DEFINE s == state[c]
               n == state'[c]
    <3>1. r.placed /\ r.status = reader[d][c].status
          /\ (r.status # "Finished" => /\ reader[d][c].position \in Positions
                                       /\ r.percent = Percent(reader[d][c].position))
      BY <1>4, <2>2, <2>4 DEF Follows, ReportsOn
    <3>2. n.status = r.status /\ n.percent = r.percent /\ n.rev = s.rev + 1 /\ n.writer = d
      BY <1>4, <2>4, <3>1 DEF Upsert
    <3>3. s.rev \in Nat /\ \A x \in Devices : baseline[x][c] \in Nat /\ baseline[x][c] <= s.rev
      BY <1>4, <2>2 DEF Progress, Follows
    <3>4. IsAPlace(n)
      BY <3>1, <3>2 DEF IsAPlace
    <3>5. ASSUME NEW x \in Devices
          PROVE  Follows(x, c)'
      <4>1. baseline'[x][c] <= n.rev /\ baseline'[x][c] # n.rev
        BY <1>2, <3>2, <3>3
      <4>2. CASE x = d
        <5>1. ~ReportsOn(x, c)'
          BY <1>4, <4>2 DEF ReportsOn
        <5>2. AtPlace(reader'[x][c], n)
          BY <1>2, <3>1, <3>2, <4>2 DEF AtPlace
        <5> QED BY <4>1, <5>1, <5>2 DEF Follows
      <4>3. CASE x # d
        <5>1. pending'[x] = pending[x]
          BY <1>4, <4>3
        <5>2. n.writer # x
          BY <3>2, <4>3
        <5> QED BY <1>2, <2>2, <4>1, <5>1, <5>2 DEF Follows, ReportsOn
      <4> QED BY <4>2, <4>3
    <3> QED BY <3>4, <3>5
  <2> QED BY <2>3, <2>4
<1> QED BY <1>3, <1>5 DEF PlaceInv, Places

LEMMA PlaceHoldsSync ==
  ASSUME ReadingTypeOK, PlaceInv, NEW d \in Devices, Sync(d)
  PROVE  PlaceInv'
<1>1. /\ UNCHANGED <<pending, state, into, partial, merged>> /\ pending[d] = None
      /\ reader \in [Devices -> [Books -> Copies]] /\ state \in [Books -> Progress]
      /\ baseline \in [Devices -> [Books -> Nat]]
  BY DEF Sync, ReadingTypeOK
<1>2. MergesKnown'
  BY <1>1 DEF PlaceInv, MergesKnown
<1>3. ASSUME NEW c \in Books, Clean(c)
      PROVE  \A x \in Devices : Follows(x, c)'
  <2>1. IsAPlace(state[c]) /\ \A x \in Devices : Follows(x, c)
    BY <1>3 DEF PlaceInv, Places
  <2>2. c \in Roots
    BY <1>3 DEF PlaceInv, MergesKnown, Clean, Roots
  <2>3. ASSUME NEW x \in Devices, x # d
        PROVE  Follows(x, c)'
    <3>1. reader'[x][c] = reader[x][c] /\ baseline'[x][c] = baseline[x][c]
      BY <1>1, <2>3 DEF Sync
    <3>2. ReportsOn(x, c)' = ReportsOn(x, c) /\ (ReportsOn(x, c) => pending'[x] = pending[x])
      BY <1>1 DEF ReportsOn
    <3> QED BY <1>1, <2>1, <3>1, <3>2, PlaceStays
  <2>4. Follows(d, c)'
    <3>1. baseline'[d][c] = state[c].rev
      BY <1>1, <2>2 DEF Sync
    <3>2. ~ReportsOn(d, c) /\ ~ReportsOn(d, c)'
      BY <1>1 DEF ReportsOn
    <3>3. state[c].rev \in Nat /\ state'[c] = state[c]
      BY <1>1 DEF Progress
    <3>4. ASSUME state[c].rev > 0
          PROVE  AtPlace(reader'[d][c], state[c])
      <4>1. CASE c \in ChangedReadingStateIDs(d)
        <5>1. reader'[d][c] = Brought(reader[d][c], state[c])
          BY <1>1, <4>1 DEF Sync
        <5>2. PICK copy \in Copies, s \in Progress : copy = reader[d][c] /\ s = state[c]
          BY <1>1
        <5> QED BY <2>1, <3>4, <5>1, <5>2, BroughtThere
      <4>2. CASE c \notin ChangedReadingStateIDs(d)
        <5>1. reader'[d][c] = reader[d][c]
          BY <1>1, <4>2 DEF Sync
        <5>2. state[c].rev = baseline[d][c] \/ state[c].writer = d
          BY <2>2, <4>2 DEF ChangedReadingStateIDs
        <5> QED BY <2>1, <3>2, <3>4, <5>1, <5>2 DEF Follows
      <4> QED BY <4>1, <4>2
    <3> QED BY <3>1, <3>2, <3>3, <3>4 DEF Follows
  <2> QED BY <2>3, <2>4
<1>4. ASSUME NEW c \in Books, Clean(c)'
      PROVE  Clean(c) /\ IsAPlace(state[c])'
  BY <1>1, <1>4 DEF Clean, PlaceInv, Places
<1> QED BY <1>2, <1>3, <1>4 DEF PlaceInv, Places

LEMMA PlaceHolds ==
  ASSUME ReadingTypeOK, PlaceInv, [ReadingNext]_readingVars
  PROVE  PlaceInv'
<1>1. ASSUME NEW d \in Devices, SaveFails(d)
      PROVE  PlaceInv'
  <2>1. /\ UNCHANGED <<reader, state, into, baseline, merged>>
        /\ pending' = [pending EXCEPT ![d] = None] /\ partial' = partial \cup {pending[d].book}
        /\ pending \in [Devices -> Reported \cup {None}]
    BY <1>1 DEF SaveFails, ReadingTypeOK
  <2>2. ASSUME NEW c \in Books, Clean(c)'
        PROVE  IsAPlace(state[c])' /\ \A x \in Devices : Follows(x, c)'
    <3>1. Clean(c) /\ c # pending[d].book
      BY <2>1, <2>2 DEF Clean
    <3>2. IsAPlace(state[c]) /\ \A x \in Devices : Follows(x, c)
      BY <3>1 DEF PlaceInv, Places
    <3>3. \A x \in Devices : ReportsOn(x, c)' = ReportsOn(x, c) /\ (ReportsOn(x, c) => pending'[x] = pending[x])
      BY <2>1, <3>1 DEF ReportsOn
    <3> QED BY <2>1, <3>2, <3>3, PlaceStays
  <2> QED BY <2>1, <2>2 DEF PlaceInv, Places, MergesKnown
<1>2. ASSUME NEW s \in Books, NEW l \in Books, MergeBooks(s, l)
      PROVE  PlaceInv'
  <2>1. /\ UNCHANGED <<reader, pending, baseline, partial>>
        /\ merged' = merged \cup {s, l} /\ into' = [into EXCEPT ![l] = s]
        /\ \A c \in Books \ {s, l} : state'[c] = state[c]
        /\ into \in [Books -> Books \cup {None}]
    BY <1>2 DEF MergeBooks, ReadingTypeOK
  <2>2. MergesKnown'
    BY <2>1 DEF PlaceInv, MergesKnown
  <2>3. ASSUME NEW c \in Books, Clean(c)'
        PROVE  IsAPlace(state[c])' /\ \A x \in Devices : Follows(x, c)'
    <3>1. Clean(c) /\ c \notin {s, l}
      BY <2>1, <2>3 DEF Clean
    <3>2. IsAPlace(state[c]) /\ \A x \in Devices : Follows(x, c)
      BY <3>1 DEF PlaceInv, Places
    <3>3. state'[c] = state[c]
      BY <2>1, <3>1
    <3>4. \A x \in Devices : ReportsOn(x, c)' = ReportsOn(x, c) /\ (ReportsOn(x, c) => pending'[x] = pending[x])
      BY <2>1 DEF ReportsOn
    <3> QED BY <2>1, <3>2, <3>3, <3>4, PlaceStays
  <2> QED BY <2>2, <2>3 DEF PlaceInv, Places
<1>3. ASSUME NEW d \in Devices, NEW b \in Books, CounterRestarts(d, b)
      PROVE  PlaceInv'
  <2>1. /\ UNCHANGED <<pending, state, into, baseline, partial, merged>>
        /\ \A x \in Devices, c \in Books : /\ reader'[x][c].status = reader[x][c].status
                                           /\ reader'[x][c].position = reader[x][c].position
    BY <1>3 DEF CounterRestarts, ReadingTypeOK, Copies
  <2>2. ASSUME NEW c \in Books, Clean(c)'
        PROVE  IsAPlace(state[c])' /\ \A x \in Devices : Follows(x, c)'
    <3>1. Clean(c)
      BY <2>1, <2>2 DEF Clean
    <3>2. IsAPlace(state[c]) /\ \A x \in Devices : Follows(x, c)
      BY <3>1 DEF PlaceInv, Places
    <3>3. \A x \in Devices : ReportsOn(x, c)' = ReportsOn(x, c) /\ (ReportsOn(x, c) => pending'[x] = pending[x])
      BY <2>1 DEF ReportsOn
    <3> QED BY <2>1, <3>2, <3>3, PlaceStays
  <2> QED BY <2>1, <2>2 DEF PlaceInv, Places, MergesKnown
<1>4. CASE Tick \/ UNCHANGED readingVars
  <2>1. UNCHANGED <<reader, pending, state, into, baseline, partial, merged>>
    BY <1>4 DEF Tick, readingVars
  <2> QED BY <2>1 DEF PlaceInv, Places, MergesKnown, Clean, Follows, ReportsOn
<1> QED BY <1>1, <1>2, <1>3, <1>4, PlaceHoldsPut, PlaceHoldsSave, PlaceHoldsSync DEF ReadingNext

LEMMA PlaceInvTells ==
  ASSUME PlaceInv
  PROVE  PlaceFollows
BY DEF PlaceInv, Places, Clean, Follows, ReportsOn, AtPlace, PlaceFollows, Roots

(* Type correctness of readings (internal/kobo/readingstate.go, internal/store/progress.go):
   for any books, readers and histories, every variable keeps its type. *)
THEOREM ReaderTypes == ReadingSpec => []ReadingTypeOK
<1>1. ReadingInit => ReadingTypeOK
  BY ReaderInitially
<1>2. ReadingTypeOK /\ [ReadingNext]_readingVars => ReadingTypeOK'
  BY TypesHold
<1> QED BY <1>1, <1>2, PTL DEF ReadingSpec

(* A reader that knows the revision of a book is at the place the server   *)
(* has, however reports, syncs, merges, resets and failures interleave.     *)
THEOREM PlacesFollow == ReadingSpec => []PlaceFollows
<1>1. ReadingInit => PlaceInv
  BY PlaceInitially
<1>2. ReadingTypeOK /\ PlaceInv /\ [ReadingNext]_readingVars => PlaceInv'
  BY PlaceHolds
<1>3. PlaceInv => PlaceFollows
  BY PlaceInvTells
<1> QED BY <1>1, <1>2, <1>3, ReaderTypes, PTL DEF ReadingSpec

-----------------------------------------------------------------------------
(* Sums: as many as there are units in what is summed. *)

UnitsOf(x, n) == {x} \X (1..n)
Units(f, s) == UNION {UnitsOf(x, f[x]) : x \in s}

LEMMA UnitsOfOne ==
  ASSUME NEW x, NEW n \in Nat
  PROVE  IsFiniteSet(UnitsOf(x, n)) /\ Cardinality(UnitsOf(x, n)) = n
<1>1. IsFiniteSet({x}) /\ Cardinality({x}) = 1
  BY FS_Singleton
<1>2. IsFiniteSet(1..n) /\ Cardinality(1..n) = n
  BY FS_Interval
<1>3. PICK A, B : A = {x} /\ B = 1..n
  OBVIOUS
<1>4. IsFiniteSet(A) /\ Cardinality(A) = 1 /\ IsFiniteSet(B) /\ Cardinality(B) = n
  BY <1>1, <1>2, <1>3
<1>5. IsFiniteSet(A \X B) /\ Cardinality(A \X B) = Cardinality(A) * Cardinality(B)
  BY <1>4, FS_Product
<1>6. Cardinality(A) * Cardinality(B) = n
  BY <1>4
<1> QED BY <1>3, <1>5, <1>6 DEF UnitsOf

LEMMA UnitsFinite ==
  ASSUME NEW S, IsFiniteSet(S), NEW f \in [S -> Nat]
  PROVE  IsFiniteSet(Units(f, S))
<1> DEFINE T == {UnitsOf(x, f[x]) : x \in S}
           g == [x \in S |-> UnitsOf(x, f[x])]
<1>1. g \in Surjection(S, T)
  BY DEF Surjection
<1>2. IsFiniteSet(T)
  <2> HIDE DEF g, T
  <2> QED BY <1>1, FS_Surjection
<1>3. \A u \in T : IsFiniteSet(u)
  BY UnitsOfOne
<1>4. IsFiniteSet(UNION T)
  <2> HIDE DEF T
  <2> QED BY <1>2, <1>3, FS_UNION
<1> QED BY <1>4 DEF Units

LEMMA UnitsAdd ==
  ASSUME NEW S, IsFiniteSet(S), NEW f \in [S -> Nat], NEW s \in SUBSET S, NEW x \in s
  PROVE  /\ Cardinality(Units(f, s)) \in Nat /\ Cardinality(Units(f, s \ {x})) \in Nat
         /\ Cardinality(Units(f, s)) = f[x] + Cardinality(Units(f, s \ {x}))
<1> DEFINE A == Units(f, s \ {x})
           B == UnitsOf(x, f[x])
<1>1. f[x] \in Nat /\ IsFiniteSet(B) /\ Cardinality(B) = f[x]
  BY UnitsOfOne
<1>2. IsFiniteSet(Units(f, S))
  BY UnitsFinite
<1>3. A \subseteq Units(f, S)
  BY DEF Units
<1>4. IsFiniteSet(A)
  BY <1>2, <1>3, FS_Subset
<1>5. Units(f, s) = A \cup B
  BY DEF Units
<1>6. A \cap B = {}
  BY DEF Units, UnitsOf
<1>7. Cardinality({}) = 0
  BY FS_EmptySet
<1>8. Cardinality(A) \in Nat
  BY <1>4, FS_CardinalityType
<1>9. Cardinality(A \cup B) = Cardinality(A) + Cardinality(B) - Cardinality(A \cap B)
  BY <1>1, <1>4, FS_Union
<1>10. Cardinality(A \cup B) = f[x] + Cardinality(A)
  <2> HIDE DEF A, B
  <2>1. Cardinality(A \cap B) = 0
    BY <1>6, <1>7
  <2> QED BY <1>1, <1>8, <1>9, <2>1
<1> QED BY <1>1, <1>5, <1>8, <1>10

LEMMA SumIsCount ==
  ASSUME NEW S, IsFiniteSet(S), NEW f \in [S -> Nat]
  PROVE  SumOf(f) = Cardinality(Units(f, S)) /\ SumOf(f) \in Nat
<1> DEFINE Rec(iter) == [s \in SUBSET S |->
                           IF s = {} THEN 0
                           ELSE LET x == CHOOSE x \in s : TRUE IN f[x] + iter[s \ {x}]]
           Count == [s \in SUBSET S |-> Cardinality(Units(f, s))]
           sum == CHOOSE iter : iter = Rec(iter)
<1>1. \A s \in SUBSET S : \A x \in s : Cardinality(Units(f, s)) = f[x] + Cardinality(Units(f, s \ {x}))
  <2> TAKE s \in SUBSET S
  <2> TAKE x \in s
  <2> QED BY UnitsAdd
<1>2. SumOf(f) = sum[S]
  <2>1. DOMAIN f = S
    OBVIOUS
  <2> QED BY <2>1 DEF SumOf, MapThenSumSet, MapThenFoldSet
<1>3. Cardinality(Units(f, {})) = 0
  BY FS_EmptySet DEF Units
<1>4. Count = Rec(Count)
  <2>1. ASSUME NEW s \in SUBSET S
        PROVE  Count[s] = Rec(Count)[s]
    <3>1. CASE s = {}
      BY <1>3, <3>1
    <3>2. CASE s # {}
      <4>1. PICK x \in s : x = CHOOSE y \in s : TRUE
        BY <3>2
      <4>2. Cardinality(Units(f, s)) = f[x] + Cardinality(Units(f, s \ {x}))
        BY <1>1, <4>1
      <4>3. s \ {x} \in SUBSET S
        OBVIOUS
      <4>4. Rec(Count)[s] = f[x] + Count[s \ {x}]
        BY <3>2, <4>1
      <4> QED BY <4>2, <4>3, <4>4
    <3> QED BY <3>1, <3>2
  <2> QED BY <2>1
<1>5. sum = Rec(sum)
  <2> HIDE DEF Rec, Count
  <2> QED BY <1>4
<1> HIDE DEF sum
<1>6. IsFiniteSet(S) /\ \A s \in SUBSET S : IsFiniteSet(s) /\ Cardinality(s) \in Nat
  BY FS_Subset, FS_CardinalityType
<1>7. \A s \in SUBSET S : sum[s] = Cardinality(Units(f, s))
  <2> DEFINE Bad == {n \in Nat : \E s \in SUBSET S : Cardinality(s) = n /\ sum[s] # Cardinality(Units(f, s))}
  <2>1. SUFFICES ASSUME Bad # {} PROVE FALSE
    BY <1>6
  <2>2. PICK n \in Bad : \A m \in Bad : n <= m
    BY <2>1, LeastOf
  <2>3. PICK s \in SUBSET S : Cardinality(s) = n /\ sum[s] # Cardinality(Units(f, s))
    OBVIOUS
  <2>4. s # {}
    <3>1. sum[{}] = 0
      BY <1>5
    <3> QED BY <1>3, <2>3, <3>1
  <2>5. PICK x \in s : x = CHOOSE y \in s : TRUE
    BY <2>4
  <2>6. sum[s] = f[x] + sum[s \ {x}]
    BY <1>5, <2>4, <2>5
  <2>7. s \ {x} \in SUBSET S /\ Cardinality(s \ {x}) = n - 1
    BY <1>6, <2>3, FS_RemoveElement
  <2>8. Cardinality(s \ {x}) \notin Bad /\ Cardinality(s \ {x}) \in Nat
    <3>1. n \in Nat
      OBVIOUS
    <3> HIDE DEF Bad
    <3> QED BY <1>6, <2>2, <2>7, <3>1
  <2>9. sum[s \ {x}] = Cardinality(Units(f, s \ {x}))
    BY <2>7, <2>8
  <2> QED BY <1>1, <2>3, <2>5, <2>6, <2>9
<1>8. Cardinality(Units(f, S)) \in Nat
  BY UnitsFinite, FS_CardinalityType
<1> QED BY <1>2, <1>7, <1>8

Without(f, x) == [y \in DOMAIN f \ {x} |-> f[y]]

LEMMA SumSplit ==
  ASSUME NEW S, IsFiniteSet(S), NEW f \in [S -> Nat], NEW x \in S
  PROVE  SumOf(f) \in Nat /\ SumOf(Without(f, x)) \in Nat /\ SumOf(f) = f[x] + SumOf(Without(f, x))
<1> DEFINE g == Without(f, x)
<1>1. IsFiniteSet(S \ {x}) /\ g \in [S \ {x} -> Nat]
  BY FS_Subset DEF Without
<1>2. SumOf(g) = Cardinality(Units(g, S \ {x})) /\ SumOf(g) \in Nat
  <2> HIDE DEF g
  <2> QED BY <1>1, SumIsCount
<1>3. Units(g, S \ {x}) = Units(f, S \ {x})
  BY DEF Units, Without
<1>4. SumOf(f) = Cardinality(Units(f, S)) /\ SumOf(f) \in Nat
  BY SumIsCount
<1>5. Cardinality(Units(f, S)) = f[x] + Cardinality(Units(f, S \ {x}))
  BY UnitsAdd
<1> QED BY <1>2, <1>3, <1>4, <1>5

LEMMA SumChanged ==
  ASSUME NEW S, IsFiniteSet(S), NEW f \in [S -> Nat], NEW g \in [S -> Nat], NEW x \in S,
         \A y \in S \ {x} : g[y] = f[y]
  PROVE  SumOf(f) \in Nat /\ SumOf(g) \in Nat /\ SumOf(g) = SumOf(f) - f[x] + g[x]
<1>1. Without(f, x) = Without(g, x)
  BY DEF Without
<1>2. SumOf(f) \in Nat /\ SumOf(Without(f, x)) \in Nat /\ SumOf(f) = f[x] + SumOf(Without(f, x))
  BY SumSplit
<1>3. SumOf(g) \in Nat /\ SumOf(Without(g, x)) \in Nat /\ SumOf(g) = g[x] + SumOf(Without(g, x))
  BY SumSplit
<1>4. f[x] \in Nat /\ g[x] \in Nat
  OBVIOUS
<1> QED BY <1>1, <1>2, <1>3, <1>4

LEMMA SumOfZeros ==
  ASSUME NEW S, IsFiniteSet(S), NEW f \in [S -> Nat], \A x \in S : f[x] = 0
  PROVE  SumOf(f) = 0
<1>1. Units(f, S) = {}
  BY DEF Units, UnitsOf
<1> QED BY <1>1, SumIsCount, FS_EmptySet

-----------------------------------------------------------------------------
(* Minutes. *)

LEMMA HistoryIs ==
  ASSUME ReadingTypeOK
  PROVE  /\ Len(events) \in Nat /\ DOMAIN events = 1..Len(events)
         /\ \A i \in DOMAIN events : events[i] \in Events /\ events[i].delta \in Nat
<1>1. events \in Seq(Events)
  BY DEF ReadingTypeOK
<1>2. \A i \in 1..Len(events) : events[i] \in Events
  BY <1>1
<1>3. \A e \in Events : e.delta \in Nat
  BY ReadingAssumption DEF Events
<1> QED BY <1>1, <1>2, <1>3

LEMMA MineIsFinite ==
  ASSUME ReadingTypeOK, NEW d \in Devices, NEW b \in Books
  PROVE  /\ IsFiniteSet(Mine(d, b)) /\ Minutes(d, b) \in Nat
         /\ [i \in Mine(d, b) |-> events[i].delta] \in [Mine(d, b) -> Nat]
         /\ Mine(d, b) = {} => Minutes(d, b) = 0
<1>1. Mine(d, b) \subseteq 1..Len(events) /\ IsFiniteSet(1..Len(events))
  BY HistoryIs, FS_Interval DEF Mine
<1>2. IsFiniteSet(Mine(d, b))
  BY <1>1, FS_Subset
<1>3. [i \in Mine(d, b) |-> events[i].delta] \in [Mine(d, b) -> Nat]
  BY HistoryIs DEF Mine
<1>4. Minutes(d, b) \in Nat
  BY <1>2, <1>3, SumIsCount DEF Minutes
<1>5. Mine(d, b) = {} => Minutes(d, b) = 0
  BY <1>2, <1>3, SumOfZeros DEF Minutes
<1> QED BY <1>2, <1>3, <1>4, <1>5

(* What one more event makes of the minutes of a reader in a book. *)
LEMMA OneMore ==
  ASSUME ReadingTypeOK, NEW e \in Events, events' = Append(events, e), NEW d \in Devices, NEW b \in Books
  PROVE  LET next == Len(events) + 1
         IN  /\ \A i \in DOMAIN events : i \in DOMAIN events' /\ events'[i] = events[i]
             /\ events'[next] = e /\ \A i \in Mine(d, b) : i \in Nat /\ i < next
             /\ e.device = d /\ e.book = b => /\ Mine(d, b)' = Mine(d, b) \cup {next}
                                              /\ Minutes(d, b)' = Minutes(d, b) + e.delta
             /\ ~(e.device = d /\ e.book = b) => /\ Mine(d, b)' = Mine(d, b)
                                                 /\ Minutes(d, b)' = Minutes(d, b)
<1> DEFINE n == Len(events)
           f == [i \in Mine(d, b) |-> events[i].delta]
           f2 == [i \in Mine(d, b)' |-> events'[i].delta]
<1>1. /\ n \in Nat /\ DOMAIN events = 1..n /\ e.delta \in Nat
      /\ \A i \in DOMAIN events : events[i].delta \in Nat
  BY HistoryIs, ReadingAssumption DEF Events
<1>2. /\ DOMAIN events' = 1..(n + 1) /\ events'[n + 1] = e
      /\ \A i \in 1..n : events'[i] = events[i]
  BY DEF ReadingTypeOK
<1>3. \A i \in Mine(d, b) : i \in Nat /\ i < n + 1
  BY <1>1 DEF Mine
<1>4. Minutes(d, b) = SumOf(f) /\ Minutes(d, b)' = SumOf(f2) /\ f \in [Mine(d, b) -> Nat]
      /\ IsFiniteSet(Mine(d, b))
  BY MineIsFinite DEF Minutes
<1>5. ASSUME e.device = d, e.book = b
      PROVE  Mine(d, b)' = Mine(d, b) \cup {n + 1} /\ Minutes(d, b)' = Minutes(d, b) + e.delta
  <2>1. Mine(d, b)' = Mine(d, b) \cup {n + 1}
    BY <1>1, <1>2, <1>5 DEF Mine
  <2>2. IsFiniteSet(Mine(d, b)')
    BY <1>4, <2>1, FS_AddElement
  <2>3. f2 \in [Mine(d, b)' -> Nat]
    BY <1>1, <1>2, <2>1 DEF Mine
  <2>4. n + 1 \in Mine(d, b)' /\ Mine(d, b)' \ {n + 1} = Mine(d, b)
    BY <1>1, <1>3, <2>1
  <2>5. Without(f2, n + 1) = f
    BY <1>1, <1>2, <2>1, <2>4 DEF Mine, Without
  <2>6. f2[n + 1] = e.delta
    BY <1>2, <2>4
  <2>7. SumOf(f2) = f2[n + 1] + SumOf(f)
    <3>1. PICK S : S = Mine(d, b)'
      OBVIOUS
    <3>2. PICK g \in [S -> Nat] : g = f2
      BY <2>3, <3>1
    <3>3. SumOf(g) = g[n + 1] + SumOf(Without(g, n + 1))
      BY <2>2, <2>4, <3>1, SumSplit
    <3> QED BY <2>5, <3>1, <3>2, <3>3
  <2>8. SumOf(f) \in Nat
    BY <1>4, SumIsCount
  <2> HIDE DEF f, f2
  <2> QED BY <1>1, <1>4, <2>1, <2>6, <2>7, <2>8
<1>6. ASSUME ~(e.device = d /\ e.book = b)
      PROVE  Mine(d, b)' = Mine(d, b) /\ Minutes(d, b)' = Minutes(d, b)
  <2>1. Mine(d, b)' = Mine(d, b)
    BY <1>1, <1>2, <1>6 DEF Mine
  <2>2. f2 = f
    BY <1>1, <1>2, <2>1 DEF Mine
  <2> HIDE DEF f, f2
  <2> QED BY <1>4, <2>1, <2>2
<1> HIDE DEF f, f2
<1> QED BY <1>1, <1>2, <1>3, <1>5, <1>6

-----------------------------------------------------------------------------
(* What the minutes of a reader in a book are. *)

(* The counter of every report there is, in the order they came.            *)
Steady(d, b) ==
  /\ \A i \in Mine(d, b) : events[i].spent # None
  /\ \A i, j \in Mine(d, b) : i < j => events[i].spent <= events[j].spent

Telescopes(d, b) ==
  Mine(d, b) # {} /\ Steady(d, b)
    => Minutes(d, b) = events[Max(Mine(d, b))].spent - events[Min(Mine(d, b))].spent

(* The minutes in the history, with those the reader has still to report    *)
(* on top of its last report, are not more than were lived.                 *)
WithinLife(d, b) ==
  /\ Minutes(d, b) <= lived[d][b]
  /\ ReportsOn(d, b) => pending[d].spent \in {None, reader[d][b].spent}
  /\ LET last == LastEvent(b, d)
     IN  last # None /\ last.spent # None /\ last.spent < reader[d][b].spent
           => Minutes(d, b) + (reader[d][b].spent - last.spent) <= lived[d][b]

MinutesInv ==
  \A d \in Devices, b \in Books : Telescopes(d, b) /\ (b \notin merged => WithinLife(d, b))

LEMMA UnmergedIsRoot ==
  ASSUME MergesKnown, NEW b \in Books \ merged, NEW c \in Books, ResolveBookID(c) = b
  PROVE  c = b
BY DEF MergesKnown, ResolveBookID

LEMMA MinutesInitially ==
  ASSUME ReadingInit
  PROVE  MinutesInv
<1>1. ReadingTypeOK
  BY ReaderInitially
<1>2. ASSUME NEW d \in Devices, NEW b \in Books
      PROVE  Mine(d, b) = {} /\ lived[d][b] = 0 /\ ~ReportsOn(d, b)
  BY DEF ReadingInit, Mine, ReportsOn
<1>3. ASSUME NEW d \in Devices, NEW b \in Books
      PROVE  Minutes(d, b) = 0 /\ LastEvent(b, d) = None
  BY <1>1, <1>2, MineIsFinite, LastOfMine
<1> QED BY <1>2, <1>3 DEF MinutesInv, Telescopes, WithinLife

LEMMA EndsOfMore ==
  ASSUME NEW S \in SUBSET Nat, NEW n \in Nat, \A i \in S : i < n
  PROVE  /\ Max(S \cup {n}) = n
         /\ S = {} => Min(S \cup {n}) = n
         /\ S # {} => Min(S \cup {n}) = Min(S) /\ Min(S) \in S
<1> DEFINE T == S \cup {n}
<1>1. T \in SUBSET Nat /\ T # {} /\ n \in T /\ \A x \in T : x <= n
  OBVIOUS
<1>2. Max(T) \in T /\ \A x \in T : x <= Max(T)
  <2> HIDE DEF T
  <2> QED BY <1>1, MaxOf
<1>3. Min(T) \in T /\ \A x \in T : Min(T) <= x
  <2> HIDE DEF T
  <2> QED BY <1>1, MinOf
<1>4. Max(T) = n
  <2> HIDE DEF T
  <2>1. Max(T) \in Nat /\ Max(T) <= n /\ n <= Max(T)
    BY <1>1, <1>2
  <2> QED BY <2>1
<1>5. S = {} => Min(T) = n
  BY <1>3
<1>6. ASSUME S # {} PROVE Min(T) = Min(S) /\ Min(S) \in S
  <2>1. Min(S) \in S /\ \A x \in S : Min(S) <= x
    BY <1>6, MinOf
  <2>2. Min(S) \in T /\ Min(S) \in Nat /\ Min(S) < n
    BY <2>1
  <2> HIDE DEF T
  <2>3. Min(T) <= Min(S) /\ Min(T) \in Nat
    BY <1>1, <1>3, <2>2
  <2>4. Min(T) # n
    BY <2>2, <2>3
  <2>5. Min(T) \in S
    BY <1>3, <2>4 DEF T
  <2>6. Min(S) <= Min(T)
    BY <2>1, <2>5
  <2> QED BY <2>1, <2>2, <2>3, <2>6
<1> QED BY <1>4, <1>5, <1>6

LEMMA TelescopesOn ==
  ASSUME ReadingTypeOK, NEW d \in Devices, NEW b \in Books, Telescopes(d, b), NEW e \in Events,
         events' = Append(events, e), e.device = d, e.book = b,
         NEW r \in Reported, r.spent = e.spent, e.delta = SpentDelta(LastEvent(b, d), r)
  PROVE  Telescopes(d, b)'
<1> DEFINE n == Len(events) + 1
           mine == Mine(d, b)
           new == mine \cup {n}
<1>1. /\ Mine(d, b)' = new /\ Minutes(d, b)' = Minutes(d, b) + e.delta
      /\ events'[n] = e /\ \A i \in mine : i \in Nat /\ i < n /\ events'[i] = events[i]
      /\ mine \subseteq DOMAIN events /\ n \in Nat
  BY OneMore, HistoryIs DEF Mine
<1>2. SUFFICES ASSUME Steady(d, b)'
               PROVE  Minutes(d, b)' = events'[Max(new)].spent - events'[Min(new)].spent
  BY <1>1 DEF Telescopes
<1>3. /\ Max(new) = n
      /\ mine = {} => Min(new) = n
      /\ mine # {} => Min(new) = Min(mine) /\ Min(mine) \in mine
  <2>1. PICK S \in SUBSET Nat : S = mine
    BY <1>1
  <2>2. PICK m \in Nat : m = n
    BY <1>1
  <2> HIDE DEF mine, n
  <2>3. \A i \in S : i < m
    BY <1>1, <2>1, <2>2
  <2> QED BY <2>1, <2>2, <2>3, EndsOfMore
<1>4. e.spent \in Nat
  <2>1. events'[n].spent # None
    BY <1>1, <1>2 DEF Steady
  <2> QED BY <1>1, <2>1, ReadingAssumption DEF Events
<1>5. CASE mine = {}
  <2>1. LastEvent(b, d) = None /\ Minutes(d, b) = 0
    BY <1>5, LastOfMine, MineIsFinite
  <2>2. e.delta = 0
    BY <2>1 DEF SpentDelta
  <2>3. Min(new) = n
    BY <1>3, <1>5
  <2>4. Minutes(d, b)' = 0
    BY <1>1, <2>1, <2>2
  <2>5. events'[Max(new)] = e /\ events'[Min(new)] = e
    BY <1>1, <1>3, <2>3
  <2> QED BY <1>4, <2>4, <2>5
<1>6. CASE mine # {}
  <2>1. /\ Max(mine) \in mine /\ \A i \in mine : i <= Max(mine)
        /\ LastEvent(b, d) = events[Max(mine)] /\ LastEvent(b, d) # None /\ mine \subseteq Nat
    BY <1>6, LastOfMine
  <2>2. Min(new) = Min(mine) /\ Min(mine) \in mine
    BY <1>3, <1>6
  <2>3. Steady(d, b)
    <3>1. \A i \in mine : i \in Mine(d, b)' /\ events'[i] = events[i]
      BY <1>1
    <3> QED BY <1>2, <3>1 DEF Steady
  <2>4. Minutes(d, b) = events[Max(mine)].spent - events[Min(mine)].spent
    BY <1>6, <2>3 DEF Telescopes
  <2>5. events[Max(mine)].spent \in Nat /\ events[Min(mine)].spent \in Nat
    <3>1. \A i \in mine : events[i] \in Events /\ events[i].spent # None
      BY <1>1, <2>3, HistoryIs DEF Steady
    <3>2. \A i \in mine : events[i].spent \in Nat
      BY <3>1, ReadingAssumption DEF Events
    <3> QED BY <2>1, <2>2, <3>2
  <2>6. events[Max(mine)].spent <= e.spent
    <3>1. Max(mine) \in new /\ n \in new /\ Max(mine) < n
      BY <1>1, <2>1
    <3>2. events'[Max(mine)].spent <= events'[n].spent
      BY <1>1, <1>2, <3>1 DEF Steady
    <3> QED BY <1>1, <2>1, <3>2
  <2>7. e.delta = e.spent - events[Max(mine)].spent
    <3>1. LastEvent(b, d).spent # None /\ r.spent # None
      BY <1>4, <2>1, <2>5, NoneIsNothing
    <3>2. e.delta = Max({0, e.spent - events[Max(mine)].spent})
      BY <2>1, <3>1 DEF SpentDelta
    <3>3. PICK x \in Int : x = e.spent - events[Max(mine)].spent
      BY <1>4, <2>5
    <3>4. x >= 0
      BY <1>4, <2>5, <2>6, <3>3
    <3>5. Max({0, x}) = x
      BY <3>3, <3>4, MaxZero
    <3> QED BY <3>2, <3>3, <3>5
  <2>8. events'[Min(new)] = events[Min(mine)]
    BY <1>1, <2>2
  <2>9. Minutes(d, b)' = e.spent - events[Min(mine)].spent
    BY <1>1, <1>4, <2>4, <2>5, <2>7
  <2>10. events'[Max(new)] = e
    BY <1>1, <1>3
  <2> QED BY <2>8, <2>9, <2>10
<1> QED BY <1>5, <1>6

-----------------------------------------------------------------------------
(* Every step keeps them. *)

LEMMA HistoryStays ==
  ASSUME NEW d \in Devices, NEW b \in Books, events' = events
  PROVE  /\ Minutes(d, b)' = Minutes(d, b) /\ LastEvent(b, d)' = LastEvent(b, d)
         /\ Telescopes(d, b) => Telescopes(d, b)'
<1>1. Mine(d, b)' = Mine(d, b)
  BY DEF Mine
<1>2. Minutes(d, b)' = Minutes(d, b)
  BY <1>1 DEF Minutes
<1>3. LastEvent(b, d)' = LastEvent(b, d)
  BY DEF LastEvent
<1> QED BY <1>1, <1>2, <1>3 DEF Telescopes, Steady

LEMMA LifeStays ==
  ASSUME NEW d \in Devices, NEW b \in Books, WithinLife(d, b),
         Minutes(d, b)' = Minutes(d, b), LastEvent(b, d)' = LastEvent(b, d),
         reader'[d][b].spent = reader[d][b].spent, lived'[d][b] = lived[d][b],
         ReportsOn(d, b)' => ReportsOn(d, b) /\ pending'[d] = pending[d]
  PROVE  WithinLife(d, b)'
BY DEF WithinLife

LEMMA EventOfOthers ==
  ASSUME ReadingTypeOK, NEW e \in Events, events' = Append(events, e), NEW d \in Devices, NEW b \in Books,
         ~(e.device = d /\ e.book = b)
  PROVE  /\ Minutes(d, b)' = Minutes(d, b) /\ LastEvent(b, d)' = LastEvent(b, d)
         /\ Telescopes(d, b) => Telescopes(d, b)'
<1>1. /\ Mine(d, b)' = Mine(d, b) /\ Minutes(d, b)' = Minutes(d, b)
      /\ \A i \in Mine(d, b) : events'[i] = events[i]
  BY OneMore DEF Mine
<1>2. LastEvent(b, d)' = LastEvent(b, d)
  <2>1. Mine(d, b) = {i \in DOMAIN events : events[i].book = b /\ events[i].device = d}
    BY DEF Mine
  <2>2. Mine(d, b)' = {i \in DOMAIN events' : events'[i].book = b /\ events'[i].device = d}
    BY DEF Mine
  <2>3. CASE Mine(d, b) = {}
    BY <1>1, <2>1, <2>2, <2>3 DEF LastEvent
  <2>4. CASE Mine(d, b) # {}
    <3>1. LastEvent(b, d) = events[Max(Mine(d, b))] /\ Max(Mine(d, b)) \in Mine(d, b)
      BY <2>4, LastOfMine
    <3>2. LastEvent(b, d)' = events'[Max(Mine(d, b))]
      BY <1>1, <2>2, <2>4 DEF LastEvent
    <3> QED BY <1>1, <3>1, <3>2
  <2> QED BY <2>3, <2>4
<1>3. ASSUME Telescopes(d, b), Mine(d, b) # {}, Steady(d, b)'
      PROVE  Minutes(d, b)' = events'[Max(Mine(d, b))].spent - events'[Min(Mine(d, b))].spent
  <2>1. Steady(d, b)
    BY <1>1, <1>3 DEF Steady
  <2>2. Max(Mine(d, b)) \in Mine(d, b) /\ Min(Mine(d, b)) \in Mine(d, b)
    BY <1>3, LastOfMine, MinOf
  <2> QED BY <1>1, <1>3, <2>1, <2>2 DEF Telescopes
<1> QED BY <1>1, <1>2, <1>3 DEF Telescopes

LEMMA LastIsNew ==
  ASSUME ReadingTypeOK, NEW e \in Events, events' = Append(events, e), NEW d \in Devices, NEW b \in Books,
         e.device = d, e.book = b
  PROVE  LastEvent(b, d)' = e
<1> DEFINE n == Len(events) + 1
<1>1. /\ Mine(d, b)' = Mine(d, b) \cup {n} /\ events'[n] = e
      /\ \A i \in Mine(d, b) : i \in Nat /\ i < n
      /\ n \in Nat
  BY OneMore, HistoryIs
<1>2. Max(Mine(d, b)') = n
  <2>1. PICK S \in SUBSET Nat : S = Mine(d, b)
    BY <1>1
  <2>2. PICK m \in Nat : m = n
    BY <1>1
  <2> HIDE DEF n
  <2> QED BY <1>1, <2>1, <2>2, EndsOfMore
<1>3. Mine(d, b)' = {i \in DOMAIN events' : events'[i].book = b /\ events'[i].device = d}
  BY DEF Mine
<1>4. Mine(d, b)' # {}
  BY <1>1
<1>5. LastEvent(b, d)' = events'[Max(Mine(d, b)')]
  BY <1>3, <1>4 DEF LastEvent
<1> QED BY <1>1, <1>2, <1>5

LEMMA MinutesHoldSave ==
  ASSUME ReadingTypeOK, MinutesInv, NEW d \in Devices, SaveReadingState(d)
  PROVE  MinutesInv'
<1>1. PICK r \in Reported : Saving(d, r)
  BY SaveReadingStateSaves
<1>2. /\ UNCHANGED <<reader, lived, merged>>
      /\ pending \in [Devices -> Reported \cup {None}]
      /\ pending[d] = r /\ r # None /\ pending' = [pending EXCEPT ![d] = None]
      /\ Appended(d, r, events') /\ r.book \in Books
  BY <1>1, NoneIsNothing DEF SaveReadingState, Saving, ReadingTypeOK, Reported
<1>3. \A x \in Devices, c \in Books : ReportsOn(x, c)' => ReportsOn(x, c) /\ pending'[x] = pending[x]
  BY <1>2 DEF ReportsOn
<1>4. ASSUME NEW x \in Devices, NEW c \in Books,
             Minutes(x, c)' = Minutes(x, c), LastEvent(c, x)' = LastEvent(c, x),
             Telescopes(x, c) => Telescopes(x, c)'
      PROVE  Telescopes(x, c)' /\ (c \notin merged' => WithinLife(x, c)')
  BY <1>2, <1>3, <1>4, LifeStays DEF MinutesInv
<1>5. CASE events' = events
  BY <1>4, <1>5, HistoryStays DEF MinutesInv
<1>6. ASSUME NEW e \in Events, events' = Append(events, e), e.book = r.book, e.device = d, e.spent = r.spent,
             e.delta = SpentDelta(LastEvent(r.book, d), r)
      PROVE  MinutesInv'
  <2>1. ASSUME NEW x \in Devices, NEW c \in Books, ~(x = d /\ c = r.book)
        PROVE  Telescopes(x, c)' /\ (c \notin merged' => WithinLife(x, c)')
    BY <1>4, <1>6, <2>1, EventOfOthers
  <2>2. PICK b \in Books : b = r.book
    BY <1>2
  <2>3. Telescopes(d, b)'
    BY <1>6, <2>2, TelescopesOn DEF MinutesInv
  <2>4. LastEvent(b, d)' = e /\ Minutes(d, b)' = Minutes(d, b) + e.delta
    BY <1>6, <2>2, LastIsNew, OneMore
  <2>5. ASSUME b \notin merged
        PROVE  WithinLife(d, b)'
    <3>1. WithinLife(d, b) /\ ReportsOn(d, b)
      BY <1>2, <2>2, <2>5 DEF MinutesInv, ReportsOn
    <3>2. r.spent \in {None, reader[d][b].spent} /\ ~ReportsOn(d, b)'
      BY <1>2, <3>1 DEF WithinLife, ReportsOn
    <3>3. reader[d][b].spent \in Nat /\ lived[d][b] \in Nat /\ Minutes(d, b) \in Nat /\ e.delta \in Nat
      <4>1. reader[d][b] \in Copies /\ lived[d][b] \in Nat
        BY DEF ReadingTypeOK
      <4>2. reader[d][b].spent \in Nat
        BY <4>1, ReadingAssumption DEF Copies
      <4>3. e.delta \in Nat
        BY ReadingAssumption DEF Events
      <4> QED BY <4>1, <4>2, <4>3, MineIsFinite
    <3>4. Minutes(d, b) + e.delta <= lived[d][b]
      <4> DEFINE last == LastEvent(b, d)
      <4>1. CASE last = None \/ r.spent = None \/ last.spent = None
        <5>1. e.delta = 0
          BY <1>6, <2>2, <4>1 DEF SpentDelta
        <5> QED BY <3>1, <3>3, <5>1 DEF WithinLife
      <4>2. CASE ~(last = None \/ r.spent = None \/ last.spent = None)
        <5>1. last \in Events /\ last.spent \in Nat
          <6>1. last \in Events
            BY <4>2, LastOfMine
          <6> QED BY <4>2, <6>1, ReadingAssumption DEF Events
        <5>2. r.spent = reader[d][b].spent
          BY <3>2, <4>2
        <5>3. e.delta = Max({0, reader[d][b].spent - last.spent})
          BY <1>6, <2>2, <4>2, <5>2 DEF SpentDelta
        <5>4. PICK y \in Int : y = reader[d][b].spent - last.spent
          BY <3>3, <5>1
        <5>5. e.delta = IF y > 0 THEN y ELSE 0
          BY <5>3, <5>4, MaxZero
        <5>6. y > 0 => Minutes(d, b) + y <= lived[d][b]
          BY <3>1, <3>3, <4>2, <5>1, <5>4 DEF WithinLife
        <5>7. Minutes(d, b) <= lived[d][b]
          BY <3>1 DEF WithinLife
        <5> QED BY <3>3, <5>5, <5>6, <5>7
      <4> QED BY <4>1, <4>2
    <3>5. ~(e.spent # None /\ e.spent < reader'[d][b].spent)
      BY <1>2, <1>6, <3>2, <3>3
    <3> QED BY <1>2, <2>4, <3>2, <3>4, <3>5 DEF WithinLife
  <2> QED BY <1>2, <2>1, <2>2, <2>3, <2>5 DEF MinutesInv
<1> QED BY <1>2, <1>5, <1>6 DEF Appended

LEMMA MinutesHold ==
  ASSUME ReadingTypeOK, MergesKnown, MinutesInv, [ReadingNext]_readingVars
  PROVE  MinutesInv'
<1>1. ASSUME events' = events,
             \A x \in Devices, c \in Books : c \notin merged' => c \notin merged /\ (WithinLife(x, c) => WithinLife(x, c)')
      PROVE  MinutesInv'
  BY <1>1, HistoryStays DEF MinutesInv
<1>2. ASSUME events' = events, merged \subseteq merged', lived' = lived,
             \A x \in Devices, c \in Books : reader'[x][c].spent = reader[x][c].spent,
             \A x \in Devices, c \in Books : ReportsOn(x, c)' => ReportsOn(x, c) /\ pending'[x] = pending[x]
      PROVE  MinutesInv'
  <2>1. ASSUME NEW x \in Devices, NEW c \in Books, c \notin merged', WithinLife(x, c)
        PROVE  WithinLife(x, c)'
    BY <1>2, <2>1, HistoryStays, LifeStays
  <2> QED BY <1>1, <1>2, <2>1
<1>3. ASSUME NEW d \in Devices, NEW b \in Books, NEW minutes \in 0..1, NEW p \in Positions,
             NEW sections \in Shapes[d], PutState(d, b, minutes, p, sections)
      PROVE  MinutesInv'
  <2>1. PICK copy \in Copies, r \in Reported : Putting(d, b, minutes, sections, copy, r)
    BY <1>3, PutStatePuts
  <2>2. /\ events' = events /\ merged' = merged /\ lived' = [lived EXCEPT ![d][b] = @ + minutes]
        /\ reader \in [Devices -> [Books -> Copies]] /\ pending \in [Devices -> Reported \cup {None}]
        /\ lived \in [Devices -> [Books -> Nat]]
        /\ reader' = [reader EXCEPT ![d] = [reader[d] EXCEPT ![b] = copy]] /\ pending' = [pending EXCEPT ![d] = r]
        /\ r.book = ResolveBookID(b) /\ copy.spent = reader[d][b].spent + minutes /\ r.spent \in {None, copy.spent}
    BY <1>3, <2>1 DEF PutState, Putting, ReadingTypeOK, Reflects
  <2>3. ASSUME NEW x \in Devices, NEW c \in Books, c \notin merged, WithinLife(x, c)
        PROVE  WithinLife(x, c)'
    <3>1. Minutes(x, c)' = Minutes(x, c) /\ LastEvent(c, x)' = LastEvent(c, x)
      BY <2>2, HistoryStays
    <3>2. r.book = c => b = c
      BY <2>2, <2>3, UnmergedIsRoot
    <3>3. CASE ~(x = d /\ c = b)
      <4>1. reader'[x][c].spent = reader[x][c].spent /\ lived'[x][c] = lived[x][c]
        BY <2>2, <3>3
      <4>2. ReportsOn(x, c)' => ReportsOn(x, c) /\ pending'[x] = pending[x]
        BY <2>2, <3>2, <3>3 DEF ReportsOn
      <4> QED BY <2>3, <3>1, <4>1, <4>2, LifeStays
    <3>4. CASE x = d /\ c = b
      <4>1. /\ reader'[x][c] = copy /\ lived'[x][c] = lived[x][c] + minutes /\ pending'[x] = r
            /\ reader[x][c].spent \in Nat /\ lived[x][c] \in Nat /\ Minutes(x, c) \in Nat
        <5>1. reader[x][c] \in Copies
          BY <2>2
        <5>2. reader[x][c].spent \in Nat
          BY <5>1, ReadingAssumption DEF Copies
        <5> QED BY <2>2, <3>4, <5>2, MineIsFinite
      <4>2. LastEvent(c, x) # None => LastEvent(c, x).spent \in Nat \cup {None}
        <5>1. LastEvent(c, x) # None => LastEvent(c, x) \in Events
          BY LastOfMine
        <5> QED BY <5>1, ReadingAssumption DEF Events
      <4>3. Minutes(x, c) <= lived'[x][c]
        BY <2>3, <4>1 DEF WithinLife
      <4>4. ASSUME LastEvent(c, x) # None, LastEvent(c, x).spent # None, LastEvent(c, x).spent < copy.spent
            PROVE  Minutes(x, c) + (copy.spent - LastEvent(c, x).spent) <= lived'[x][c]
        <5>1. PICK l \in Nat : l = LastEvent(c, x).spent
          BY <4>2, <4>4
        <5>2. l < reader[x][c].spent => Minutes(x, c) + (reader[x][c].spent - l) <= lived[x][c]
          BY <2>3, <4>4, <5>1 DEF WithinLife
        <5>3. Minutes(x, c) <= lived[x][c]
          BY <2>3 DEF WithinLife
        <5>4. Minutes(x, c) + (reader[x][c].spent + minutes - l) <= lived[x][c] + minutes
          BY <4>1, <5>2, <5>3
        <5> QED BY <2>2, <3>4, <4>1, <5>1, <5>4
      <4> QED BY <2>2, <3>1, <4>1, <4>3, <4>4 DEF WithinLife
    <3> QED BY <3>3, <3>4
  <2> QED BY <1>1, <2>2, <2>3
<1>4. ASSUME NEW d \in Devices, SaveFails(d)
      PROVE  MinutesInv'
  <2>1. UNCHANGED <<reader, events, lived, merged>> /\ pending' = [pending EXCEPT ![d] = None]
    BY <1>4 DEF SaveFails
  <2>2. \A x \in Devices, c \in Books : ReportsOn(x, c)' => ReportsOn(x, c) /\ pending'[x] = pending[x]
    BY <2>1 DEF ReportsOn, ReadingTypeOK
  <2> QED BY <1>2, <2>1, <2>2
<1>5. ASSUME NEW d \in Devices, Sync(d)
      PROVE  MinutesInv'
  <2>1. UNCHANGED <<pending, events, lived, merged>>
    BY <1>5 DEF Sync
  <2>2. \A copy \in Copies, s \in Progress : Brought(copy, s).spent = copy.spent
    BY DEF Brought, Copies
  <2>3. \A x \in Devices, c \in Books : reader'[x][c].spent = reader[x][c].spent
    BY <1>5, <2>2 DEF Sync, ReadingTypeOK
  <2> QED BY <1>2, <2>1, <2>3 DEF ReportsOn
<1>6. ASSUME NEW s \in Books, NEW l \in Books, MergeBooks(s, l)
      PROVE  MinutesInv'
  <2>1. UNCHANGED <<reader, pending, events, lived>> /\ merged \subseteq merged'
    BY <1>6 DEF MergeBooks
  <2> QED BY <1>2, <2>1 DEF ReportsOn
<1>7. ASSUME NEW d \in Devices, NEW b \in Books, CounterRestarts(d, b)
      PROVE  MinutesInv'
  <2>1. /\ UNCHANGED <<pending, events, lived, merged>> /\ pending[d] = None
        /\ \A x \in Devices, c \in Books : ~(x = d /\ c = b) => reader'[x][c].spent = reader[x][c].spent
        /\ reader'[d][b].spent = 0
    BY <1>7 DEF CounterRestarts, ReadingTypeOK, Copies
  <2>2. ASSUME NEW x \in Devices, NEW c \in Books, WithinLife(x, c)
        PROVE  WithinLife(x, c)'
    <3>1. Minutes(x, c)' = Minutes(x, c) /\ LastEvent(c, x)' = LastEvent(c, x) /\ ReportsOn(x, c)' = ReportsOn(x, c)
      BY <2>1, HistoryStays DEF ReportsOn
    <3>2. CASE ~(x = d /\ c = b)
      BY <2>1, <2>2, <3>1, <3>2, LifeStays
    <3>3. CASE x = d /\ c = b
      <4>1. LastEvent(c, x) # None => LastEvent(c, x).spent \in Nat \cup {None}
        <5>1. LastEvent(c, x) # None => LastEvent(c, x) \in Events
          BY LastOfMine
        <5> QED BY <5>1, ReadingAssumption DEF Events
      <4>2. ~(LastEvent(c, x) # None /\ LastEvent(c, x).spent # None /\ LastEvent(c, x).spent < 0)
        BY <4>1
      <4>3. ~ReportsOn(x, c)
        BY <2>1, <3>3 DEF ReportsOn
      <4> QED BY <2>1, <2>2, <3>1, <3>3, <4>2, <4>3 DEF WithinLife
    <3> QED BY <3>2, <3>3
  <2> QED BY <1>1, <2>1, <2>2
<1>8. CASE Tick \/ UNCHANGED readingVars
  <2>1. UNCHANGED <<reader, pending, events, lived, merged>>
    BY <1>8 DEF Tick, readingVars
  <2> QED BY <1>2, <2>1 DEF ReportsOn
<1> QED BY <1>3, <1>4, <1>5, <1>6, <1>7, <1>8, MinutesHoldSave DEF ReadingNext

(* The history holds no more minutes than were read, and all of them that   *)
(* a counter that never started again tells of.                             *)
THEOREM MinutesAreReal == ReadingSpec => []MinutesAddUp
<1>1. ReadingInit => MinutesInv /\ PlaceInv
  BY MinutesInitially, PlaceInitially
<1>2. ReadingTypeOK /\ PlaceInv /\ MinutesInv /\ [ReadingNext]_readingVars => PlaceInv' /\ MinutesInv'
  BY PlaceHolds, MinutesHold DEF PlaceInv
<1>3. MinutesInv => MinutesAddUp
  BY DEF MinutesInv, Telescopes, Steady, WithinLife, MinutesAddUp
<1> QED BY <1>1, <1>2, <1>3, ReaderTypes, PTL DEF ReadingSpec

-----------------------------------------------------------------------------
(* Days in a row. *)

(* How many days in a row may end on a day.                                 *)
RowsTo(active, t) == {n \in 0..t + 1 : (t - n + 1)..t \subseteq active}

LEMMA MaxIs ==
  ASSUME NEW S \in SUBSET Nat, NEW m \in S, \A x \in S : x <= m
  PROVE  Max(S) = m
<1>1. Max(S) \in S /\ \A x \in S : Max(S) >= x
  BY DEF Max
<1>2. m \in Nat /\ Max(S) \in Nat /\ Max(S) >= m /\ Max(S) <= m
  BY <1>1
<1> QED BY <1>2

LEMMA LongestRow ==
  ASSUME NEW active \in SUBSET Nat, NEW t \in {-1} \cup Nat
  PROVE  /\ RowsTo(active, t) \in SUBSET Nat /\ 0 \in RowsTo(active, t)
         /\ Max(RowsTo(active, t)) \in RowsTo(active, t)
         /\ \A n \in RowsTo(active, t) : n <= Max(RowsTo(active, t))
<1>1. RowsTo(active, t) \in SUBSET Nat /\ t + 1 \in Nat /\ \A n \in RowsTo(active, t) : n <= t + 1
  BY DEF RowsTo
<1>2. 0 \in RowsTo(active, t)
  BY DEF RowsTo
<1> QED BY <1>1, <1>2, MaxOf

LEMMA RowGrows ==
  ASSUME NEW active \in SUBSET Nat, NEW t \in active
  PROVE  Max(RowsTo(active, t)) = 1 + Max(RowsTo(active, t - 1))
<1> DEFINE m == Max(RowsTo(active, t - 1))
<1>1. t \in Nat /\ t - 1 \in {-1} \cup Nat
  OBVIOUS
<1>2. m \in RowsTo(active, t - 1) /\ \A n \in RowsTo(active, t - 1) : n <= m
  BY <1>1, LongestRow
<1> HIDE DEF m
<1>3. m \in Nat /\ m <= t /\ (t - m)..(t - 1) \subseteq active
  <2>1. m \in 0..(t - 1) + 1 /\ ((t - 1) - m + 1)..(t - 1) \subseteq active
    BY <1>2 DEF RowsTo
  <2>2. (t - 1) - m + 1 = t - m /\ (t - 1) + 1 = t
    BY <1>1, <2>1
  <2> QED BY <1>1, <2>1, <2>2
<1>4. 1 + m \in RowsTo(active, t)
  <2>1. t - (1 + m) + 1 = t - m /\ 1 + m \in 0..t + 1
    BY <1>1, <1>3
  <2>2. \A i \in (t - m)..t : i = t \/ i \in (t - m)..(t - 1)
    BY <1>1, <1>3
  <2>3. (t - m)..t \subseteq active
    BY <1>3, <2>2
  <2> QED BY <2>1, <2>3 DEF RowsTo
<1>5. ASSUME NEW n \in RowsTo(active, t)
      PROVE  n <= 1 + m
  <2>1. n \in Nat /\ n <= t + 1 /\ (t - n + 1)..t \subseteq active
    BY <1>1 DEF RowsTo
  <2>2. CASE n = 0
    BY <1>3, <2>2
  <2>3. CASE n # 0
    <3>1. n - 1 \in 0..(t - 1) + 1 /\ (t - 1) - (n - 1) + 1 = t - n + 1
      BY <1>1, <2>1, <2>3
    <3>2. \A i \in (t - n + 1)..(t - 1) : i \in (t - n + 1)..t
      BY <1>1, <2>1
    <3>3. n - 1 \in RowsTo(active, t - 1)
      BY <2>1, <3>1, <3>2 DEF RowsTo
    <3>4. n - 1 <= m
      BY <1>2, <3>3
    <3> QED BY <1>3, <2>1, <3>4
  <2> QED BY <2>2, <2>3
<1>6. RowsTo(active, t) \in SUBSET Nat
  BY <1>1, LongestRow
<1>7. Max(RowsTo(active, t)) = 1 + m
  BY <1>4, <1>5, <1>6, MaxIs
<1> QED BY <1>7 DEF m

LEMMA RowEnds ==
  ASSUME NEW active \in SUBSET Nat, NEW t \in {-1} \cup Nat, t \notin active
  PROVE  Max(RowsTo(active, t)) = 0
<1>1. ASSUME NEW n \in RowsTo(active, t)
      PROVE  n = 0
  <2>1. n \in Nat /\ (t - n + 1)..t \subseteq active
    BY DEF RowsTo
  <2>2. n > 0 => t \in (t - n + 1)..t
    BY <2>1
  <2> QED BY <2>1, <2>2
<1> QED BY <1>1, LongestRow

LEMMA StreakIs ==
  ASSUME NEW active \in SUBSET Nat, NEW today \in Nat
  PROVE  LET ending == IF today \in active THEN today ELSE today - 1
         IN  Streak(active, today) = IF ending < 0 THEN 0 ELSE Max(RowsTo(active, ending))
<1> DEFINE T == -1..today
           Rec(back) == [t \in T |-> IF t \in active THEN 1 + back[t - 1] ELSE 0]
           RowLengths == [t \in T |-> Max(RowsTo(active, t))]
           back == CHOOSE back : back = Rec(back)
           start == IF today \in active THEN today ELSE today - 1
<1>1. Streak(active, today) = IF start < 0 THEN 0 ELSE back[start]
  BY DEF Streak
<1>2. RowLengths = Rec(RowLengths)
  <2>1. ASSUME NEW t \in T
        PROVE  RowLengths[t] = Rec(RowLengths)[t]
    <3>1. CASE t \in active
      <4>1. t - 1 \in T
        BY <3>1
      <4>2. RowLengths[t] = 1 + RowLengths[t - 1]
        BY <3>1, <4>1, RowGrows
      <4> QED BY <3>1, <4>2
    <3>2. CASE t \notin active
      <4>1. t \in {-1} \cup Nat
        OBVIOUS
      <4>2. Max(RowsTo(active, t)) = 0
        BY <3>2, <4>1, RowEnds
      <4> QED BY <3>2, <4>2
    <3> QED BY <3>1, <3>2
  <2> QED BY <2>1
<1>3. back = Rec(back)
  <2> HIDE DEF Rec, RowLengths
  <2> QED BY <1>2
<1> HIDE DEF back
<1>4. \A t \in T : back[t] = RowLengths[t]
  <2> DEFINE Bad == {n \in Nat : n - 1 \in T /\ back[n - 1] # RowLengths[n - 1]}
  <2>1. SUFFICES ASSUME Bad # {} PROVE FALSE
    <3>1. ASSUME NEW t \in T, back[t] # RowLengths[t]
          PROVE  t + 1 \in Bad
      <4>1. t + 1 \in Nat /\ (t + 1) - 1 = t
        OBVIOUS
      <4> QED BY <3>1, <4>1
    <3> QED BY <3>1
  <2>2. PICK n \in Bad : \A m \in Bad : n <= m
    BY <2>1, LeastOf
  <2>3. PICK t \in T : t = n - 1 /\ n \in Nat
    OBVIOUS
  <2>4. back[t] # RowLengths[t]
    BY <2>3
  <2>5. t \in active
    BY <1>2, <1>3, <2>4
  <2>6. t - 1 \in T /\ n - 1 \in Nat /\ (n - 1) - 1 = t - 1 /\ ~(n <= n - 1)
    BY <2>3, <2>5
  <2>7. back[t - 1] = RowLengths[t - 1]
    <3>1. n - 1 \notin Bad
      <4> HIDE DEF Bad
      <4> QED BY <2>2, <2>6
    <3> QED BY <2>6, <3>1
  <2>8. back[t] = 1 + back[t - 1] /\ RowLengths[t] = 1 + RowLengths[t - 1]
    <3>1. Rec(back)[t] = 1 + back[t - 1] /\ Rec(RowLengths)[t] = 1 + RowLengths[t - 1]
      BY <2>5
    <3> HIDE DEF Rec, RowLengths
    <3> QED BY <1>2, <1>3, <3>1
  <2> QED BY <2>4, <2>7, <2>8
<1>5. start >= 0 => start \in T
  OBVIOUS
<1>6. start >= 0 => back[start] = Max(RowsTo(active, start))
  BY <1>4, <1>5
<1>7. start \in Int
  OBVIOUS
<1> QED BY <1>1, <1>6, <1>7

-----------------------------------------------------------------------------
(* The longest row, as it is computed. *)

(* The longest row that ends on one of some days.                           *)
RowsOn(active, S) == {0} \cup UNION {RowsTo(active, t) : t \in S}
UpTo(active, t) == {u \in active : u <= t}

(* What runs has made of the days up to one: the row it is in, the last day *)
(* of reading, and the longest row.                                         *)
RunsUpTo(active, t) ==
  IF UpTo(active, t) = {} THEN [run |-> 0, prev |-> None, longest |-> 0]
  ELSE [run |-> Max(RowsTo(active, Max(UpTo(active, t)))), prev |-> Max(UpTo(active, t)),
        longest |-> Max(RowsOn(active, UpTo(active, t)))]

LEMMA RowsOnOK ==
  ASSUME NEW active \in SUBSET Nat, NEW t \in {-1} \cup Nat
  PROVE  LET S == UpTo(active, t)
         IN  /\ RowsOn(active, S) \in SUBSET Nat
             /\ Max(RowsOn(active, S)) \in RowsOn(active, S)
             /\ \A n \in RowsOn(active, S) : n <= Max(RowsOn(active, S))
             /\ S # {} => Max(S) \in S /\ \A u \in S : u <= Max(S)
<1> DEFINE S == UpTo(active, t)
<1>1. \A u \in S : u \in Nat /\ u <= t /\ t \in Nat
  BY DEF UpTo
<1>2. \A u \in S : RowsTo(active, u) \in SUBSET Nat /\ \A n \in RowsTo(active, u) : n <= t + 1
  <2>1. ASSUME NEW u \in S, NEW n \in RowsTo(active, u)
        PROVE  n \in Nat /\ n <= t + 1
    <3>1. n \in 0..u + 1 /\ u \in Nat /\ u <= t /\ t \in Nat
      BY <1>1 DEF RowsTo
    <3> QED BY <3>1
  <2> QED BY <2>1
<1>3. RowsOn(active, S) \in SUBSET Nat /\ 0 \in RowsOn(active, S)
  BY <1>2 DEF RowsOn
<1>4. t + 1 \in Nat /\ \A n \in RowsOn(active, S) : n <= t + 1
  BY <1>2 DEF RowsOn
<1>5. Max(RowsOn(active, S)) \in RowsOn(active, S) /\ \A n \in RowsOn(active, S) : n <= Max(RowsOn(active, S))
  BY <1>3, <1>4, MaxOf
<1>6. ASSUME S # {} PROVE Max(S) \in S /\ \A u \in S : u <= Max(S)
  <2>1. S \in SUBSET Nat /\ t \in Nat /\ \A u \in S : u <= t
    BY <1>1, <1>6
  <2> HIDE DEF S
  <2> QED BY <1>6, <2>1, MaxOf
<1> QED BY <1>3, <1>5, <1>6

LEMMA MaxOfTwo ==
  ASSUME NEW x \in Nat, NEW y \in Nat
  PROVE  Max({x, y}) = IF x >= y THEN x ELSE y
<1> DEFINE m == IF x >= y THEN x ELSE y
<1>1. {x, y} \in SUBSET Nat /\ m \in {x, y} /\ \A z \in {x, y} : z <= m
  OBVIOUS
<1>2. Max({x, y}) = m
  <2> HIDE DEF m
  <2> QED BY <1>1, MaxIs
<1> QED BY <1>2

(* A day without reading changes nothing.                                   *)
LEMMA IdleDay ==
  ASSUME NEW active \in SUBSET Nat, NEW t \in Nat, t \notin active
  PROVE  RunsUpTo(active, t) = RunsUpTo(active, t - 1)
<1>1. \A u \in active : u <= t <=> u <= t - 1
  <2> TAKE u \in active
  <2>1. u \in Nat /\ u # t
    OBVIOUS
  <2> QED BY <2>1
<1>2. UpTo(active, t) = UpTo(active, t - 1)
  BY <1>1 DEF UpTo
<1> QED BY <1>2 DEF RunsUpTo

Gap(s, t) == s.prev # None /\ 24 * (t - s.prev) > 36

(* A day of reading is in a row with the day before, if that was one, and alone otherwise. *)
LEMMA ReadingDay ==
  ASSUME NEW active \in SUBSET Nat, NEW t \in active
  PROVE  LET s   == RunsUpTo(active, t - 1)
             run == IF Gap(s, t) THEN 1 ELSE s.run + 1
         IN  RunsUpTo(active, t) = [run |-> run, prev |-> t, longest |-> Max({run, s.longest})]
<1> DEFINE before == UpTo(active, t - 1)
           s == RunsUpTo(active, t - 1)
           run == IF Gap(s, t) THEN 1 ELSE s.run + 1
           row == Max(RowsTo(active, t))
           most == Max(RowsOn(active, before))
<1>1. t \in Nat /\ t - 1 \in {-1} \cup Nat
  OBVIOUS
<1>2. UpTo(active, t) = before \cup {t} /\ \A u \in before : u \in Nat /\ u <= t - 1
  <2>1. \A u \in active : u \in Nat /\ (u <= t <=> u <= t - 1 \/ u = t)
    <3> TAKE u \in active
    <3>1. u \in Nat
      OBVIOUS
    <3> QED BY <1>1, <3>1
  <2> QED BY <1>1, <2>1 DEF UpTo
<1>3. /\ RowsOn(active, before) \in SUBSET Nat
      /\ most \in RowsOn(active, before) /\ \A n \in RowsOn(active, before) : n <= most
      /\ before # {} => Max(before) \in before /\ \A u \in before : u <= Max(before)
  BY <1>1, RowsOnOK
<1>4. Max(UpTo(active, t)) = t
  <2>1. before \cup {t} \in SUBSET Nat /\ \A u \in before \cup {t} : u <= t
    BY <1>1, <1>2
  <2> HIDE DEF before
  <2>2. Max(before \cup {t}) = t
    BY <1>1, <2>1, MaxIs
  <2> QED BY <1>2, <2>2
<1>5. row \in Nat /\ row \in RowsTo(active, t) /\ \A n \in RowsTo(active, t) : n <= row
  BY <1>1, LongestRow
<1>6. row = 1 + Max(RowsTo(active, t - 1))
  BY RowGrows
<1>7. run = row
  <2>1. CASE t - 1 \in active
    <3>1. t - 1 \in before /\ Max(before) = t - 1
      <4>1. t - 1 \in before
        BY <1>1, <2>1 DEF UpTo
      <4>2. Max(before) \in before /\ t - 1 <= Max(before)
        BY <1>3, <4>1
      <4>3. Max(before) \in Nat /\ Max(before) <= t - 1
        BY <1>2, <4>2
      <4> QED BY <1>1, <4>1, <4>2, <4>3
    <3>2. s.run = Max(RowsTo(active, t - 1)) /\ s.prev = t - 1
      BY <3>1 DEF RunsUpTo
    <3>3. ~Gap(s, t)
      <4> HIDE DEF s
      <4> QED BY <1>1, <3>2 DEF Gap
    <3>4. Max(RowsTo(active, t - 1)) \in Nat
      BY <1>1, LongestRow
    <3> HIDE DEF s, row
    <3> QED BY <1>6, <3>2, <3>3, <3>4
  <2>2. CASE t - 1 \notin active
    <3>1. row = 1
      BY <1>1, <1>6, <2>2, RowEnds
    <3>2. CASE before = {}
      <4>1. s.run = 0 /\ s.prev = None
        BY <3>2 DEF RunsUpTo
      <4> HIDE DEF s, row
      <4> QED BY <3>1, <4>1 DEF Gap
    <3>3. CASE before # {}
      <4>1. s.prev = Max(before)
        BY <3>3 DEF RunsUpTo
      <4>2. Max(before) \in before /\ Max(before) # t - 1
        BY <1>3, <2>2, <3>3 DEF UpTo
      <4>3. PICK p \in Nat : p = Max(before) /\ p <= t - 2
        BY <1>1, <1>2, <4>2
      <4>4. p # None
        BY NoneIsNothing
      <4>5. Gap(s, t)
        <5> HIDE DEF s
        <5> QED BY <1>1, <4>1, <4>3, <4>4 DEF Gap
      <4> HIDE DEF s, row
      <4> QED BY <3>1, <4>5
    <3> QED BY <3>2, <3>3
  <2> QED BY <2>1, <2>2
<1>8. s.longest = most /\ most \in Nat
  <2>1. CASE before # {}
    BY <1>3, <2>1 DEF RunsUpTo
  <2>2. CASE before = {}
    <3>1. RowsOn(active, before) = {0}
      BY <2>2 DEF RowsOn
    <3>2. most = 0
      BY <1>3, <3>1
    <3> QED BY <2>2, <3>2 DEF RunsUpTo
  <2> QED BY <2>1, <2>2
<1>9. Max(RowsOn(active, UpTo(active, t))) = Max({row, most})
  <2> DEFINE all == RowsOn(active, UpTo(active, t))
             m == IF row >= most THEN row ELSE most
  <2>1. all = RowsOn(active, before) \cup RowsTo(active, t)
    BY <1>2 DEF RowsOn
  <2> HIDE DEF all, before, row, most
  <2>2. RowsTo(active, t) \in SUBSET Nat
    BY <1>1, LongestRow
  <2>3. all \in SUBSET Nat /\ m \in all
    BY <1>3, <1>5, <2>1, <2>2
  <2>4. \A n \in all : n <= m
    <3> TAKE n \in all
    <3>1. n \in Nat /\ (n <= most \/ n <= row)
      BY <1>3, <1>5, <2>1, <2>3
    <3> QED BY <1>5, <1>8, <3>1
  <2>5. Max(all) = m
    <3> HIDE DEF m
    <3> QED BY <2>3, <2>4, MaxIs
  <2>6. Max({row, most}) = m
    BY <1>5, <1>8, MaxOfTwo
  <2> QED BY <2>5, <2>6 DEF all
<1>10. UpTo(active, t) # {}
  BY <1>2
<1>11. RunsUpTo(active, t) = [run |-> row, prev |-> t, longest |-> Max({row, most})]
  BY <1>4, <1>9, <1>10 DEF RunsUpTo
<1> HIDE DEF row, s, most, run
<1>12. RunsUpTo(active, t) = [run |-> run, prev |-> t, longest |-> Max({run, s.longest})]
  BY <1>7, <1>8, <1>11
<1> QED BY <1>12 DEF run, s

LEMMA LastDay == DayOf(MaxTime) \in Nat
<1>1. MaxTime \in Nat /\ HoursPerDay \in Nat /\ HoursPerDay >= 1
  BY ReadingAssumption
<1> QED BY <1>1 DEF DayOf

LEMMA LongestRunIs ==
  ASSUME NEW active \in SUBSET Days
  PROVE  LongestRun(active) = Max({0} \cup UNION {RowsTo(active, t) : t \in active})
<1> DEFINE T == {-1} \cup Days
           Step(s, t) == LET run == IF s.prev # None /\ 24 * (t - s.prev) > 36 THEN 1 ELSE s.run + 1
                         IN  [run |-> run, prev |-> t, longest |-> Max({run, s.longest})]
           Rec(upTo) == [t \in T |->
                           IF t = -1 THEN [run |-> 0, prev |-> None, longest |-> 0]
                           ELSE IF t \notin active THEN upTo[t - 1] ELSE Step(upTo[t - 1], t)]
           Runs == [t \in T |-> RunsUpTo(active, t)]
           upTo == CHOOSE upTo : upTo = Rec(upTo)
<1>1. LongestRun(active) = upTo[DayOf(MaxTime)].longest
  BY DEF LongestRun
<1>2. Days = 0..DayOf(MaxTime) /\ DayOf(MaxTime) \in Nat /\ active \in SUBSET Nat
  BY LastDay DEF Days
<1>3. \A t \in Days : t \in Nat /\ t # -1 /\ t - 1 \in T /\ t \in T
  BY <1>2
<1>4. ASSUME NEW t \in active
      PROVE  RunsUpTo(active, t) = Step(RunsUpTo(active, t - 1), t)
  BY <1>2, ReadingDay DEF Gap
<1>5. RunsUpTo(active, -1) = [run |-> 0, prev |-> None, longest |-> 0]
  <2>1. \A u \in active : u \in Nat
    BY <1>2
  <2>2. UpTo(active, -1) = {}
    BY <2>1 DEF UpTo
  <2> QED BY <2>2 DEF RunsUpTo
<1> HIDE DEF Step
<1>6. Runs = Rec(Runs)
  <2>1. ASSUME NEW t \in T
        PROVE  Runs[t] = Rec(Runs)[t]
    <3>1. CASE t = -1
      BY <1>5, <3>1
    <3>2. CASE t # -1 /\ t \notin active
      <4>1. t \in Nat /\ t - 1 \in T
        BY <1>3, <3>2
      <4>2. RunsUpTo(active, t) = RunsUpTo(active, t - 1)
        BY <1>2, <3>2, <4>1, IdleDay
      <4> QED BY <3>2, <4>1, <4>2
    <3>3. CASE t # -1 /\ t \in active
      <4>1. t - 1 \in T
        BY <1>3, <3>3
      <4> QED BY <1>4, <3>3, <4>1
    <3> QED BY <3>1, <3>2, <3>3
  <2> QED BY <2>1
<1>7. upTo = Rec(upTo)
  <2> HIDE DEF Rec, Runs
  <2> QED BY <1>6
<1> HIDE DEF upTo
<1>8. \A t \in T : upTo[t] = Runs[t]
  <2> DEFINE Bad == {n \in Nat : n - 1 \in T /\ upTo[n - 1] # Runs[n - 1]}
  <2>1. SUFFICES ASSUME Bad # {} PROVE FALSE
    <3>1. ASSUME NEW t \in T, upTo[t] # Runs[t]
          PROVE  t + 1 \in Bad
      <4>1. t + 1 \in Nat /\ (t + 1) - 1 = t
        BY <1>3
      <4> QED BY <3>1, <4>1
    <3> QED BY <3>1
  <2>2. PICK n \in Bad : \A m \in Bad : n <= m
    BY <2>1, LeastOf
  <2>3. PICK t \in T : t = n - 1 /\ n \in Nat
    OBVIOUS
  <2>4. upTo[t] # Runs[t]
    BY <2>3
  <2>5. t \in Days
    <3>1. t = -1 => Rec(upTo)[t] = Rec(Runs)[t]
      OBVIOUS
    <3> HIDE DEF Rec, Runs
    <3> QED BY <1>6, <1>7, <2>4, <3>1
  <2>6. t - 1 \in T /\ n - 1 \in Nat /\ (n - 1) - 1 = t - 1 /\ ~(n <= n - 1)
    BY <1>3, <2>3, <2>5
  <2>7. upTo[t - 1] = Runs[t - 1]
    <3>1. n - 1 \notin Bad
      <4> HIDE DEF Bad
      <4> QED BY <2>2, <2>6
    <3> QED BY <2>6, <3>1
  <2>8. Rec(upTo)[t] = Rec(Runs)[t]
    <3> HIDE DEF Runs
    <3> QED BY <1>3, <2>5, <2>7
  <2> HIDE DEF Rec, Runs
  <2> QED BY <1>6, <1>7, <2>4, <2>8
<1>9. UpTo(active, DayOf(MaxTime)) = active
  <2>1. \A u \in active : u <= DayOf(MaxTime)
    BY <1>2
  <2> QED BY <2>1 DEF UpTo
<1>10. DayOf(MaxTime) \in T
  BY <1>2
<1>11. upTo[DayOf(MaxTime)] = RunsUpTo(active, DayOf(MaxTime))
  BY <1>8, <1>10
<1>12. RunsUpTo(active, DayOf(MaxTime)).longest = Max(RowsOn(active, active))
  <2>1. CASE active # {}
    BY <1>9, <2>1 DEF RunsUpTo
  <2>2. CASE active = {}
    <3>1. RowsOn(active, active) = {0}
      BY <2>2 DEF RowsOn
    <3>2. Max({0}) = 0
      BY MaxIs
    <3> QED BY <1>9, <2>2, <3>1, <3>2 DEF RunsUpTo
  <2> QED BY <2>1, <2>2
<1> QED BY <1>1, <1>11, <1>12 DEF RowsOn

LEMMA DayIsNatural ==
  ASSUME NEW t \in Nat
  PROVE  DayOf(t) \in Nat
<1>1. HoursPerDay \in Nat /\ HoursPerDay >= 1
  BY ReadingAssumption
<1> QED BY <1>1 DEF DayOf

(* The one pass over the days of reading, and the walk back from today,     *)
(* find the longest rows of days there are.                                 *)
THEOREM StreaksAreRight == ReadingSpec => []StreakIsRight
<1>1. ReadingTypeOK => StreakIsRight
  <2> SUFFICES ASSUME ReadingTypeOK PROVE StreakIsRight
    OBVIOUS
  <2>1. PICK active \in SUBSET Days : active = Active(ReaderStats([b \in Books |-> 0]).days)
    BY DEF Active
  <2>2. PICK today \in Nat : today = DayOf(now)
    BY DayIsNatural, ReadingAssumption DEF ReadingTypeOK, Times
  <2>3. active \in SUBSET Nat
    BY LastDay DEF Days
  <2>4. Streak(active, today) = LET ending == IF today \in active THEN today ELSE today - 1
                                IN  IF ending < 0 THEN 0 ELSE Max(RowsTo(active, ending))
    BY <2>3, StreakIs
  <2>5. LongestRun(active) = Max({0} \cup UNION {RowsTo(active, t) : t \in active})
    BY LongestRunIs
  <2> QED BY <2>1, <2>2, <2>4, <2>5 DEF StreakIsRight, RowsTo
<1> QED BY <1>1, ReaderTypes, PTL

-----------------------------------------------------------------------------
(* The two pages, report by report. *)

ReaderAfter(index, u, i) ==
  IF i = 0 THEN NoReaderStats ELSE AddToReader(index, u[i - 1], events[i])

BookAfter(index, b, u, i) ==
  IF i = 0 THEN NoBookStats
  ELSE IF events[i].book # b THEN u[i - 1] ELSE AddToBook(index, u[i - 1], events[i])

ReaderUpTo(index) == CHOOSE u : u = [i \in 0..Len(events) |-> ReaderAfter(index, u, i)]
BookUpTo(index, b) == CHOOSE u : u = [i \in 0..Len(events) |-> BookAfter(index, b, u, i)]

LEMMA ReaderPages ==
  ASSUME ReadingTypeOK, NEW index
  PROVE  /\ ReaderStats(index) = ReaderUpTo(index)[Len(events)]
         /\ ReaderUpTo(index)[0] = NoReaderStats
         /\ \A i \in 1..Len(events) :
              ReaderUpTo(index)[i] = AddToReader(index, ReaderUpTo(index)[i - 1], events[i])
<1> DEFINE n == Len(events)
           Good(u, m) == \A i \in 0..m : u[i] = ReaderAfter(index, u, i)
           Bad == {m \in Nat : m <= n /\ ~\E u : Good(u, m)}
<1>1. n \in Nat
  BY HistoryIs
<1>2. \E u : Good(u, n)
  <2>1. SUFFICES ASSUME Bad # {} PROVE FALSE
    BY <1>1
  <2>2. PICK m \in Bad : \A k \in Bad : m <= k
    BY <2>1, LeastOf
  <2>3. m \in Nat /\ m <= n /\ ~\E u : Good(u, m)
    OBVIOUS
  <2>4. CASE m = 0
    <3>1. Good([i \in 0..0 |-> NoReaderStats], 0)
      BY DEF ReaderAfter
    <3> QED BY <2>3, <2>4, <3>1
  <2>5. CASE m # 0
    <3>1. m - 1 \in Nat /\ m - 1 <= n /\ ~(m <= m - 1)
      BY <1>1, <2>3, <2>5
    <3>2. PICK u : Good(u, m - 1)
      <4>1. m - 1 \notin Bad
        <5> HIDE DEF Bad
        <5> QED BY <2>2, <3>1
      <4> QED BY <3>1, <4>1
    <3> DEFINE v == [i \in 0..m |-> IF i < m THEN u[i] ELSE ReaderAfter(index, u, m)]
    <3>3. ASSUME NEW i \in 0..m
          PROVE  v[i] = ReaderAfter(index, v, i)
      <4>1. i # 0 => v[i - 1] = u[i - 1]
        BY <2>3
      <4>2. ReaderAfter(index, v, i) = ReaderAfter(index, u, i)
        <5> HIDE DEF v
        <5> QED BY <4>1 DEF ReaderAfter
      <4>3. i < m => i \in 0..m - 1
        BY <2>3
      <4>4. v[i] = ReaderAfter(index, u, i)
        BY <2>3, <3>2, <4>3
      <4> QED BY <4>2, <4>4
    <3> QED BY <2>3, <3>3
  <2> QED BY <2>4, <2>5
<1>3. PICK u : Good(u, n)
  BY <1>2
<1> DEFINE v == [i \in 0..n |-> u[i]]
<1>4. v = [i \in 0..n |-> ReaderAfter(index, v, i)]
  <2>1. ASSUME NEW i \in 0..n
        PROVE  u[i] = ReaderAfter(index, v, i)
    <3>1. i # 0 => v[i - 1] = u[i - 1]
      BY <1>1
    <3>2. ReaderAfter(index, v, i) = ReaderAfter(index, u, i)
      <4> HIDE DEF v
      <4> QED BY <3>1 DEF ReaderAfter
    <3> QED BY <1>3, <3>2
  <2> QED BY <2>1
<1>5. ReaderUpTo(index) = [i \in 0..n |-> ReaderAfter(index, ReaderUpTo(index), i)]
  <2> HIDE DEF v
  <2> QED BY <1>4 DEF ReaderUpTo
<1>6. ReaderStats(index) = ReaderUpTo(index)[n]
  BY DEF ReaderStats, ReaderUpTo, ReaderAfter
<1>7. \A i \in 0..n : ReaderUpTo(index)[i] = ReaderAfter(index, ReaderUpTo(index), i)
  BY <1>5
<1> QED BY <1>1, <1>6, <1>7 DEF ReaderAfter

LEMMA BookPages ==
  ASSUME ReadingTypeOK, NEW index, NEW b \in Books
  PROVE  /\ BookStats(index, b) = BookUpTo(index, b)[Len(events)]
         /\ BookUpTo(index, b)[0] = NoBookStats
         /\ \A i \in 1..Len(events) :
              BookUpTo(index, b)[i] = IF events[i].book # b THEN BookUpTo(index, b)[i - 1]
                                      ELSE AddToBook(index, BookUpTo(index, b)[i - 1], events[i])
<1> DEFINE n == Len(events)
           Good(u, m) == \A i \in 0..m : u[i] = BookAfter(index, b, u, i)
           Bad == {m \in Nat : m <= n /\ ~\E u : Good(u, m)}
<1>1. n \in Nat
  BY HistoryIs
<1>2. \E u : Good(u, n)
  <2>1. SUFFICES ASSUME Bad # {} PROVE FALSE
    BY <1>1
  <2>2. PICK m \in Bad : \A k \in Bad : m <= k
    BY <2>1, LeastOf
  <2>3. m \in Nat /\ m <= n /\ ~\E u : Good(u, m)
    OBVIOUS
  <2>4. CASE m = 0
    <3>1. Good([i \in 0..0 |-> NoBookStats], 0)
      BY DEF BookAfter
    <3> QED BY <2>3, <2>4, <3>1
  <2>5. CASE m # 0
    <3>1. m - 1 \in Nat /\ m - 1 <= n /\ ~(m <= m - 1)
      BY <1>1, <2>3, <2>5
    <3>2. PICK u : Good(u, m - 1)
      <4>1. m - 1 \notin Bad
        <5> HIDE DEF Bad
        <5> QED BY <2>2, <3>1
      <4> QED BY <3>1, <4>1
    <3> DEFINE v == [i \in 0..m |-> IF i < m THEN u[i] ELSE BookAfter(index, b, u, m)]
    <3>3. ASSUME NEW i \in 0..m
          PROVE  v[i] = BookAfter(index, b, v, i)
      <4>1. i # 0 => v[i - 1] = u[i - 1]
        BY <2>3
      <4>2. BookAfter(index, b, v, i) = BookAfter(index, b, u, i)
        <5> HIDE DEF v
        <5> QED BY <4>1 DEF BookAfter
      <4>3. i < m => i \in 0..m - 1
        BY <2>3
      <4>4. v[i] = BookAfter(index, b, u, i)
        BY <2>3, <3>2, <4>3
      <4> QED BY <4>2, <4>4
    <3> QED BY <2>3, <3>3
  <2> QED BY <2>4, <2>5
<1>3. PICK u : Good(u, n)
  BY <1>2
<1> DEFINE v == [i \in 0..n |-> u[i]]
<1>4. v = [i \in 0..n |-> BookAfter(index, b, v, i)]
  <2>1. ASSUME NEW i \in 0..n
        PROVE  u[i] = BookAfter(index, b, v, i)
    <3>1. i # 0 => v[i - 1] = u[i - 1]
      BY <1>1
    <3>2. BookAfter(index, b, v, i) = BookAfter(index, b, u, i)
      <4> HIDE DEF v
      <4> QED BY <3>1 DEF BookAfter
    <3> QED BY <1>3, <3>2
  <2> QED BY <2>1
<1>5. BookUpTo(index, b) = [i \in 0..n |-> BookAfter(index, b, BookUpTo(index, b), i)]
  <2> HIDE DEF v
  <2> QED BY <1>4 DEF BookUpTo
<1>6. BookStats(index, b) = BookUpTo(index, b)[n]
  BY DEF BookStats, BookUpTo, BookAfter
<1>7. \A i \in 0..n : BookUpTo(index, b)[i] = BookAfter(index, b, BookUpTo(index, b), i)
  BY <1>5
<1> QED BY <1>1, <1>6, <1>7 DEF BookAfter

-----------------------------------------------------------------------------
(* What one report adds to either page. *)

(* What one report adds to either page.                                     *)
LEMMA OffsetOK ==
  ASSUME NEW index \in Indexes, NEW e \in Events
  PROVE  ResolveOffset(index, e) \in Nat \cup {None}
<1>1. e.book \in Books /\ e.percent \in Percents \cup {None} /\ e.span \in Positions \cup {None}
  BY DEF Events
<1>2. index[e.book] \in {0} \cup DOMAIN Measured
  BY <1>1, ReadingAssumption
<1>3. CASE index[e.book] = 0
  BY <1>3 DEF ResolveOffset
<1>4. CASE index[e.book] # 0
  <2>1. PICK m : m = Measured[index[e.book]]
    OBVIOUS
  <2>2. /\ m.words \in Nat /\ \A p \in DOMAIN m.block : m.block[p] \in Nat
        /\ \A c \in DOMAIN m.doc : m.doc[c] \in Nat
    BY <1>2, <1>4, <2>1, ReadingAssumption
  <2>3. e.percent # None => (e.percent * m.words) \div 100 \in Nat
    <3>1. SUFFICES ASSUME e.percent # None PROVE (e.percent * m.words) \div 100 \in Nat
      OBVIOUS
    <3>2. PICK x \in Nat : x = e.percent * m.words
      BY <1>1, <2>2, <3>1 DEF Percents
    <3> QED BY <3>2
  <2>4. ResolveOffset(index, e) =
          IF e.span # None /\ e.span \in DOMAIN m.block THEN m.block[e.span]
          ELSE IF e.span # None /\ DocOf[e.span] \in DOMAIN m.doc THEN m.doc[DocOf[e.span]]
          ELSE IF m.words > 0 /\ e.percent # None THEN (e.percent * m.words) \div 100 ELSE None
    BY <1>4, <2>1 DEF ResolveOffset
  <2> QED BY <2>2, <2>3, <2>4
<1> QED BY <1>3, <1>4

LEMMA WordsOK ==
  ASSUME NEW index \in Indexes, NEW e \in Events, NEW before \in Nat \cup {None}
  PROVE  Words(index, e, before) \in [minutes : Nat, measured : Nat, words : Nat]
<1>1. PICK offset \in Nat \cup {None} : offset = ResolveOffset(index, e)
  BY OffsetOK
<1>2. e.delta \in Nat /\ MaxSaneWPM \in Nat
  BY ReadingAssumption DEF Events
<1> DEFINE far == IF None \in {offset, before} THEN 0 ELSE Max({0, offset - before})
           absurd == e.delta > 0 /\ far > MaxSaneWPM * e.delta
<1>3. far \in Nat
  <2>1. ASSUME None \notin {offset, before}
        PROVE  Max({0, offset - before}) \in Nat
    <3>1. offset - before \in Int
      BY <2>1
    <3>2. PICK x \in Int : x = offset - before
      BY <3>1
    <3>3. Max({0, x}) \in Nat
      BY MaxZero
    <3> QED BY <3>2, <3>3
  <2> QED BY <2>1
<1>4. Words(index, e, before) =
        [minutes  |-> e.delta,
         measured |-> IF None \in {offset, before} \/ absurd THEN 0 ELSE e.delta,
         words    |-> IF absurd THEN 0 ELSE far]
  BY <1>1 DEF Words
<1> HIDE DEF far, absurd
<1> QED BY <1>2, <1>3, <1>4

Sittings == [start : Nat, end : Nat, minutes : Nat]

(* A page of a book, as far as the page of the reader is compared with it.  *)
BookPage(p) ==
  /\ p.reports \in Nat /\ p.minutes \in Nat /\ p.measured \in Nat /\ p.words \in Nat
  /\ p.sessions \in Seq(Sittings) /\ p.at \in [Devices -> Nat \cup {None}]

SumsAgree(S, P) ==
  /\ S.reports  = SumOf([b \in Books |-> P[b].reports])
  /\ S.minutes  = SumOf([b \in Books |-> P[b].minutes])
  /\ S.measured = SumOf([b \in Books |-> P[b].measured])
  /\ S.words    = SumOf([b \in Books |-> P[b].words])
  /\ S.sessions = SumOf([b \in Books |-> Len(P[b].sessions)])

Whereabouts(S, P) ==
  /\ S.last = [b \in Books |-> IF P[b].sessions = <<>> THEN None ELSE Last(P[b].sessions).end]
  /\ S.at = [x \in Books \X Devices |-> P[x[1]].at[x[2]]]

Calendar(S, today) ==
  /\ S.days \in [Days -> Nat] /\ S.hours \in [0..HoursPerDay - 1 -> Nat]
  /\ S.minutes = SumOf(S.days) /\ S.minutes = SumOf(S.hours)
  /\ \A t \in Days : S.days[t] > 0 => t <= today

Joins(e, p) == p.sessions # <<>> /\ e.at - Last(p.sessions).end <= SessionGap
When(e)     == IF e.deviceAt = None THEN e.at ELSE e.deviceAt

BookStep(index, e, p, got, next) ==
  /\ BookPage(next)
  /\ next.reports = p.reports + 1 /\ next.minutes = p.minutes + got.minutes
  /\ next.measured = p.measured + got.measured /\ next.words = p.words + got.words
  /\ next.sessions # <<>> /\ Last(next.sessions).end = e.at
  /\ Len(next.sessions) = IF Joins(e, p) THEN Len(p.sessions) ELSE Len(p.sessions) + 1
  /\ next.at = IF ResolveOffset(index, e) = None THEN p.at
               ELSE [p.at EXCEPT ![e.device] = ResolveOffset(index, e)]

ReaderStep(index, e, p, got, S, next) ==
  /\ next.reports = S.reports + 1 /\ next.minutes = S.minutes + got.minutes
  /\ next.measured = S.measured + got.measured /\ next.words = S.words + got.words
  /\ next.sessions = IF Joins(e, p) THEN S.sessions ELSE S.sessions + 1
  /\ next.days = [S.days EXCEPT ![DayOf(When(e))] = S.days[DayOf(When(e))] + got.minutes]
  /\ next.hours = [S.hours EXCEPT ![When(e) % HoursPerDay] = S.hours[When(e) % HoursPerDay] + got.minutes]
  /\ next.last = [S.last EXCEPT ![e.book] = e.at]
  /\ next.at = IF ResolveOffset(index, e) = None THEN S.at
               ELSE [S.at EXCEPT ![<<e.book, e.device>>] = ResolveOffset(index, e)]

(* One report on the page of its book.                                      *)
LEMMA BookPageGrows ==
  ASSUME NEW index \in Indexes, NEW e \in Events, NEW p, BookPage(p),
         NEW got, got = Words(index, e, p.at[e.device])
  PROVE  BookStep(index, e, p, got, AddToBook(index, p, e))
<1>1. e.book \in Books /\ e.device \in Devices /\ e.at \in Nat /\ e.delta \in Nat
  BY ReadingAssumption DEF Events, Times
<1>2. got \in [minutes : Nat, measured : Nat, words : Nat]
  BY <1>1, WordsOK DEF BookPage
<1>3. PICK offset \in Nat \cup {None} : offset = ResolveOffset(index, e)
  BY OffsetOK
<1>4. PICK sessions \in Seq(Sittings) : sessions = p.sessions
  BY DEF BookPage
<1> DEFINE joins == sessions # <<>> /\ e.at - Last(sessions).end <= SessionGap
           old == IF joins THEN Last(sessions) ELSE [start |-> e.at, minutes |-> 0]
           last == [start |-> old.start, end |-> e.at, minutes |-> old.minutes + got.minutes]
           earlier == IF joins THEN Front(sessions) ELSE sessions
           next == AddToBook(index, p, e)
<1>5. /\ next.reports = p.reports + 1 /\ next.minutes = p.minutes + got.minutes
      /\ next.measured = p.measured + got.measured /\ next.words = p.words + got.words
      /\ next.sessions = earlier \o <<last>>
      /\ next.at = IF offset = None THEN p.at ELSE [p.at EXCEPT ![e.device] = offset]
  BY <1>2, <1>3, <1>4 DEF AddToBook
<1>6. sessions # <<>> => Last(sessions) \in Sittings
  BY DEF Last
<1>7. last \in Sittings
  <2>1. old.start \in Nat /\ old.minutes \in Nat
    BY <1>1, <1>6 DEF Sittings
  <2> HIDE DEF old
  <2>2. old.minutes + got.minutes \in Nat
    BY <1>2, <2>1
  <2> QED BY <1>1, <2>1, <2>2 DEF Sittings
<1>8. earlier \in Seq(Sittings) /\ Len(earlier) = IF joins THEN Len(sessions) - 1 ELSE Len(sessions)
  <2>1. CASE joins
    <3>1. sessions # <<>>
      BY <2>1
    <3>2. Front(sessions) \in Seq(Sittings) /\ Len(Front(sessions)) = Len(sessions) - 1
      <4>1. Len(sessions) \in Nat /\ Len(sessions) >= 1 /\ Front(sessions) = SubSeq(sessions, 1, Len(sessions) - 1)
        BY <3>1 DEF Front
      <4> HIDE DEF joins, old, last, earlier, next
      <4>2. PICK n \in Nat : n = Len(sessions) - 1
        BY <4>1
      <4>3. SubSeq(sessions, 1, n) = [i \in 1..n |-> sessions[i]]
        BY <4>2
      <4>4. \A i \in 1..n : sessions[i] \in Sittings
        BY <4>2
      <4>5. SubSeq(sessions, 1, n) \in Seq(Sittings) /\ Len(SubSeq(sessions, 1, n)) = n
        BY <4>3, <4>4
      <4> QED BY <4>1, <4>2, <4>5
    <3> QED BY <2>1, <3>2
  <2>2. CASE ~joins
    BY <2>2
  <2> QED BY <2>1, <2>2
<1>9. last.end = e.at
  OBVIOUS
<1> HIDE DEF last, earlier
<1>10. /\ next.sessions \in Seq(Sittings) /\ next.sessions # <<>> /\ Last(next.sessions) = last
       /\ Len(next.sessions) = Len(earlier) + 1
  BY <1>5, <1>7, <1>8 DEF Last
<1>11. Len(next.sessions) = IF joins THEN Len(sessions) ELSE Len(sessions) + 1
  <2>1. Len(sessions) \in Nat
    OBVIOUS
  <2> HIDE DEF joins, next
  <2> QED BY <1>8, <1>10, <2>1
<1>12. BookPage(next)
  <2>1. next.at \in [Devices -> Nat \cup {None}]
    BY <1>5 DEF BookPage
  <2>2. p.reports \in Nat /\ p.minutes \in Nat /\ p.measured \in Nat /\ p.words \in Nat
    BY DEF BookPage
  <2>3. got.minutes \in Nat /\ got.measured \in Nat /\ got.words \in Nat
    BY <1>2
  <2> HIDE DEF next
  <2>4. /\ next.reports = p.reports + 1 /\ next.minutes = p.minutes + got.minutes
        /\ next.measured = p.measured + got.measured /\ next.words = p.words + got.words
    BY <1>5
  <2>5. next.reports \in Nat /\ next.minutes \in Nat /\ next.measured \in Nat /\ next.words \in Nat
    <3>1. p.reports + 1 \in Nat
      BY <2>2
    <3>2. p.minutes + got.minutes \in Nat
      BY <2>2, <2>3
    <3>3. p.measured + got.measured \in Nat
      BY <2>2, <2>3
    <3>4. p.words + got.words \in Nat
      BY <2>2, <2>3
    <3> QED BY <2>4, <3>1, <3>2, <3>3, <3>4, Zenon
  <2> QED BY <1>10, <2>1, <2>5 DEF BookPage
<1> HIDE DEF next
<1> QED BY <1>3, <1>4, <1>5, <1>9, <1>10, <1>11, <1>12 DEF next, joins, BookStep, Joins

(* The report on the page of the reader.                                    *)
LEMMA ReaderPageGrows ==
  ASSUME NEW index \in Indexes, NEW e \in Events, NEW S, NEW P, \A b \in Books : BookPage(P[b]),
         Whereabouts(S, P), NEW p, p = P[e.book], NEW got, got = Words(index, e, p.at[e.device])
  PROVE  ReaderStep(index, e, p, got, S, AddToReader(index, S, e))
<1>1. e.book \in Books /\ e.device \in Devices /\ e.at \in Nat
  BY ReadingAssumption DEF Events, Times
<1>2. S.at[<<e.book, e.device>>] = P[e.book].at[e.device]
  BY <1>1 DEF Whereabouts
<1>3. S.last[e.book] = IF P[e.book].sessions = <<>> THEN None ELSE Last(P[e.book].sessions).end
  BY <1>1 DEF Whereabouts
<1>4. P[e.book].sessions # <<>> => Last(P[e.book].sessions).end \in Nat
  <2>1. P[e.book].sessions \in Seq(Sittings)
    BY <1>1 DEF BookPage
  <2>2. P[e.book].sessions # <<>> => Last(P[e.book].sessions) \in Sittings
    BY <2>1 DEF Last
  <2> QED BY <2>2 DEF Sittings
<1>5. (S.last[e.book] = None \/ e.at - S.last[e.book] > SessionGap)
        <=> ~(P[e.book].sessions # <<>> /\ e.at - Last(P[e.book].sessions).end <= SessionGap)
  BY <1>1, <1>3, <1>4, NoneIsNothing DEF SessionGap
<1>6. S.at[<<e.book, e.device>>] = p.at[e.device]
  BY <1>2
<1>7. (S.last[e.book] = None \/ e.at - S.last[e.book] > SessionGap) <=> ~Joins(e, p)
  BY <1>5 DEF Joins
<1> QED BY <1>6, <1>7 DEF AddToReader, ReaderStep, When

LEMMA WhenOK ==
  ASSUME NEW e \in Events
  PROVE  /\ When(e) \in Times /\ When(e) \in Nat
         /\ DayOf(When(e)) \in Days /\ When(e) % HoursPerDay \in 0..HoursPerDay - 1
<1> DEFINE when == When(e)
<1>1. when \in Times
  BY DEF Events, When
<1> HIDE DEF when
<1>2. when \in Nat /\ when <= MaxTime /\ MaxTime \in Nat /\ HoursPerDay \in Nat /\ HoursPerDay >= 1
  BY <1>1, ReadingAssumption DEF Times
<1>3. DayOf(when) \in Days
  BY <1>2 DEF DayOf, Days
<1>4. when % HoursPerDay \in 0..HoursPerDay - 1
  BY <1>2
<1> QED BY <1>1, <1>2, <1>3, <1>4 DEF when

-----------------------------------------------------------------------------
(* The two pages, side by side. *)

(* Only the value at x differs, by n.                                       *)
Grows(f, g, S, x, n) == f \in [S -> Nat] /\ g \in [S -> Nat] /\ \A y \in S : g[y] = IF y = x THEN f[y] + n ELSE f[y]

LEMMA SumGrows ==
  ASSUME NEW S, IsFiniteSet(S), NEW f, NEW g, NEW x \in S, NEW n \in Nat, Grows(f, g, S, x, n)
  PROVE  SumOf(g) = SumOf(f) + n
<1>1. f \in [S -> Nat] /\ g \in [S -> Nat] /\ \A y \in S : g[y] = IF y = x THEN f[y] + n ELSE f[y]
  BY DEF Grows
<1>2. SumOf(f) \in Nat /\ SumOf(g) = SumOf(f) - f[x] + g[x]
  BY <1>1, SumChanged
<1> QED BY <1>1, <1>2

(* The pages of all books and the page of the reader, after as many reports. *)
Pages(S, P, today) ==
  /\ \A b \in Books : BookPage(P[b])
  /\ SumsAgree(S, P) /\ Whereabouts(S, P) /\ Calendar(S, today)

LEMMA SumsAreNatural ==
  ASSUME NEW S, NEW P, NEW today, Pages(S, P, today)
  PROVE  /\ [b \in Books |-> P[b].reports] \in [Books -> Nat]
         /\ [b \in Books |-> P[b].minutes] \in [Books -> Nat]
         /\ [b \in Books |-> P[b].measured] \in [Books -> Nat]
         /\ [b \in Books |-> P[b].words] \in [Books -> Nat]
         /\ [b \in Books |-> Len(P[b].sessions)] \in [Books -> Nat]
         /\ S.reports \in Nat /\ S.minutes \in Nat /\ S.measured \in Nat /\ S.words \in Nat
         /\ S.sessions \in Nat
<1>1. IsFiniteSet(Books)
  BY ReadingAssumption
<1>2. \A b \in Books : BookPage(P[b])
  BY DEF Pages
<1>3. /\ [b \in Books |-> P[b].reports] \in [Books -> Nat]
      /\ [b \in Books |-> P[b].minutes] \in [Books -> Nat]
      /\ [b \in Books |-> P[b].measured] \in [Books -> Nat]
      /\ [b \in Books |-> P[b].words] \in [Books -> Nat]
  BY <1>2 DEF BookPage
<1>4. [b \in Books |-> Len(P[b].sessions)] \in [Books -> Nat]
  BY <1>2 DEF BookPage
<1>5. SumsAgree(S, P)
  BY DEF Pages
<1> QED BY <1>1, <1>3, <1>4, <1>5, SumIsCount DEF SumsAgree

LEMMA SumsGrow ==
  ASSUME NEW index \in Indexes, NEW e \in Events, NEW S, NEW P, NEW P2, NEW today, Pages(S, P, today),
         \A b \in Books : P2[b] = IF b = e.book THEN AddToBook(index, P[b], e) ELSE P[b]
  PROVE  /\ \A b \in Books : BookPage(P2[b])
         /\ SumsAgree(AddToReader(index, S, e), P2)
<1> DEFINE S2 == AddToReader(index, S, e)
           p == P[e.book]
           p2 == AddToBook(index, p, e)
<1>1. e.book \in Books /\ e.device \in Devices /\ IsFiniteSet(Books)
  BY ReadingAssumption DEF Events
<1>2. \A b \in Books : BookPage(P[b])
  BY DEF Pages
<1>3. BookPage(p) /\ p.at[e.device] \in Nat \cup {None}
  BY <1>1, <1>2 DEF BookPage
<1>4. PICK got \in [minutes : Nat, measured : Nat, words : Nat] : got = Words(index, e, p.at[e.device])
  BY <1>3, WordsOK
<1>5. BookStep(index, e, p, got, p2)
  <2> HIDE DEF p
  <2> QED BY <1>3, <1>4, BookPageGrows
<1>6. ReaderStep(index, e, p, got, S, S2)
  <2>1. Whereabouts(S, P)
    BY DEF Pages
  <2> QED BY <1>2, <1>4, <2>1, ReaderPageGrows
<1>7. \A b \in Books : P2[b] = IF b = e.book THEN p2 ELSE P[b]
  OBVIOUS
<1> HIDE DEF p2, S2
<1>8. \A b \in Books : BookPage(P2[b])
  BY <1>2, <1>5, <1>7 DEF BookStep
<1> DEFINE one == IF Joins(e, p) THEN 0 ELSE 1
           F1 == [b \in Books |-> P[b].reports]
           F2 == [b \in Books |-> P[b].minutes]
           F3 == [b \in Books |-> P[b].measured]
           F4 == [b \in Books |-> P[b].words]
           F5 == [b \in Books |-> Len(P[b].sessions)]
           G1 == [b \in Books |-> P2[b].reports]
           G2 == [b \in Books |-> P2[b].minutes]
           G3 == [b \in Books |-> P2[b].measured]
           G4 == [b \in Books |-> P2[b].words]
           G5 == [b \in Books |-> Len(P2[b].sessions)]
<1>9. \A b \in Books : /\ G1[b] = IF b = e.book THEN F1[b] + 1 ELSE F1[b]
                       /\ G2[b] = IF b = e.book THEN F2[b] + got.minutes ELSE F2[b]
                       /\ G3[b] = IF b = e.book THEN F3[b] + got.measured ELSE F3[b]
                       /\ G4[b] = IF b = e.book THEN F4[b] + got.words ELSE F4[b]
  <2>1. /\ p2.reports = p.reports + 1 /\ p2.minutes = p.minutes + got.minutes
        /\ p2.measured = p.measured + got.measured /\ p2.words = p.words + got.words
    BY <1>5 DEF BookStep
  <2> QED BY <1>7, <2>1
<1>10. \A b \in Books : G5[b] = IF b = e.book THEN F5[b] + one ELSE F5[b]
  <2>1. Len(p2.sessions) = Len(p.sessions) + one
    <3>1. Len(p.sessions) \in Nat
      BY <1>3 DEF BookPage
    <3>2. Len(p2.sessions) = IF Joins(e, p) THEN Len(p.sessions) ELSE Len(p.sessions) + 1
      BY <1>5 DEF BookStep
    <3>3. Joins(e, p) => one = 0
      OBVIOUS
    <3>4. ~Joins(e, p) => one = 1
      OBVIOUS
    <3>5. Len(p2.sessions) = IF Joins(e, p) THEN Len(p.sessions) + 0 ELSE Len(p.sessions) + 1
      BY <3>1, <3>2
    <3> HIDE DEF one
    <3> QED BY <3>3, <3>4, <3>5
  <2> HIDE DEF one
  <2> QED BY <1>7, <2>1
<1>11. G1 \in [Books -> Nat] /\ G2 \in [Books -> Nat] /\ G3 \in [Books -> Nat]
       /\ G4 \in [Books -> Nat] /\ G5 \in [Books -> Nat]
  BY <1>8 DEF BookPage
<1>12. F1 \in [Books -> Nat] /\ F2 \in [Books -> Nat] /\ F3 \in [Books -> Nat]
       /\ F4 \in [Books -> Nat] /\ F5 \in [Books -> Nat]
  BY SumsAreNatural
<1>13. /\ S.reports = SumOf(F1) /\ S.minutes = SumOf(F2) /\ S.measured = SumOf(F3)
       /\ S.words = SumOf(F4) /\ S.sessions = SumOf(F5)
  BY DEF Pages, SumsAgree
<1>14. one \in Nat /\ got.minutes \in Nat /\ got.measured \in Nat /\ got.words \in Nat
  OBVIOUS
<1>15. S2.sessions = S.sessions + one
  <2>1. S.sessions \in Nat
    BY SumsAreNatural
  <2> QED BY <1>6, <2>1 DEF ReaderStep
<1> HIDE DEF F1, F2, F3, F4, F5, one
<1>16. SumsAgree(S2, P2) <=> /\ S2.reports = SumOf(G1) /\ S2.minutes = SumOf(G2)
                             /\ S2.measured = SumOf(G3) /\ S2.words = SumOf(G4)
                             /\ S2.sessions = SumOf(G5)
  BY DEF SumsAgree
<1> HIDE DEF G1, G2, G3, G4, G5
<1>17. SumOf(G1) = SumOf(F1) + 1
  <2>1. Grows(F1, G1, Books, e.book, 1) /\ 1 \in Nat
    BY <1>9, <1>12, <1>11 DEF Grows
  <2> QED BY <1>1, <2>1, SumGrows
<1>18. SumOf(G2) = SumOf(F2) + got.minutes
  <2>1. Grows(F2, G2, Books, e.book, got.minutes)
    BY <1>9, <1>12, <1>11 DEF Grows
  <2> QED BY <1>1, <1>14, <2>1, SumGrows
<1>19. SumOf(G3) = SumOf(F3) + got.measured
  <2>1. Grows(F3, G3, Books, e.book, got.measured)
    BY <1>9, <1>12, <1>11 DEF Grows
  <2> QED BY <1>1, <1>14, <2>1, SumGrows
<1>20. SumOf(G4) = SumOf(F4) + got.words
  <2>1. Grows(F4, G4, Books, e.book, got.words)
    BY <1>9, <1>12, <1>11 DEF Grows
  <2> QED BY <1>1, <1>14, <2>1, SumGrows
<1>21. SumOf(G5) = SumOf(F5) + one
  <2>1. Grows(F5, G5, Books, e.book, one)
    BY <1>10, <1>12, <1>11 DEF Grows
  <2> QED BY <1>1, <1>14, <2>1, SumGrows
<1>22. /\ S2.reports = S.reports + 1 /\ S2.minutes = S.minutes + got.minutes
       /\ S2.measured = S.measured + got.measured /\ S2.words = S.words + got.words
  BY <1>6 DEF ReaderStep
<1>23. SumsAgree(S2, P2)
  BY <1>13, <1>15, <1>17, <1>18, <1>19, <1>20, <1>21, <1>22, <1>16
<1> QED BY <1>8, <1>23 DEF S2

LEMMA DaysAndHours == IsFiniteSet(Days) /\ Days \in SUBSET Nat /\ IsFiniteSet(0..HoursPerDay - 1)
<1>1. DayOf(MaxTime) \in Nat /\ HoursPerDay - 1 \in Nat
  BY LastDay, ReadingAssumption
<1>2. IsFiniteSet(0..DayOf(MaxTime)) /\ IsFiniteSet(0..HoursPerDay - 1)
  BY <1>1, FS_Interval
<1> QED BY <1>1, <1>2 DEF Days

LEMMA PlacesAgree ==
  ASSUME NEW index \in Indexes, NEW e \in Events, NEW S, NEW P, NEW P2, NEW today, Pages(S, P, today),
         \A b \in Books : P2[b] = IF b = e.book THEN AddToBook(index, P[b], e) ELSE P[b]
  PROVE  Whereabouts(AddToReader(index, S, e), P2)
<1> DEFINE S2 == AddToReader(index, S, e)
           p == P[e.book]
           p2 == AddToBook(index, p, e)
           offset == ResolveOffset(index, e)
<1>1. e.book \in Books /\ e.device \in Devices
  BY DEF Events
<1>2. \A b \in Books : BookPage(P[b])
  BY DEF Pages
<1> DEFINE got == Words(index, e, p.at[e.device])
<1>3. BookStep(index, e, p, got, p2)
  <2>1. BookPage(p)
    BY <1>1, <1>2
  <2> HIDE DEF p
  <2> QED BY <2>1, BookPageGrows
<1>4. ReaderStep(index, e, p, got, S, S2)
  <2>1. Whereabouts(S, P)
    BY DEF Pages
  <2> HIDE DEF p
  <2>2. p = P[e.book]
    BY DEF p
  <2> QED BY <1>2, <2>1, <2>2, ReaderPageGrows
<1>5. \A b \in Books : P2[b] = IF b = e.book THEN p2 ELSE P[b]
  OBVIOUS
<1>6. /\ S.last = [b \in Books |-> IF P[b].sessions = <<>> THEN None ELSE Last(P[b].sessions).end]
      /\ S.at = [x \in Books \X Devices |-> P[x[1]].at[x[2]]]
  BY DEF Pages, Whereabouts
<1>7. \A b \in Books : P[b].at \in [Devices -> Nat \cup {None}]
  BY <1>2 DEF BookPage
<1> HIDE DEF p2, S2, offset
<1>8. /\ p2.sessions # <<>> /\ Last(p2.sessions).end = e.at
      /\ p2.at = IF offset = None THEN p.at ELSE [p.at EXCEPT ![e.device] = offset]
  BY <1>3 DEF BookStep, offset
<1>9. /\ S2.last = [S.last EXCEPT ![e.book] = e.at]
      /\ S2.at = IF offset = None THEN S.at ELSE [S.at EXCEPT ![<<e.book, e.device>>] = offset]
  BY <1>4 DEF ReaderStep, offset
<1>10. S2.last = [b \in Books |-> IF P2[b].sessions = <<>> THEN None ELSE Last(P2[b].sessions).end]
  <2>1. ASSUME NEW b \in Books
        PROVE  [S.last EXCEPT ![e.book] = e.at][b] = IF P2[b].sessions = <<>> THEN None ELSE Last(P2[b].sessions).end
    <3>1. CASE b = e.book
      BY <1>8, <1>5, <1>6, <3>1
    <3>2. CASE b # e.book
      BY <1>5, <1>6, <3>2
    <3> QED BY <3>1, <3>2
  <2>2. [S.last EXCEPT ![e.book] = e.at] = [b \in Books |-> [S.last EXCEPT ![e.book] = e.at][b]]
    BY <1>6
  <2> QED BY <1>9, <2>1, <2>2
<1>11. S2.at = [x \in Books \X Devices |-> P2[x[1]].at[x[2]]]
  <2>1. CASE offset = None
    <3>1. \A b \in Books : P2[b].at = P[b].at
      BY <1>8, <1>5, <2>1
    <3> QED BY <1>9, <1>6, <2>1, <3>1
  <2>2. CASE offset # None
    <3>1. ASSUME NEW b \in Books, NEW d \in Devices
          PROVE  [S.at EXCEPT ![<<e.book, e.device>>] = offset][<<b, d>>] = P2[b].at[d]
      <4>1. CASE b = e.book
        BY <1>1, <1>8, <1>5, <1>6, <1>7, <2>2, <4>1
      <4>2. CASE b # e.book
        BY <1>1, <1>5, <1>6, <4>2
      <4> QED BY <4>1, <4>2
    <3>2. S2.at = [S.at EXCEPT ![<<e.book, e.device>>] = offset]
      BY <1>9, <2>2
    <3>3. [S.at EXCEPT ![<<e.book, e.device>>] = offset] =
            [x \in Books \X Devices |-> [S.at EXCEPT ![<<e.book, e.device>>] = offset][x]]
      BY <1>6
    <3>4. \A x \in Books \X Devices : x[1] \in Books /\ x[2] \in Devices /\ x = <<x[1], x[2]>>
      OBVIOUS
    <3>5. \A x \in Books \X Devices : [S.at EXCEPT ![<<e.book, e.device>>] = offset][x] = P2[x[1]].at[x[2]]
      BY <3>1, <3>4
    <3> QED BY <3>2, <3>3, <3>5
  <2> QED BY <2>1, <2>2
<1> QED BY <1>10, <1>11 DEF Whereabouts, S2

LEMMA CalendarGrows ==
  ASSUME NEW index \in Indexes, NEW e \in Events, NEW S, NEW P, NEW today \in Nat, Pages(S, P, today),
         DayOf(When(e)) <= today
  PROVE  Calendar(AddToReader(index, S, e), today)
<1>1. PICK when : when = When(e)
  OBVIOUS
<1>2. DayOf(when) \in Days /\ when % HoursPerDay \in 0..HoursPerDay - 1 /\ DayOf(when) <= today
  BY <1>1, WhenOK
<1>3. \A b \in Books : BookPage(P[b])
  BY DEF Pages
<1>4. PICK got \in [minutes : Nat, measured : Nat, words : Nat] :
        got = Words(index, e, P[e.book].at[e.device])
  <2>1. P[e.book].at[e.device] \in Nat \cup {None}
    BY <1>3 DEF BookPage, Events
  <2> QED BY <2>1, WordsOK
<1> DEFINE S2 == AddToReader(index, S, e)
<1>5. /\ S2.minutes = S.minutes + got.minutes
      /\ S2.days = [S.days EXCEPT ![DayOf(when)] = S.days[DayOf(when)] + got.minutes]
      /\ S2.hours = [S.hours EXCEPT ![when % HoursPerDay] = S.hours[when % HoursPerDay] + got.minutes]
  <2>1. Whereabouts(S, P)
    BY DEF Pages
  <2>2. PICK p : p = P[e.book]
    OBVIOUS
  <2>3. ReaderStep(index, e, p, got, S, S2)
    BY <1>3, <1>4, <2>1, <2>2, ReaderPageGrows
  <2> HIDE DEF S2
  <2> QED BY <1>1, <2>3 DEF ReaderStep
<1>6. /\ S.days \in [Days -> Nat] /\ S.hours \in [0..HoursPerDay - 1 -> Nat]
      /\ S.minutes = SumOf(S.days) /\ S.minutes = SumOf(S.hours)
      /\ \A t \in Days : S.days[t] > 0 => t <= today
  BY DEF Pages, Calendar
<1>7. PICK days \in [Days -> Nat] : days = S.days
  BY <1>6
<1>8. PICK hours \in [0..HoursPerDay - 1 -> Nat] : hours = S.hours
  BY <1>6
<1> HIDE DEF S2
<1>9. got.minutes \in Nat
  OBVIOUS
<1>10. S2.days \in [Days -> Nat] /\ S2.minutes = SumOf(S2.days)
  <2>1. days[DayOf(when)] + got.minutes \in Nat
    BY <1>2, <1>9
  <2>2. PICK days2 \in [Days -> Nat] : days2 = S2.days
    BY <1>5, <1>7, <2>1
  <2>3. \A t \in Days : days2[t] = IF t = DayOf(when) THEN days[t] + got.minutes ELSE days[t]
    BY <1>5, <1>7, <2>2
  <2>4. Grows(days, days2, Days, DayOf(when), got.minutes)
    BY <2>3 DEF Grows
  <2>5. SumOf(days2) = SumOf(days) + got.minutes
    BY <1>2, <1>9, <2>4, DaysAndHours, SumGrows
  <2> QED BY <1>5, <1>6, <1>7, <2>2, <2>5
<1>11. S2.hours \in [0..HoursPerDay - 1 -> Nat] /\ S2.minutes = SumOf(S2.hours)
  <2>1. hours[when % HoursPerDay] + got.minutes \in Nat
    BY <1>2, <1>9
  <2>2. PICK hours2 \in [0..HoursPerDay - 1 -> Nat] : hours2 = S2.hours
    BY <1>5, <1>8, <2>1
  <2>3. \A h \in 0..HoursPerDay - 1 :
          hours2[h] = IF h = when % HoursPerDay THEN hours[h] + got.minutes ELSE hours[h]
    BY <1>5, <1>8, <2>2
  <2>4. Grows(hours, hours2, 0..HoursPerDay - 1, when % HoursPerDay, got.minutes)
    BY <2>3 DEF Grows
  <2>5. SumOf(hours2) = SumOf(hours) + got.minutes
    <3>1. PICK H : H = 0..HoursPerDay - 1
      OBVIOUS
    <3>2. PICK h \in H : h = when % HoursPerDay
      BY <1>2, <3>1
    <3>3. Grows(hours, hours2, H, h, got.minutes) /\ IsFiniteSet(H)
      BY <2>4, <3>1, <3>2, DaysAndHours
    <3> QED BY <1>9, <3>3, SumGrows
  <2> QED BY <1>5, <1>6, <1>8, <2>2, <2>5
<1>12. \A t \in Days : S2.days[t] > 0 => t <= today
  <2>1. \A t \in Days : t # DayOf(when) => S2.days[t] = days[t]
    BY <1>5, <1>7
  <2> QED BY <1>2, <1>6, <1>7, <2>1
<1> QED BY <1>10, <1>11, <1>12 DEF Calendar, S2

-----------------------------------------------------------------------------
(* No report tells of a time that is still to come.                         *)
Timely ==
  /\ \A d \in Devices : pending[d] # None /\ pending[d].deviceAt # None => pending[d].deviceAt <= now
  /\ \A i \in 1..Len(events) : When(events[i]) <= now

LEMMA TimelyInitially ==
  ASSUME ReadingInit
  PROVE  Timely
BY DEF ReadingInit, Timely

LEMMA TimelyStays ==
  ASSUME ReadingTypeOK, Timely, [ReadingNext]_readingVars
  PROVE  Timely'
<1>1. now \in Nat /\ Len(events) \in Nat /\ \A i \in 1..Len(events) : events[i] \in Events /\ When(events[i]) \in Nat
  <2>1. now \in Nat
    BY ReadingAssumption DEF ReadingTypeOK, Times
  <2> QED BY <2>1, HistoryIs, WhenOK
<1>2. pending \in [Devices -> Reported \cup {None}]
  BY DEF ReadingTypeOK
<1>3. ASSUME NEW d \in Devices, NEW b \in Books, NEW minutes \in 0..1, NEW p \in Positions,
             NEW sections \in Shapes[d], PutState(d, b, minutes, p, sections)
      PROVE  Timely'
  <2>1. PICK copy \in Copies, r \in Reported : Putting(d, b, minutes, sections, copy, r)
    BY <1>3, PutStatePuts
  <2>2. pending' = [pending EXCEPT ![d] = r] /\ (r.deviceAt # None => r.deviceAt <= now)
    BY <2>1 DEF Putting
  <2>3. UNCHANGED <<events, now>>
    BY <1>3 DEF PutState
  <2> QED BY <1>2, <2>2, <2>3 DEF Timely
<1>4. ASSUME NEW d \in Devices, SaveReadingState(d)
      PROVE  Timely'
  <2>1. PICK r \in Reported : Saving(d, r)
    BY <1>4, SaveReadingStateSaves
  <2>2. pending[d] = r /\ r # None /\ pending' = [pending EXCEPT ![d] = None] /\ Appended(d, r, events')
    BY <2>1 DEF Saving
  <2>3. UNCHANGED now
    BY <1>4 DEF SaveReadingState
  <2>4. r.deviceAt # None => r.deviceAt <= now
    BY <2>2 DEF Timely
  <2>5. ASSUME NEW e \in Events, events' = Append(events, e), e.at = now, e.deviceAt = r.deviceAt
        PROVE  \A i \in 1..Len(events') : When(events'[i]) <= now
    <3>1. When(e) <= now
      BY <1>1, <2>4, <2>5 DEF When
    <3>2. /\ Len(events') = Len(events) + 1 /\ events'[Len(events) + 1] = e
          /\ \A i \in 1..Len(events) : events'[i] = events[i]
      BY <2>5 DEF ReadingTypeOK
    <3>3. \A i \in 1..Len(events) + 1 : i = Len(events) + 1 \/ i \in 1..Len(events)
      BY <1>1
    <3> QED BY <3>1, <3>2, <3>3 DEF Timely
  <2>6. \A i \in 1..Len(events') : When(events'[i]) <= now
    BY <2>2, <2>5 DEF Appended, Timely
  <2> QED BY <1>2, <2>2, <2>3, <2>6 DEF Timely
<1>5. ASSUME NEW d \in Devices, SaveFails(d)
      PROVE  Timely'
  BY <1>2, <1>5 DEF SaveFails, Timely
<1>6. CASE Tick
  <2>1. now' = now + 1 /\ UNCHANGED <<pending, events>>
    BY <1>6 DEF Tick
  <2>2. \A d \in Devices : pending[d] # None /\ pending[d].deviceAt # None => pending[d].deviceAt \in Nat
    BY <1>2 DEF Reported, Times
  <2> QED BY <1>1, <2>1, <2>2 DEF Timely
<1>7. CASE \/ \E d \in Devices, b \in Books : CounterRestarts(d, b)
           \/ \E d \in Devices : Sync(d)
           \/ \E s, l \in Books : MergeBooks(s, l)
           \/ UNCHANGED readingVars
  <2>1. UNCHANGED <<pending, events, now>>
    BY <1>7 DEF CounterRestarts, Sync, MergeBooks, readingVars
  <2> QED BY <2>1 DEF Timely
<1> QED BY <1>3, <1>4, <1>5, <1>6, <1>7 DEF ReadingNext

LEMMA OnTime ==
  ASSUME ReadingTypeOK, Timely, NEW i \in 1..Len(events)
  PROVE  DayOf(When(events[i])) <= DayOf(now)
<1>1. events[i] \in Events /\ When(events[i]) <= now
  BY HistoryIs DEF Timely
<1>2. When(events[i]) \in Nat
  BY <1>1, WhenOK
<1>3. now \in Nat /\ HoursPerDay \in Nat /\ HoursPerDay >= 1
  BY ReadingAssumption DEF ReadingTypeOK, Times
<1>4. \A x, y \in Nat : x <= y => x \div HoursPerDay <= y \div HoursPerDay
  BY <1>3
<1> QED BY <1>1, <1>2, <1>3, <1>4 DEF DayOf

-----------------------------------------------------------------------------
(* They stay side by side. *)

PagesAt(index, i) ==
  Pages(ReaderUpTo(index)[i], [b \in Books |-> BookUpTo(index, b)[i]], DayOf(now))

LEMMA EmptyPages ==
  ASSUME NEW today \in Nat
  PROVE  Pages(NoReaderStats, [b \in Books |-> NoBookStats], today)
<1> DEFINE zeros == [b \in Books |-> 0]
           P == [b \in Books |-> NoBookStats]
<1>1. IsFiniteSet(Books) /\ SumOf(zeros) = 0
  <2>1. IsFiniteSet(Books)
    BY ReadingAssumption
  <2>2. zeros \in [Books -> Nat] /\ \A b \in Books : zeros[b] = 0
    OBVIOUS
  <2> HIDE DEF zeros
  <2> QED BY <2>1, <2>2, SumOfZeros
<1>2. BookPage(NoBookStats)
  BY DEF BookPage, NoBookStats
<1>3. SumsAgree(NoReaderStats, P)
  BY <1>1 DEF SumsAgree, NoReaderStats, NoBookStats
<1>4. Whereabouts(NoReaderStats, P)
  BY DEF Whereabouts, NoReaderStats, NoBookStats
<1>5. Calendar(NoReaderStats, today)
  <2>1. PICK days \in [Days -> Nat] : days = [t \in Days |-> 0]
    OBVIOUS
  <2>2. PICK hours \in [0..HoursPerDay - 1 -> Nat] : hours = [h \in 0..HoursPerDay - 1 |-> 0]
    OBVIOUS
  <2>3. SumOf(days) = 0
    BY <2>1, DaysAndHours, SumOfZeros
  <2>4. SumOf(hours) = 0
    BY <2>2, DaysAndHours, SumOfZeros
  <2> QED BY <2>1, <2>2, <2>3, <2>4 DEF Calendar, NoReaderStats
<1> QED BY <1>2, <1>3, <1>4, <1>5 DEF Pages

LEMMA PagesGrow ==
  ASSUME ReadingTypeOK, Timely, NEW index \in Indexes, NEW i \in 1..Len(events), PagesAt(index, i - 1)
  PROVE  PagesAt(index, i)
<1>1. PICK e \in Events : e = events[i]
  BY HistoryIs
<1>2. PICK S : S = ReaderUpTo(index)[i - 1]
  OBVIOUS
<1>3. PICK P : P = [b \in Books |-> BookUpTo(index, b)[i - 1]]
  OBVIOUS
<1>4. PICK P2 : P2 = [b \in Books |-> BookUpTo(index, b)[i]]
  OBVIOUS
<1>5. PICK today \in Nat : today = DayOf(now)
  BY DayIsNatural, ReadingAssumption DEF ReadingTypeOK, Times
<1>6. Pages(S, P, today)
  BY <1>2, <1>3, <1>5 DEF PagesAt
<1>7. ReaderUpTo(index)[i] = AddToReader(index, S, e)
  BY <1>1, <1>2, ReaderPages
<1>8. \A b \in Books : P2[b] = IF b = e.book THEN AddToBook(index, P[b], e) ELSE P[b]
  <2> TAKE b \in Books
  <2>1. BookUpTo(index, b)[i] = IF events[i].book # b THEN BookUpTo(index, b)[i - 1]
                                ELSE AddToBook(index, BookUpTo(index, b)[i - 1], events[i])
    BY BookPages
  <2> QED BY <1>1, <1>3, <1>4, <2>1
<1>9. DayOf(When(e)) <= today
  BY <1>1, <1>5, OnTime
<1>10. (\A b \in Books : BookPage(P2[b])) /\ SumsAgree(AddToReader(index, S, e), P2)
  BY <1>6, <1>8, SumsGrow
<1>11. Whereabouts(AddToReader(index, S, e), P2)
  BY <1>6, <1>8, PlacesAgree
<1>12. Calendar(AddToReader(index, S, e), today)
  BY <1>6, <1>9, CalendarGrows
<1> QED BY <1>4, <1>5, <1>7, <1>10, <1>11, <1>12 DEF PagesAt, Pages

LEMMA PagesHold ==
  ASSUME ReadingTypeOK, Timely, NEW index \in Indexes
  PROVE  PagesAt(index, Len(events))
<1> DEFINE Bad == {i \in Nat : i <= Len(events) /\ ~PagesAt(index, i)}
<1>1. Len(events) \in Nat
  BY HistoryIs
<1>2. SUFFICES ASSUME Bad # {} PROVE FALSE
  BY <1>1
<1>3. PICK i \in Bad : \A j \in Bad : i <= j
  BY <1>2, LeastOf
<1>4. i \in Nat /\ i <= Len(events) /\ ~PagesAt(index, i)
  OBVIOUS
<1>5. i # 0
  <2>1. DayOf(now) \in Nat
    BY DayIsNatural, ReadingAssumption DEF ReadingTypeOK, Times
  <2>2. ReaderUpTo(index)[0] = NoReaderStats
    BY ReaderPages
  <2>3. [b \in Books |-> BookUpTo(index, b)[0]] = [b \in Books |-> NoBookStats]
    BY BookPages
  <2>4. PICK today \in Nat : today = DayOf(now)
    BY <2>1
  <2>5. PagesAt(index, 0)
    BY <2>2, <2>3, <2>4, EmptyPages DEF PagesAt
  <2> QED BY <1>4, <2>5
<1>6. i \in 1..Len(events) /\ i - 1 \in Nat /\ i - 1 <= Len(events) /\ ~(i <= i - 1)
  BY <1>1, <1>4, <1>5
<1>7. PagesAt(index, i - 1)
  <2>1. i - 1 \notin Bad
    <3> HIDE DEF Bad
    <3> QED BY <1>3, <1>6
  <2> QED BY <1>6, <2>1
<1> QED BY <1>4, <1>6, <1>7, PagesGrow

(* Every day of reading in the weeks that the calendar shows is on it, not  *)
(* to come, and not blank.                                                  *)
LEMMA OnTheCalendar ==
  ASSUME NEW days \in [Days -> Nat], NEW today \in Nat, NEW t \in Days, days[t] > 0, t <= today,
         t > today - 7 * (Weeks - 1)
  PROVE  LET grid == Heatmap(days, today)
         IN  t \in DOMAIN grid /\ ~grid[t].future /\ grid[t].level > 0
<1> DEFINE start == today - (today % 7) - (Weeks - 1) * 7
           peak == Max({days[u] : u \in DOMAIN days})
           T == start..start + 7 * Weeks - 1
           cell == [future  |-> t > today,
                    minutes |-> IF t \in DOMAIN days THEN days[t] ELSE 0,
                    level   |-> IF t \in DOMAIN days THEN Level(days[t], peak) ELSE 0]
<1>1. Weeks \in Nat /\ Weeks >= 1 /\ t \in Nat
  BY ReadingAssumption, DaysAndHours
<1>2. today % 7 \in 0..6
  OBVIOUS
<1>3. t \in T
  <2>1. PICK r \in 0..6 : r = today % 7
    BY <1>2
  <2> QED BY <1>1, <2>1
<1>4. Heatmap(days, today) = [u \in T |->
            [future  |-> u > today,
             minutes |-> IF u \in DOMAIN days THEN days[u] ELSE 0,
             level   |-> IF u \in DOMAIN days THEN Level(days[u], peak) ELSE 0]]
  BY DEF Heatmap
<1>5. DOMAIN Heatmap(days, today) = T /\ Heatmap(days, today)[t] = cell
  <2> HIDE DEF T, peak
  <2> QED BY <1>3, <1>4
<1>6. peak \in Nat /\ days[t] <= peak
  <2> DEFINE M == {days[u] : u \in DOMAIN days}
  <2>1. M \in SUBSET Nat /\ days[t] \in M
    OBVIOUS
  <2>2. PICK n \in Nat : n = SumOf(days)
    BY DaysAndHours, SumIsCount
  <2>3. \A u \in Days : days[u] <= n
    <3> TAKE u \in Days
    <3>1. SumOf(Without(days, u)) \in Nat /\ SumOf(days) = days[u] + SumOf(Without(days, u))
      BY DaysAndHours, SumSplit
    <3> QED BY <2>2, <3>1
  <2>4. \A m \in M : m <= n
    BY <2>3
  <2>5. Max(M) \in M /\ \A m \in M : m <= Max(M)
    <3> HIDE DEF M
    <3> QED BY <2>1, <2>4, MaxOf
  <2> QED BY <2>1, <2>5
<1>7. Level(days[t], peak) > 0
  <2> HIDE DEF peak
  <2> QED BY <1>6 DEF Level
<1>8. cell.level > 0 /\ ~cell.future
  <2>1. cell.level = Level(days[t], peak)
    <3> HIDE DEF peak
    <3> QED OBVIOUS
  <2>2. cell.future = (t > today)
    <3> HIDE DEF peak
    <3> QED BY Zenon
  <2>3. ~(t > today)
    BY <1>1
  <2> HIDE DEF cell, peak
  <2>4. ~cell.future
    BY <2>2, <2>3, Zenon
  <2> QED BY <1>7, <2>1, <2>4
<1> HIDE DEF cell, T
<1> QED BY <1>3, <1>5, <1>8

(* The page of a reader is the sum of the pages of its books, whatever of   *)
(* them is measured, and every minute is on a day, in an hour and on the    *)
(* calendar.                                                                *)
THEOREM PagesTally == ReadingSpec => []PagesAgree
<1>1. ReadingTypeOK /\ Timely => PagesAgree
  <2> SUFFICES ASSUME ReadingTypeOK, Timely PROVE PagesAgree
    OBVIOUS
  <2> SUFFICES ASSUME NEW index \in Indexes
               PROVE  LET all     == ReaderStats(index)
                          page(b) == BookStats(index, b)
                          today   == DayOf(now)
                          grid    == Heatmap(all.days, today)
                      IN  /\ all.reports  = SumOf([b \in Books |-> page(b).reports])
                          /\ all.minutes  = SumOf([b \in Books |-> page(b).minutes])
                          /\ all.measured = SumOf([b \in Books |-> page(b).measured])
                          /\ all.words    = SumOf([b \in Books |-> page(b).words])
                          /\ all.sessions = SumOf([b \in Books |-> Len(page(b).sessions)])
                          /\ all.minutes = SumOf(all.days) /\ all.minutes = SumOf(all.hours)
                          /\ \A t \in Active(all.days) : t > today - 7 * (Weeks - 1) =>
                               t \in DOMAIN grid /\ ~grid[t].future /\ grid[t].level > 0
    BY DEF PagesAgree
  <2>1. PICK S : S = ReaderStats(index)
    OBVIOUS
  <2>2. PICK P : P = [b \in Books |-> BookStats(index, b)]
    OBVIOUS
  <2>3. PICK today \in Nat : today = DayOf(now)
    <3>1. now \in Nat
      BY ReadingAssumption DEF ReadingTypeOK, Times
    <3>2. DayOf(now) \in Nat
      BY <3>1, DayIsNatural
    <3> QED BY <3>2
  <2>4. Pages(S, P, today)
    <3>1. S = ReaderUpTo(index)[Len(events)]
      BY <2>1, ReaderPages
    <3>2. P = [b \in Books |-> BookUpTo(index, b)[Len(events)]]
      BY <2>2, BookPages
    <3> QED BY <2>3, <3>1, <3>2, PagesHold DEF PagesAt
  <2>5. \A b \in Books : P[b] = BookStats(index, b)
    BY <2>2
  <2>6. /\ S.reports  = SumOf([b \in Books |-> BookStats(index, b).reports])
        /\ S.minutes  = SumOf([b \in Books |-> BookStats(index, b).minutes])
        /\ S.measured = SumOf([b \in Books |-> BookStats(index, b).measured])
        /\ S.words    = SumOf([b \in Books |-> BookStats(index, b).words])
        /\ S.sessions = SumOf([b \in Books |-> Len(BookStats(index, b).sessions)])
    BY <2>4, <2>5 DEF Pages, SumsAgree
  <2>7. Calendar(S, today)
    BY <2>4 DEF Pages
  <2>8. ASSUME NEW t \in Active(S.days), t > today - 7 * (Weeks - 1)
        PROVE  /\ t \in DOMAIN Heatmap(S.days, today) /\ ~Heatmap(S.days, today)[t].future
               /\ Heatmap(S.days, today)[t].level > 0
    <3>1. PICK days \in [Days -> Nat] : days = S.days
      BY <2>7 DEF Calendar
    <3>2. t \in Days /\ days[t] > 0 /\ t <= today
      BY <2>7, <3>1 DEF Active, Calendar
    <3> QED BY <2>8, <3>1, <3>2, OnTheCalendar
  <2> QED BY <2>1, <2>3, <2>6, <2>7, <2>8 DEF Calendar
<1>2. ReadingInit => Timely
  BY TimelyInitially
<1>3. ReadingTypeOK /\ Timely /\ [ReadingNext]_readingVars => Timely'
  BY TimelyStays
<1> QED BY <1>1, <1>2, <1>3, ReaderTypes, PTL DEF ReadingSpec
=============================================================================
