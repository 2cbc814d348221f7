------------------------------- MODULE Access -------------------------------
(***************************************************************************)
(* Who a request under /kobo/{token}/ comes from: tokens issued, revoked    *)
(* and cached, and the rows of readers.  authenticate and UpsertDevice are  *)
(* several statements outside a transaction, so requests of one reader, and *)
(* a revocation, fall between them.  Web sessions are left out.             *)
(***************************************************************************)
EXTENDS Integers, FiniteSets

CONSTANTS
  Users,      \* accounts an admin may remove: not the last admin
  Tokens,     \* secrets in the paths of readers; the hash of one stands for it
  Ids,        \* what readers call themselves in x-kobo-deviceid
  Rows,       \* ids of devices rows; numbers, as SQLite reuses the highest once it is free
  BookIDs,
  Requests,   \* requests that may be served at a time
  MaxChanges  \* bound: requests, revocations, removals and restarts

Nobody == "nobody"
Nameless == "" \* a reader that has not said what it calls itself

ASSUME AccessAssumption ==
  Rows \subseteq Nat \ {0} /\ MaxChanges \in Nat /\ Nameless \notin Ids /\ Nobody \notin Tokens

VARIABLES
  user,      \* users that are there
  token,     \* api_tokens: the user, and "unissued", "live", "revoked" or "gone"
  cache,     \* tokenCache: the tokens found and not expired
  device,    \* devices with device_tombstones
  latest,    \* the row of a token seen last
  request,   \* the requests being served
  revoking,  \* tokens whose devices RevokeAPIToken has still to delete
  deleted,   \* history: <<token, id, book>> a reader deleted and was recorded
  raced,     \* history: tokens on which another request came between the look for a row and the insert
  changes

vars == <<user, token, cache, device, latest, request, revoking, deleted, raced, changes>>

NoRow == [token |-> Nobody, id |-> Nameless, tombstones |-> {}]
Idle == [at |-> "idle", token |-> Nobody, id |-> Nameless, row |-> 0, book |-> Nobody]

RowsOf(t) == {d \in Rows : device[d].token = t}
Named(t, i) == {d \in RowsOf(t) : device[d].id = i}

Init ==
  /\ user = Users
  /\ token = [t \in Tokens |-> [user |-> Nobody, state |-> "unissued"]]
  /\ cache = {}
  /\ device = [d \in Rows |-> NoRow]
  /\ latest = [t \in Tokens |-> 0]
  /\ request = [r \in Requests |-> Idle]
  /\ revoking = {} /\ deleted = {} /\ raced = {}
  /\ changes = 0

Change == changes < MaxChanges /\ changes' = changes + 1

At(r, step) == request[r].at = step
Goes(r, q) == request' = [request EXCEPT ![r] = q]
Ends(r) == Goes(r, Idle)
store == <<user, token, device, latest, revoking, deleted, raced>>

(***************************************************************************)
(* The web interface.                                                      *)
(***************************************************************************)
HandleIssueToken(u, t) ==
  /\ u \in user /\ token[t].state = "unissued"
  /\ token' = [token EXCEPT ![t] = [user |-> u, state |-> "live"]]
  /\ UNCHANGED <<user, cache, device, latest, request, revoking, deleted, raced, changes>>

(* RevokeAPIToken marks the token; the cache of tokens is not told.         *)
HandleRevokeToken(t) ==
  /\ Change
  /\ token[t].state = "live"
  /\ token' = [token EXCEPT ![t].state = "revoked"]
  /\ revoking' = revoking \cup {t}
  /\ UNCHANGED <<user, cache, device, latest, request, deleted, raced>>

RemoveRows(tokens) ==
  /\ device' = [d \in Rows |-> IF device[d].token \in tokens THEN NoRow ELSE device[d]]
  /\ latest' = [t \in Tokens |-> IF t \in tokens THEN 0 ELSE latest[t]]
  /\ deleted' = {x \in deleted : x[1] \notin tokens}

RevokeRemovesReaders(t) ==
  /\ t \in revoking
  /\ RemoveRows({t})
  /\ revoking' = revoking \ {t}
  /\ UNCHANGED <<user, token, cache, request, raced, changes>>

(* Sessions, tokens and readers go with their user.                         *)
HandleDeleteUser(u) ==
  /\ Change
  /\ u \in user
  /\ user' = user \ {u}
  /\ LET theirs == {t \in Tokens : token[t].user = u}
     IN  /\ token' = [t \in Tokens |-> IF t \in theirs THEN [token[t] EXCEPT !.state = "gone"] ELSE token[t]]
         /\ RemoveRows(theirs)
         /\ revoking' = revoking \ theirs
  /\ UNCHANGED <<cache, request, raced>>

HandleForgetTombstone(d, b) ==
  /\ Change
  /\ b \in device[d].tombstones
  /\ device' = [device EXCEPT ![d].tombstones = @ \ {b}]
  /\ deleted' = deleted \ {<<device[d].token, device[d].id, b>>}
  /\ UNCHANGED <<user, token, cache, latest, request, revoking, raced>>

(***************************************************************************)
(* A request.                                                              *)
(***************************************************************************)
(* It names its reader, unless it is one of the first of a session.  book is *)
(* what it asks to delete, if anything.                                     *)
Arrives(r, t, i, b) ==
  /\ Change
  /\ At(r, "idle")
  /\ i = Nameless => b = Nobody
  /\ Goes(r, [at |-> "lookup", token |-> t, id |-> i, row |-> 0, book |-> b])
  /\ UNCHANGED <<cache, store>>

CachedOrIssued(t) == t \in cache \/ token[t].state \in {"live", "revoked"} \* seeded bug: any row will do
CachedOrLive(t) == t \in cache \/ token[t].state = "live"

(* tokens.get, and LookupAPIToken where it finds nothing.                   *)
LookUp(r) ==
  LET q == request[r]
  IN  /\ At(r, "lookup")
      /\ IF CachedOrLive(q.token)
         THEN Goes(r, [q EXCEPT !.at = IF q.token \in cache THEN "upsert" ELSE "found"])
         ELSE Ends(r)
      /\ UNCHANGED <<cache, store, changes>>

PutInCache(r) ==
  /\ At(r, "found")
  /\ cache' = cache \cup {request[r].token}
  /\ Goes(r, [request[r] EXCEPT !.at = "upsert"])
  /\ UNCHANGED <<store, changes>>

Expires(t) ==
  /\ t \in cache
  /\ cache' = cache \ {t}
  /\ UNCHANGED <<request, store, changes>>

(* A request without a name takes that of the row seen last.                *)
AdoptRow(r) ==
  LET q == request[r]
  IN  /\ At(r, "upsert") /\ q.id = Nameless
      /\ Goes(r, [q EXCEPT !.at = "insert",
                           !.id = IF latest[q.token] = 0 THEN Nameless ELSE device[latest[q.token]].id])
      /\ UNCHANGED <<cache, store, changes>>

RenameAnyRow(t, i) == \* seeded bug: the row seen last is named, whatever it is called
  [d \in Rows |-> IF d = latest[t] THEN [device[d] EXCEPT !.id = i] ELSE device[d]]

(* UPDATE OR IGNORE: a nameless row of the token gets the name, unless      *)
(* another has it.                                                          *)
NameRow(t, i) ==
  [d \in Rows |-> IF d \in Named(t, Nameless) /\ Named(t, i) = {} THEN [device[d] EXCEPT !.id = i] ELSE device[d]]

NameNameless(r) ==
  LET q == request[r]
  IN  /\ At(r, "upsert") /\ q.id # Nameless
      /\ device' = NameRow(q.token, q.id)
      /\ Goes(r, [q EXCEPT !.at = "insert"])
      /\ UNCHANGED <<user, token, cache, latest, revoking, deleted, raced, changes>>

(* SQLite gives a new row the number after the highest.                     *)
NextRow ==
  LET used == {d \in Rows : device[d].token # Nobody}
  IN  CHOOSE d \in Rows : /\ \A e \in used : e < d
                          /\ \A e \in Rows : (\A x \in used : x < e) => d <= e

InsertOrTouch(r) ==
  LET q == request[r]
      there == Named(q.token, q.id)
      d == IF there = {} THEN NextRow ELSE CHOOSE x \in there : TRUE
      others == {s \in Requests \ {r} : At(s, "insert") /\ request[s].token = q.token}
  IN  /\ At(r, "insert")
      /\ IF token[q.token].state = "gone"
         THEN Ends(r) /\ UNCHANGED <<device, latest, raced>> \* a foreign key
         ELSE /\ (there = {} => \E x \in Rows : \A e \in Rows : device[e].token # Nobody => e < x)
              /\ device' = IF there = {} THEN [device EXCEPT ![d] = [NoRow EXCEPT !.token = q.token, !.id = q.id]]
                           ELSE device
              /\ latest' = [latest EXCEPT ![q.token] = d]
              /\ raced' = IF others = {} THEN raced ELSE raced \cup {q.token}
              /\ Goes(r, [q EXCEPT !.at = "get"])
      /\ UNCHANGED <<user, token, cache, revoking, deleted, changes>>

(* The row may be gone again before it is read.                             *)
GetDevice(r) ==
  LET q == request[r]
      there == Named(q.token, q.id)
  IN  /\ At(r, "get")
      /\ IF there = {} THEN Ends(r)
         ELSE Goes(r, [q EXCEPT !.at = "handle", !.row = CHOOSE x \in there : TRUE])
      /\ UNCHANGED <<cache, store, changes>>

(* AddTombstone; a foreign key refuses it for a row that is gone.           *)
Handle(r) ==
  LET q == request[r]
      recorded == q.book # Nobody /\ device[q.row].token # Nobody
  IN  /\ At(r, "handle")
      /\ device' = IF recorded THEN [device EXCEPT ![q.row].tombstones = @ \cup {q.book}] ELSE device
      /\ deleted' = IF recorded /\ q.row \in Named(q.token, q.id) \* the number may be another's by now
                    THEN deleted \cup {<<q.token, q.id, q.book>>} ELSE deleted
      /\ Ends(r)
      /\ UNCHANGED <<user, token, cache, latest, revoking, raced, changes>>

Restart ==
  /\ Change
  /\ cache' = {} /\ revoking' = {}
  /\ request' = [r \in Requests |-> Idle]
  /\ UNCHANGED <<user, token, device, latest, deleted, raced>>

Next ==
  \/ \E t \in Tokens : (\E u \in Users : HandleIssueToken(u, t)) \/ HandleRevokeToken(t)
                       \/ RevokeRemovesReaders(t) \/ Expires(t)
  \/ \E u \in Users : HandleDeleteUser(u)
  \/ \E d \in Rows, b \in BookIDs : HandleForgetTombstone(d, b)
  \/ \E r \in Requests :
       \/ \E t \in Tokens, i \in Ids \cup {Nameless}, b \in BookIDs \cup {Nobody} :
            token[t].state # "unissued" /\ Arrives(r, t, i, b)
       \/ LookUp(r) \/ PutInCache(r) \/ AdoptRow(r) \/ NameNameless(r)
       \/ InsertOrTouch(r) \/ GetDevice(r) \/ Handle(r)
  \/ Restart

Spec == Init /\ [][Next]_vars

-----------------------------------------------------------------------------
(* Every variable has its type; a token has one row of a name, and a row     *)
(* goes with its user (UNIQUE, ON DELETE CASCADE).                           *)
TypeOK ==
  /\ user \subseteq Users /\ cache \subseteq Tokens /\ revoking \subseteq Tokens
  /\ token \in [Tokens -> [user : Users \cup {Nobody}, state : {"unissued", "live", "revoked", "gone"}]]
  /\ \A d \in Rows : device[d].token \in Tokens =>
       /\ token[device[d].token].user \in user
       /\ Named(device[d].token, device[d].id) = {d}
  /\ \A t \in Tokens : latest[t] = 0 \/ device[latest[t]].token = t

(* One reader is one row (UpsertDevice, devices.go:38-47): a token has no    *)
(* nameless row beside a named one, unless two of its first requests         *)
(* overlapped; and the books a reader deleted are with the row its requests  *)
(* come to, whatever requests without a name, restarts and revocations of    *)
(* other tokens come between.                                                *)
OneReaderOneRow ==
  \A t \in Tokens :
    /\ Named(t, Nameless) # {} /\ t \notin raced => RowsOf(t) = Named(t, Nameless)
    /\ \A x \in deleted : x[1] = t => \E d \in Named(t, x[2]) : x[3] \in device[d].tombstones

(* A token that was revoked, or whose user is gone, is served from the cache *)
(* at most: once it has left it, and the requests that looked it up before   *)
(* have ended, no request under it is let in and no row of it changes.       *)
RevokedFallsSilent ==
  [][\A t \in Tokens :
       /\ token[t].state \in {"revoked", "gone"} /\ t \notin cache
       /\ \A r \in Requests : request[r].token = t => At(r, "lookup")
       => /\ t \notin cache'
          /\ \A d \in Rows : device'[d].token = t => d \in RowsOf(t)
          /\ \A r \in Requests : request'[r].token = t => request'[r].at = "lookup"]_vars
=============================================================================
