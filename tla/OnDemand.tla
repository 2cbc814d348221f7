------------------------------ MODULE OnDemand ------------------------------
(***************************************************************************)
(* What a cache of derived files promises the one who asks: it cannot be    *)
(* told from one that derives the file anew for every request.  A request    *)
(* is given the book as the library held it at some moment between asking   *)
(* and answering, or is refused.                                            *)
(***************************************************************************)
EXTENDS Integers

CONSTANTS Books, Clients, MaxVersion

VARIABLES
  source,   \* source[b]: the version of the library's file of a book
  request,  \* request[c]: the book, and the version it had when c asked; or NoRequest
  given     \* given[c]: the book and the version c was given last; or NoRequest

vars == <<source, request, given>>

NoRequest == [book |-> "none", version |-> 0]

Init ==
  /\ source = [b \in Books |-> 1]
  /\ request = [c \in Clients |-> NoRequest]
  /\ given = [c \in Clients |-> NoRequest]

Replace(b) ==
  /\ source[b] < MaxVersion
  /\ source' = [source EXCEPT ![b] = @ + 1]
  /\ UNCHANGED <<request, given>>

Ask(c, b) ==
  /\ request[c] = NoRequest
  /\ request' = [request EXCEPT ![c] = [book |-> b, version |-> source[b]]]
  /\ UNCHANGED <<source, given>>

Answer(c) ==
  /\ request[c] # NoRequest
  /\ LET b == request[c].book
     IN  \E v \in request[c].version .. source[b] : given' = [given EXCEPT ![c] = [book |-> b, version |-> v]]
  /\ request' = [request EXCEPT ![c] = NoRequest]
  /\ UNCHANGED source

(* The conversion fails, the copy is evicted first, the client or the server goes away. *)
Refuse(C) ==
  /\ request' = [c \in Clients |-> IF c \in C THEN NoRequest ELSE request[c]]
  /\ UNCHANGED <<source, given>>

Next ==
  \/ \E b \in Books : Replace(b)
  \/ \E c \in Clients : (\E b \in Books : Ask(c, b)) \/ Answer(c)
  \/ \E C \in SUBSET Clients : Refuse(C)

Spec == Init /\ [][Next]_vars
=============================================================================
