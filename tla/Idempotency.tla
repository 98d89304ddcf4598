----------------------------- MODULE Idempotency -----------------------------
(***************************************************************************)
(* The idempotency middleware: a request looks its key up in the cache,    *)
(* marks it as processing, runs the handler and stores the response, or     *)
(* deletes the entry if the handler failed.  These are separate calls to a  *)
(* cache that requests share, so that they interleave with those of         *)
(* duplicates; any of them may fail, the request may die between two, and   *)
(* an entry may expire or be evicted at any moment.                         *)
(*                                                                          *)
(* Behind the middleware the tables keep a key unique as well, but in       *)
(* another scope: the cache per path, a table over all paths that insert    *)
(* into it.  Closing a bill inserts nothing and may be repeated.            *)
(***************************************************************************)
EXTENDS Naturals, FiniteSets

CONSTANTS
  Requests,   \* the requests that arrive
  Paths,      \* URLs that are given an idempotency key
  Inserting,  \* the paths that insert a row; the others close a bill
  Table,      \* Table[p]: the table an inserting path writes to
  Keys,       \* idempotency keys
  Bodies,     \* request bodies, told apart by their hash
  Mishaps,    \* bound on failed cache calls, dead requests, lost entries
  Nothing     \* an absent body or row

ASSUME InsertingAssumption == Inserting \subseteq Paths
ASSUME MishapsAssumption   == Mishaps \in Nat
ASSUME NothingAssumption   == Nothing \notin Bodies

VARIABLES
  pc,        \* pc[r]: where request r is in the middleware
  req,       \* req[r]: the path, key and body of r
  response,  \* response[r]: what the client is answered
  cache,     \* cache[p, k]: the entry for key k on path p
  rows,      \* the rows and closings that are committed
  mishaps    \* how many mishaps there have been

vars == <<pc, req, response, cache, rows, mishaps>>

Request  == [path: Paths, key: Keys, body: Bodies]
Row      == [path: Paths, key: Keys, body: Bodies, by: Requests]
Response == [kind: {"none", "ok", "busy", "conflict", "exists", "error"},
             row: Row \cup {Nothing}]
Entry    == [status: {"none", "processing", "completed"},
             body: Bodies \cup {Nothing}, row: Row \cup {Nothing}]

NoEntry    == [status |-> "none", body |-> Nothing, row |-> Nothing]
Processing == [status |-> "processing", body |-> Nothing, row |-> Nothing]
Answer(kind) == [kind |-> kind, row |-> Nothing]

TypeOK ==
  /\ pc \in [Requests -> {"idle", "get", "mark", "handle", "store", "drop",
                          "done"}]
  /\ req \in [Requests -> Request \cup {Nothing}]
  /\ response \in [Requests -> Response]
  /\ cache \in [Paths \X Keys -> Entry]
  /\ rows \subseteq Row
  /\ mishaps \in 0..Mishaps

Init ==
  /\ pc = [r \in Requests |-> "idle"]
  /\ req = [r \in Requests |-> Nothing]
  /\ response = [r \in Requests |-> Answer("none")]
  /\ cache = [e \in Paths \X Keys |-> NoEntry]
  /\ rows = {}
  /\ mishaps = 0

-----------------------------------------------------------------------------
Slot(r)     == <<req[r].path, req[r].key>>
InFlight(r) == pc[r] \notin {"idle", "done"}

GoTo(r, step) == pc' = [pc EXCEPT ![r] = step]

Reply(r, answer) ==
  /\ GoTo(r, "done")
  /\ response' = [response EXCEPT ![r] = answer]

Mishap == mishaps < Mishaps /\ mishaps' = mishaps + 1

\* r's call to the cache may or may not have been carried out when it fails.
Unsure(r, entry) == cache' = cache \/ cache' = [cache EXCEPT ![Slot(r)] = entry]

Begin(r) ==
  /\ pc[r] = "idle"
  /\ \E q \in Request : req' = [req EXCEPT ![r] = q]
  /\ GoTo(r, "get")
  /\ UNCHANGED <<response, cache, rows, mishaps>>

\* Mutant: the body of the earlier request is not compared.
Hit_AnyBody(r, entry) ==
  IF entry.status = "processing" THEN Answer("busy")
                                 ELSE [kind |-> "ok", row |-> entry.row]

\* Mutant: the body is compared with an entry that has no hash as well.
Hit_EmptyHash(r, entry) ==
  IF entry.body # req[r].body          THEN Answer("conflict")
  ELSE IF entry.status = "processing"  THEN Answer("busy")
                                       ELSE [kind |-> "ok", row |-> entry.row]

\* What an existing entry answers.  An entry in processing has no hash yet.
Hit(r, entry) ==
  IF entry.status = "processing"    THEN Answer("busy")
  ELSE IF entry.body # req[r].body  THEN Answer("conflict")
                                    ELSE [kind |-> "ok", row |-> entry.row]

Get(r) ==
  /\ pc[r] = "get"
  /\ LET entry == cache[Slot(r)] IN
       IF entry = NoEntry THEN GoTo(r, "mark") /\ UNCHANGED response
                          ELSE Reply(r, Hit(r, entry))
  /\ UNCHANGED <<req, cache, rows, mishaps>>

GetFails(r) ==
  /\ pc[r] = "get"
  /\ Mishap
  /\ Reply(r, Answer("error"))
  /\ UNCHANGED <<req, cache, rows>>

\* The entry is set whatever has been stored there since r missed it.
MarkAsProcessing(r) ==
  /\ pc[r] = "mark"
  /\ cache' = [cache EXCEPT ![Slot(r)] = Processing]
  /\ GoTo(r, "handle")
  /\ UNCHANGED <<req, response, rows, mishaps>>

MarkFails(r) ==
  /\ pc[r] = "mark"
  /\ Mishap
  /\ Unsure(r, Processing)
  /\ Reply(r, Answer("error"))
  /\ UNCHANGED <<req, rows>>

-----------------------------------------------------------------------------
(* The handlers.                                                           *)

\* Mutant: no unique index.
Earlier_NoIndex(r) == {w \in rows : FALSE}

\* What is in r's way: a row of its key in the table, or an earlier closing.
Earlier(r) ==
  IF req[r].path \in Inserting
    THEN {w \in rows : /\ w.path \in Inserting
                       /\ Table[w.path] = Table[req[r].path]
                       /\ w.key = req[r].key}
    ELSE {w \in rows : w.path = req[r].path}

NewRow(r) == [path |-> req[r].path, key |-> req[r].key, body |-> req[r].body,
              by |-> r]

Handled(r, step, answer) ==
  /\ GoTo(r, step)
  /\ response' = [response EXCEPT ![r] = answer]
  /\ UNCHANGED <<req, cache, mishaps>>

Apply(r) ==
  /\ pc[r] = "handle"
  /\ Earlier(r) = {}
  /\ rows' = rows \cup {NewRow(r)}
  /\ Handled(r, "store", [kind |-> "ok", row |-> NewRow(r)])

\* A unique violation, or a bill that is closed already.
AlreadyApplied(r) ==
  /\ pc[r] = "handle"
  /\ Earlier(r) # {}
  /\ IF req[r].path \in Inserting
       THEN Handled(r, "drop", Answer("exists"))
       ELSE \E w \in Earlier(r) :
              Handled(r, "store", [kind |-> "ok", row |-> w])
  /\ UNCHANGED rows

\* Any other error, possibly after the commit.
HandlerFails(r) ==
  /\ pc[r] = "handle"
  /\ rows' = rows \/ (Earlier(r) = {} /\ rows' = rows \cup {NewRow(r)})
  /\ Handled(r, "drop", Answer("error"))

-----------------------------------------------------------------------------
\* Mutant: the hash and the response are not stored.
MarkAsCompleted_NoPayload(r) ==
  /\ pc[r] = "store"
  /\ cache' = [cache EXCEPT ![Slot(r)] =
       [status |-> "completed", body |-> req[r].body, row |-> req[r].body]]
  /\ GoTo(r, "done")
  /\ UNCHANGED <<req, response, rows, mishaps>>

\* Mutant: the processing entry is deleted in any case.
MarkAsCompleted_Deleted(r) ==
  /\ pc[r] = "store"
  /\ cache' = [cache EXCEPT ![Slot(r)] = NoEntry]
  /\ GoTo(r, "done")
  /\ UNCHANGED <<req, response, rows, mishaps>>

Completed(r) == [status |-> "completed", body |-> req[r].body,
                 row |-> response[r].row]

MarkAsCompleted(r) ==
  /\ pc[r] = "store"
  /\ cache' = [cache EXCEPT ![Slot(r)] = Completed(r)]
  /\ GoTo(r, "done")
  /\ UNCHANGED <<req, response, rows, mishaps>>

\* Mutant: the entry of a request that failed is left in the cache.
DeleteEntry_Forgotten(r) ==
  /\ pc[r] = "drop"
  /\ GoTo(r, "done")
  /\ UNCHANGED <<req, response, cache, rows, mishaps>>

DeleteEntry(r) ==
  /\ pc[r] = "drop"
  /\ cache' = [cache EXCEPT ![Slot(r)] = NoEntry]
  /\ GoTo(r, "done")
  /\ UNCHANGED <<req, response, rows, mishaps>>

\* The last call to the cache fails, also because the client has gone and the
\* context of the request with it.  It is only logged.
LastCallFails(r) ==
  /\ Mishap
  /\ \/ pc[r] = "store" /\ Unsure(r, Completed(r))
     \/ pc[r] = "drop" /\ Unsure(r, NoEntry)
  /\ GoTo(r, "done")
  /\ UNCHANGED <<req, response, rows>>

\* The instance dies; the client gets no answer.
Die(r) ==
  /\ InFlight(r)
  /\ Mishap
  /\ Reply(r, Answer("none"))
  /\ UNCHANGED <<req, cache, rows>>

\* The entry is 24 hours old, or evicted.
Expire(e) ==
  /\ cache[e] # NoEntry
  /\ Mishap
  /\ cache' = [cache EXCEPT ![e] = NoEntry]
  /\ UNCHANGED <<pc, req, response, rows>>

Next ==
  \/ \E r \in Requests :
       \/ Begin(r) \/ Get(r) \/ GetFails(r) \/ MarkAsProcessing(r) \/ MarkFails(r)
       \/ Apply(r) \/ AlreadyApplied(r) \/ HandlerFails(r)
       \/ MarkAsCompleted(r) \/ DeleteEntry(r) \/ LastCallFails(r) \/ Die(r)
  \/ \E e \in Paths \X Keys : Expire(e)

Spec == Init /\ [][Next]_vars
-----------------------------------------------------------------------------
Said(r, kind)    == pc[r] = "done" /\ response[r].kind = kind
Duplicates(r, q) == req[r].path = req[q].path /\ req[r].key = req[q].key

(* All clients that are told of success for a path and a key are shown the  *)
(* same row, the one that is stored: concurrent duplicates, overwritten and *)
(* lost entries and repeated closes never make a second one.                *)
SameAnswer ==
  \A r, q \in Requests :
    Said(r, "ok") /\ Said(q, "ok") /\ Duplicates(r, q) =>
      response[r].row = response[q].row /\ response[r].row \in rows

(* A client that is told of the success of an insertion has had its own     *)
(* content inserted, on its own path: a key that is used again with another *)
(* body, or for another bill, is refused, also while the first request is   *)
(* still on its way and has stored no hash to compare with.                 *)
AnswersOwnBody ==
  \A r \in Requests :
    Said(r, "ok") /\ req[r].path \in Inserting =>
      /\ response[r].row.body = req[r].body
      /\ response[r].row.path = req[r].path

(* A client is turned down only for what is stored: it is told of a         *)
(* conflict if a duplicate with another body was applied, and that its key  *)
(* exists if the table has it.  A first request that is on its way, has     *)
(* failed or was lost is no reason.                                         *)
RefusedRightly ==
  \A r \in Requests :
    /\ Said(r, "conflict") =>
         \E q \in Requests, w \in rows :
           /\ pc[q] # "idle" /\ Duplicates(r, q) /\ req[q].body # req[r].body
           /\ w.path = req[q].path
           /\ w.path \in Inserting => w.key = req[q].key /\ w.body = req[q].body
    /\ Said(r, "exists") =>
         \E w \in rows : /\ {w.path, req[r].path} \subseteq Inserting
                         /\ Table[w.path] = Table[req[r].path]
                         /\ w.key = req[r].key

(* A key is answered "Request is already being processed." because one is,  *)
(* or because of a mishap, and a mishap blocks one key at most: concurrent  *)
(* duplicates overwrite and delete each other's entries, but none is left   *)
(* behind by a request that came to its end.                                *)
MishapsBlock ==
  Cardinality({e \in Paths \X Keys :
                 /\ cache[e].status = "processing"
                 /\ ~ \E r \in Requests : InFlight(r) /\ Slot(r) = e})
    <= mishaps

(* After a success a duplicate that comes when all is quiet is answered     *)
(* from the cache, unless a concurrent duplicate was turned down and has    *)
(* deleted the entry.                                                       *)
Replayable ==
  mishaps = 0 =>
    \A r \in Requests : Said(r, "ok") =>
      \/ cache[Slot(r)].status = "completed"
           /\ cache[Slot(r)].row = response[r].row
      \/ \E q \in Requests \ {r} :
           /\ pc[q] # "idle"
           /\ Duplicates(r, q)
           /\ InFlight(q) \/ response[q].kind \in {"exists", "error"}
=============================================================================
