-------------------------- MODULE IdempotencyProofs --------------------------
(* What clients are answered, for any numbers of requests, paths, tables,   *)
(* keys and bodies, and any number of mishaps.                              *)
EXTENDS Idempotency, FiniteSetTheorems, TLAPS

\* The variables have their types, and a request that has begun is one.
Typed ==
  /\ TypeOK
  /\ \A r \in Requests : pc[r] # "idle" => req[r] \in Request

\* Two rows of which the second would have been turned down.
Clash(w, v) ==
  IF w.path \in Inserting
    THEN v.path \in Inserting /\ Table[v.path] = Table[w.path] /\ v.key = w.key
    ELSE v.path = w.path

RowsApart == \A w, v \in rows : Clash(w, v) => w = v

\* Of the stored rows, w may be shown to a request for that path and key with
\* that body.
Fit(stored, w, path, key, body) ==
  /\ w \in stored
  /\ w.path = path
  /\ path \in Inserting => w.key = key /\ w.body = body

\* What r has been answered, or will be answered once its entry is stored.
ReplyFits(r) ==
  /\ response[r].kind = "ok" =>
       /\ pc[r] # "idle"
       /\ Fit(rows, response[r].row, req[r].path, req[r].key, req[r].body)
  /\ pc[r] = "store" => response[r].kind = "ok"

EntryFits(path, key) ==
  LET entry == cache[<<path, key>>] IN
    \/ entry \in {NoEntry, Processing}
    \/ /\ entry.status = "completed"
       /\ Fit(rows, entry.row, path, key, entry.body)

IInv ==
  /\ Typed
  /\ RowsApart
  /\ \A r \in Requests : ReplyFits(r)
  /\ \A path \in Paths, key \in Keys : EntryFits(path, key)

-----------------------------------------------------------------------------
(* The entries that are written to the cache, and the types of the parts.   *)
LEMMA EntryTypes ==
  ASSUME Typed, NEW r \in Requests, pc[r] # "idle"
  PROVE  /\ Slot(r) \in Paths \X Keys
         /\ NoEntry \in Entry /\ Processing \in Entry
         /\ Completed(r) \in Entry
         /\ NewRow(r) \in Row
<1>1. req[r] \in Request /\ response[r] \in Response
  BY DEF Typed, TypeOK
<1>2. QED
  BY <1>1 DEF Slot, NoEntry, Processing, Completed, NewRow, Request, Response,
              Entry, Row

LEMMA AnswerTypes ==
  \A kind \in {"none", "busy", "conflict", "exists", "error"} :
    Answer(kind) \in Response
BY DEF Answer, Response

LEMMA TypedStep ==
  ASSUME Typed, [Next]_vars
  PROVE  Typed'
<1>1. /\ pc \in [Requests -> {"idle", "get", "mark", "handle", "store", "drop",
                              "done"}]
      /\ req \in [Requests -> Request \cup {Nothing}]
      /\ response \in [Requests -> Response]
      /\ cache \in [Paths \X Keys -> Entry]
      /\ rows \subseteq Row
      /\ mishaps \in 0..Mishaps
      /\ \A r \in Requests : pc[r] # "idle" => req[r] \in Request
  BY DEF Typed, TypeOK
<1>2. Mishap => mishaps' \in 0..Mishaps
  BY <1>1, MishapsAssumption DEF Mishap
<1>3. NoEntry \in Entry /\ Processing \in Entry
  BY DEF NoEntry, Processing, Entry
<1>4. ASSUME NEW r \in Requests, Begin(r)
      PROVE  Typed'
  BY <1>1, <1>4 DEF Begin, GoTo, Typed, TypeOK
<1>5. ASSUME NEW r \in Requests, Get(r)
      PROVE  Typed'
  <2>1. req[r] \in Request /\ Slot(r) \in Paths \X Keys
    BY <1>1, <1>5, EntryTypes DEF Get
  <2>2. cache[Slot(r)] \in Entry
    BY <1>1, <2>1
  <2>3. Hit(r, cache[Slot(r)]) \in Response
    BY <2>2, AnswerTypes DEF Hit, Entry, Response
  <2>4. QED
    BY <1>1, <1>5, <2>3 DEF Get, GoTo, Reply, Typed, TypeOK
<1>6. ASSUME NEW r \in Requests, GetFails(r)
      PROVE  Typed'
  BY <1>1, <1>2, <1>6, AnswerTypes DEF GetFails, Reply, GoTo, Typed, TypeOK
<1>7. ASSUME NEW r \in Requests, MarkAsProcessing(r)
      PROVE  Typed'
  BY <1>1, <1>3, <1>7 DEF MarkAsProcessing, GoTo, Typed, TypeOK
<1>8. ASSUME NEW r \in Requests, MarkFails(r)
      PROVE  Typed'
  BY <1>1, <1>2, <1>3, <1>8, AnswerTypes
     DEF MarkFails, Unsure, Reply, GoTo, Typed, TypeOK
<1>9. ASSUME NEW r \in Requests, Apply(r)
      PROVE  Typed'
  <2>1. NewRow(r) \in Row
    BY <1>9, EntryTypes DEF Apply
  <2>2. [kind |-> "ok", row |-> NewRow(r)] \in Response
    BY <2>1 DEF Response
  <2>3. QED
    BY <1>1, <1>9, <2>1, <2>2 DEF Apply, Handled, GoTo, Typed, TypeOK
<1>10. ASSUME NEW r \in Requests, AlreadyApplied(r)
       PROVE  Typed'
  <2>1. PICK step \in {"drop", "store"}, answer \in Response :
          Handled(r, step, answer) /\ rows' = rows
    <3>1. \A w \in Earlier(r) : [kind |-> "ok", row |-> w] \in Response
      BY <1>1 DEF Earlier, Response
    <3>2. QED
      BY <1>10, <3>1, AnswerTypes DEF AlreadyApplied
  <2>2. pc[r] # "idle"
    BY <1>10 DEF AlreadyApplied
  <2>3. QED
    BY <1>1, <2>1, <2>2 DEF Handled, GoTo, Typed, TypeOK
<1>11. ASSUME NEW r \in Requests, HandlerFails(r)
       PROVE  Typed'
  <2>1. NewRow(r) \in Row
    BY <1>11, EntryTypes DEF HandlerFails
  <2>2. QED
    BY <1>1, <1>11, <2>1, AnswerTypes
       DEF HandlerFails, Handled, GoTo, Typed, TypeOK
<1>12. ASSUME NEW r \in Requests, MarkAsCompleted(r) \/ DeleteEntry(r)
       PROVE  Typed'
  <2>1. Completed(r) \in Entry
    BY <1>12, EntryTypes DEF MarkAsCompleted, DeleteEntry
  <2>2. QED
    BY <1>1, <1>3, <1>12, <2>1
       DEF MarkAsCompleted, DeleteEntry, GoTo, Typed, TypeOK
<1>13. ASSUME NEW r \in Requests, LastCallFails(r)
       PROVE  Typed'
  <2>1. Completed(r) \in Entry
    BY <1>13, EntryTypes DEF LastCallFails
  <2>2. QED
    BY <1>1, <1>2, <1>3, <1>13, <2>1
       DEF LastCallFails, Unsure, GoTo, Typed, TypeOK
<1>14. ASSUME NEW r \in Requests, Die(r)
       PROVE  Typed'
  BY <1>1, <1>2, <1>14, AnswerTypes DEF Die, Reply, GoTo, InFlight, Typed, TypeOK
<1>15. ASSUME NEW e \in Paths \X Keys, Expire(e)
       PROVE  Typed'
  BY <1>1, <1>2, <1>3, <1>15 DEF Expire, Typed, TypeOK
<1>16. CASE UNCHANGED vars
  BY <1>1, <1>16 DEF vars, Typed, TypeOK
<1>17. QED
  BY <1>4, <1>5, <1>6, <1>7, <1>8, <1>9, <1>10, <1>11, <1>12, <1>13, <1>14,
     <1>15, <1>16 DEF Next

LEMMA InitTyped == Init => Typed
BY MishapsAssumption, AnswerTypes DEF Init, Typed, TypeOK, NoEntry, Entry

(* Requests, answers, entries and rows keep their types.                    *)
THEOREM TypeCorrect == Spec => []TypeOK
<1>1. Typed => TypeOK
  BY DEF Typed
<1>2. QED
  BY <1>1, InitTyped, TypedStep, PTL DEF Spec

-----------------------------------------------------------------------------
(* Rows are only added, and only where no earlier one is in the way.        *)
LEMMA RowsStep ==
  [Next]_vars =>
    \/ rows' = rows
    \/ \E r \in Requests : /\ pc[r] = "handle" /\ Earlier(r) = {}
                           /\ rows' = rows \cup {NewRow(r)}
BY DEF Next, vars, Begin, Get, GetFails, MarkAsProcessing, MarkFails, Apply,
       AlreadyApplied, HandlerFails, MarkAsCompleted, DeleteEntry,
       LastCallFails, Die, Expire

LEMMA FitKept ==
  ASSUME [Next]_vars, NEW w, NEW path, NEW key, NEW body,
         Fit(rows, w, path, key, body)
  PROVE  Fit(rows', w, path, key, body)
BY RowsStep DEF Fit

LEMMA RowsApartStep ==
  ASSUME Typed, RowsApart, [Next]_vars
  PROVE  RowsApart'
<1>1. CASE rows' = rows
  BY <1>1 DEF RowsApart, Clash
<1>2. ASSUME NEW r \in Requests, pc[r] = "handle", Earlier(r) = {},
             rows' = rows \cup {NewRow(r)}
      PROVE  RowsApart'
  <2>1. /\ NewRow(r).path = req[r].path
        /\ NewRow(r).key = req[r].key
    BY DEF NewRow
  <2>2. \A w \in rows : ~ Clash(w, NewRow(r)) /\ ~ Clash(NewRow(r), w)
    BY <1>2, <2>1 DEF Clash, Earlier
  <2>3. QED
    BY <1>2, <2>2 DEF RowsApart, Clash
<1>3. QED
  BY <1>1, <1>2, RowsStep

(* A step is one of the evictions, or concerns one request.                 *)
LEMMA OneActs ==
  ASSUME Typed, [Next]_vars, NEW q \in Requests
  PROVE  \/ /\ pc'[q] = pc[q] /\ req'[q] = req[q] /\ response'[q] = response[q]
         \/ \/ Begin(q) \/ Get(q) \/ GetFails(q) \/ MarkAsProcessing(q)
            \/ MarkFails(q) \/ Apply(q) \/ AlreadyApplied(q) \/ HandlerFails(q)
            \/ MarkAsCompleted(q) \/ DeleteEntry(q) \/ LastCallFails(q) \/ Die(q)
<1>1. ASSUME NEW r \in Requests, r # q,
             \/ Begin(r) \/ Get(r) \/ GetFails(r) \/ MarkAsProcessing(r)
             \/ MarkFails(r) \/ Apply(r) \/ AlreadyApplied(r) \/ HandlerFails(r)
             \/ MarkAsCompleted(r) \/ DeleteEntry(r) \/ LastCallFails(r) \/ Die(r)
      PROVE  pc'[q] = pc[q] /\ req'[q] = req[q] /\ response'[q] = response[q]
  BY <1>1 DEF Typed, TypeOK, Begin, Get, GetFails, MarkAsProcessing, MarkFails,
              Apply, AlreadyApplied, HandlerFails, MarkAsCompleted, DeleteEntry,
              LastCallFails, Die, Handled, GoTo, Reply
<1>2. ASSUME NEW e \in Paths \X Keys, Expire(e)
      PROVE  pc'[q] = pc[q] /\ req'[q] = req[q] /\ response'[q] = response[q]
  BY <1>2 DEF Expire
<1>3. QED
  BY <1>1, <1>2 DEF Next, vars

(* An answer of success is the row of the handler, or that of the entry.    *)
LEMMA ReplyFitsStep ==
  ASSUME IInv, [Next]_vars, NEW q \in Requests
  PROVE  ReplyFits(q)'
<1>1. /\ Typed /\ ReplyFits(q)
      /\ pc[q] # "idle" => req[q] \in Request
      /\ pc \in [Requests -> {"idle", "get", "mark", "handle", "store", "drop",
                              "done"}]
      /\ response \in [Requests -> Response]
      /\ req \in [Requests -> Request \cup {Nothing}]
  BY DEF IInv, Typed, TypeOK
<1>2. CASE /\ pc'[q] = pc[q] /\ req'[q] = req[q] /\ response'[q] = response[q]
  <2>1. response[q].kind = "ok" =>
          /\ pc[q] # "idle"
          /\ Fit(rows', response[q].row, req[q].path, req[q].key, req[q].body)
    BY <1>1, FitKept DEF ReplyFits
  <2>2. QED
    BY <1>1, <1>2, <2>1 DEF ReplyFits
<1>3. CASE Begin(q)
  <2>1. response[q].kind # "ok" /\ response' = response /\ pc'[q] = "get"
    BY <1>1, <1>3 DEF Begin, GoTo, ReplyFits
  <2>2. QED
    BY <2>1 DEF ReplyFits
<1>4. CASE Get(q)
  <2> DEFINE entry == cache[Slot(q)]
  <2>1. CASE entry = NoEntry
    <3>1. pc'[q] = "mark" /\ response' = response /\ req' = req /\ rows' = rows
      BY <1>1, <1>4, <2>1 DEF Get, GoTo
    <3>2. pc[q] = "get"
      BY <1>4 DEF Get
    <3>3. QED
      BY <1>1, <3>1, <3>2 DEF ReplyFits, Fit
  <2>2. CASE entry # NoEntry
    <3>1. /\ pc'[q] = "done" /\ response'[q] = Hit(q, entry)
          /\ req' = req /\ rows' = rows
      BY <1>1, <1>4, <2>2 DEF Get, Reply, GoTo
    <3>2. req[q] \in Request
      BY <1>1, <1>4 DEF Get
    <3>3. req[q].path \in Paths /\ req[q].key \in Keys
      BY <3>2 DEF Request
    <3>4. EntryFits(req[q].path, req[q].key)
      BY <3>3 DEF IInv
    <3>5. entry = cache[<<req[q].path, req[q].key>>] /\ entry \in Entry
      BY <1>1, <3>3 DEF Slot, Typed, TypeOK
    <3> HIDE DEF entry
    <3>6. ASSUME Hit(q, entry).kind = "ok"
          PROVE  Fit(rows, Hit(q, entry).row, req[q].path, req[q].key,
                     req[q].body)
      <4>1. /\ entry.status # "processing" /\ entry.body = req[q].body
            /\ Hit(q, entry).row = entry.row
        BY <3>6 DEF Hit, Answer
      <4>2. entry \notin {NoEntry, Processing}
        BY <2>2, <4>1 DEF Processing
      <4>3. Fit(rows, entry.row, req[q].path, req[q].key, entry.body)
        BY <3>4, <3>5, <4>2 DEF EntryFits
      <4>4. QED
        BY <4>1, <4>3
    <3>7. QED
      BY <3>1, <3>6 DEF ReplyFits, Fit
  <2>3. QED
    BY <2>1, <2>2
<1>5. CASE GetFails(q) \/ MarkFails(q) \/ Die(q) \/ HandlerFails(q)
  <2>1. response'[q].kind \in {"error", "none"} /\ pc'[q] \in {"done", "drop"}
    BY <1>1, <1>5 DEF GetFails, MarkFails, Die, HandlerFails, Handled, Reply,
                      GoTo, Answer
  <2>2. QED
    BY <2>1 DEF ReplyFits
<1>6. CASE MarkAsProcessing(q) \/ MarkAsCompleted(q) \/ DeleteEntry(q)
             \/ LastCallFails(q)
  <2>1. /\ response' = response /\ req' = req /\ rows' = rows
        /\ pc[q] # "idle" /\ pc'[q] \in {"handle", "done"}
    BY <1>1, <1>6 DEF MarkAsProcessing, MarkAsCompleted, DeleteEntry,
                      LastCallFails, GoTo
  <2>2. QED
    BY <1>1, <2>1 DEF ReplyFits, Fit
<1>7. CASE Apply(q)
  <2>1. /\ pc'[q] = "store" /\ req' = req /\ rows' = rows \cup {NewRow(q)}
        /\ response'[q] = [kind |-> "ok", row |-> NewRow(q)]
    BY <1>1, <1>7 DEF Apply, Handled, GoTo
  <2>2. QED
    BY <2>1 DEF ReplyFits, Fit, NewRow
<1>8. CASE AlreadyApplied(q)
  <2>1. CASE req[q].path \in Inserting
    <3>1. pc'[q] = "drop" /\ response'[q].kind = "exists"
      BY <1>1, <1>8, <2>1 DEF AlreadyApplied, Handled, GoTo, Answer
    <3>2. QED
      BY <3>1 DEF ReplyFits
  <2>2. CASE req[q].path \notin Inserting
    <3>1. PICK w \in Earlier(q) :
            Handled(q, "store", [kind |-> "ok", row |-> w]) /\ rows' = rows
      BY <1>8, <2>2 DEF AlreadyApplied
    <3>2. /\ pc'[q] = "store" /\ req' = req
          /\ response'[q] = [kind |-> "ok", row |-> w]
      BY <1>1, <3>1 DEF Handled, GoTo
    <3>3. w \in rows /\ w.path = req[q].path
      BY <2>2 DEF Earlier
    <3>4. QED
      BY <2>2, <3>1, <3>2, <3>3 DEF ReplyFits, Fit
  <2>3. QED
    BY <2>1, <2>2
<1>9. QED
  BY <1>1, <1>2, <1>3, <1>4, <1>5, <1>6, <1>7, <1>8, OneActs

(* What a request leaves in the cache when it is done fits its own key.     *)
LEMMA CacheStep ==
  ASSUME Typed, [Next]_vars
  PROVE  \/ cache' = cache
         \/ \E e \in Paths \X Keys, entry \in {NoEntry, Processing} :
              cache' = [cache EXCEPT ![e] = entry]
         \/ \E r \in Requests :
              pc[r] = "store" /\ cache' = [cache EXCEPT ![Slot(r)] = Completed(r)]
<1>1. ASSUME NEW r \in Requests, pc[r] # "idle"
      PROVE  Slot(r) \in Paths \X Keys
  BY <1>1, EntryTypes
<1>2. ASSUME NEW r \in Requests, Begin(r) \/ Get(r) \/ GetFails(r) \/ Apply(r)
                                  \/ AlreadyApplied(r) \/ HandlerFails(r) \/ Die(r)
      PROVE  cache' = cache
  BY <1>2 DEF Begin, Get, GetFails, Apply, AlreadyApplied, HandlerFails, Die,
              Handled
<1>3. ASSUME NEW r \in Requests,
             MarkAsProcessing(r) \/ MarkFails(r) \/ DeleteEntry(r)
               \/ (LastCallFails(r) /\ pc[r] # "store")
      PROVE  \/ cache' = cache
             \/ \E e \in Paths \X Keys, entry \in {NoEntry, Processing} :
                  cache' = [cache EXCEPT ![e] = entry]
  <2>1. pc[r] # "idle"
    BY <1>3 DEF MarkAsProcessing, MarkFails, DeleteEntry, LastCallFails
  <2>2. \/ cache' = cache
        \/ cache' = [cache EXCEPT ![Slot(r)] = Processing]
        \/ cache' = [cache EXCEPT ![Slot(r)] = NoEntry]
    BY <1>3 DEF MarkAsProcessing, MarkFails, DeleteEntry, LastCallFails, Unsure
  <2>3. QED
    BY <1>1, <2>1, <2>2
<1>4. ASSUME NEW r \in Requests,
             MarkAsCompleted(r) \/ (LastCallFails(r) /\ pc[r] = "store")
      PROVE  \/ cache' = cache
             \/ /\ pc[r] = "store"
                /\ cache' = [cache EXCEPT ![Slot(r)] = Completed(r)]
  BY <1>4 DEF MarkAsCompleted, LastCallFails, Unsure
<1>5. ASSUME NEW e \in Paths \X Keys, Expire(e)
      PROVE  cache' = [cache EXCEPT ![e] = NoEntry]
  BY <1>5 DEF Expire
<1>6. CASE UNCHANGED vars
  BY <1>6 DEF vars
<1>7. QED
  BY <1>2, <1>3, <1>4, <1>5, <1>6 DEF Next

LEMMA EntryFitsStep ==
  ASSUME IInv, [Next]_vars, NEW path \in Paths, NEW key \in Keys
  PROVE  EntryFits(path, key)'
<1> DEFINE entry == cache[<<path, key>>]
           written == cache'[<<path, key>>]
<1>1. /\ Typed /\ cache \in [Paths \X Keys -> Entry]
      /\ <<path, key>> \in Paths \X Keys
  BY DEF IInv, Typed, TypeOK
<1>2. \/ entry \in {NoEntry, Processing}
      \/ /\ entry.status = "completed"
         /\ Fit(rows', entry.row, path, key, entry.body)
  <2>1. EntryFits(path, key)
    BY DEF IInv
  <2>2. QED
    BY <2>1, FitKept DEF EntryFits
<1>3. \/ written = entry
      \/ written \in {NoEntry, Processing}
      \/ \E r \in Requests : /\ pc[r] = "store" /\ Slot(r) = <<path, key>>
                             /\ written = Completed(r)
  BY <1>1, CacheStep
<1>4. ASSUME NEW r \in Requests, pc[r] = "store", Slot(r) = <<path, key>>,
             written = Completed(r)
      PROVE  /\ written.status = "completed"
             /\ Fit(rows', written.row, path, key, written.body)
  <2>1. /\ written.status = "completed"
        /\ written.row = response[r].row /\ written.body = req[r].body
        /\ req[r].path = path /\ req[r].key = key
    BY <1>4 DEF Completed, Slot
  <2>2. Fit(rows, response[r].row, req[r].path, req[r].key, req[r].body)
    BY <1>4 DEF IInv, ReplyFits
  <2>3. Fit(rows', response[r].row, req[r].path, req[r].key, req[r].body)
    BY <2>2, FitKept
  <2>4. QED
    BY <2>1, <2>3
<1>5. \/ written \in {NoEntry, Processing}
      \/ /\ written.status = "completed"
         /\ Fit(rows', written.row, path, key, written.body)
  BY <1>2, <1>3, <1>4
<1>6. QED
  BY <1>5 DEF EntryFits, NoEntry, Processing

LEMMA Initially == Init => IInv
BY InitTyped
   DEF Init, IInv, RowsApart, ReplyFits, EntryFits, Answer, NoEntry

LEMMA Step == IInv /\ [Next]_vars => IInv'
<1> SUFFICES ASSUME IInv, [Next]_vars
             PROVE  IInv'
  OBVIOUS
<1>1. Typed' /\ RowsApart'
  BY TypedStep, RowsApartStep DEF IInv
<1>2. \A r \in Requests : ReplyFits(r)'
  BY ReplyFitsStep
<1>3. \A path \in Paths, key \in Keys : EntryFits(path, key)'
  BY EntryFitsStep
<1>4. QED
  BY <1>1, <1>2, <1>3 DEF IInv

(* Two rows that fit one path and key would be in each other's way.         *)
LEMMA OneFits ==
  ASSUME RowsApart, NEW path, NEW key, NEW w, NEW v, NEW body, NEW other,
         Fit(rows, w, path, key, body), Fit(rows, v, path, key, other)
  PROVE  w = v
<1>1. Clash(w, v)
  BY DEF Clash, Fit
<1>2. QED
  BY <1>1 DEF RowsApart, Fit

(* All clients that are told of success for a path and a key are shown the  *)
(* same row, and it is stored: of two different rows the handler would have *)
(* turned the second one down.                                              *)
THEOREM SameAnswerCorrect == Spec => []SameAnswer
<1>1. IInv => SameAnswer
  <2> SUFFICES ASSUME IInv, NEW r \in Requests, NEW q \in Requests,
                      Said(r, "ok"), Said(q, "ok"), Duplicates(r, q)
               PROVE  /\ response[r].row = response[q].row
                      /\ response[r].row \in rows
    BY DEF SameAnswer
  <2> DEFINE w == response[r].row
             v == response[q].row
  <2>1. /\ Fit(rows, w, req[r].path, req[r].key, req[r].body)
        /\ Fit(rows, v, req[r].path, req[r].key, req[q].body)
    BY DEF IInv, ReplyFits, Said, Duplicates
  <2>2. w = v
    BY <2>1, OneFits DEF IInv
  <2>3. QED
    BY <2>1, <2>2 DEF Fit
<1>2. QED
  BY <1>1, Initially, Step, PTL DEF Spec

(* A client that is told of the success of an insertion has had its own     *)
(* content inserted, on its own path.                                       *)
THEOREM AnswersOwnBodyCorrect == Spec => []AnswersOwnBody
<1>1. IInv => AnswersOwnBody
  BY DEF IInv, ReplyFits, Fit, AnswersOwnBody, Said
<1>2. QED
  BY <1>1, Initially, Step, PTL DEF Spec

-----------------------------------------------------------------------------
(* What clients are refused for.                                            *)

\* q has begun, and w is what was applied for it or its duplicates.
Applied(q, w) ==
  pc[q] # "idle" /\ Fit(rows, w, req[q].path, req[q].key, req[q].body)

\* w has taken r's key in its table.
Takes(w, r) ==
  /\ {w.path, req[r].path} \subseteq Inserting
  /\ Table[w.path] = Table[req[r].path] /\ w.key = req[r].key

\* The hash of a completed entry is that of a request for its path and key.
EntryFrom(path, key) ==
  cache[<<path, key>>].status = "completed" =>
    \E q \in Requests : /\ pc[q] # "idle" /\ req[q].path = path /\ req[q].key = key
                        /\ req[q].body = cache[<<path, key>>].body

Grounded(r) ==
  /\ response[r].kind \in {"conflict", "exists"} => pc[r] # "idle"
  /\ response[r].kind = "conflict" =>
       \E q \in Requests, w \in rows :
         Applied(q, w) /\ Duplicates(r, q) /\ req[q].body # req[r].body
  /\ response[r].kind = "exists" => \E w \in rows : Takes(w, r)

RefusedInv ==
  /\ \A path \in Paths, key \in Keys : EntryFrom(path, key)
  /\ \A r \in Requests : Grounded(r)

LEMMA Begun ==
  ASSUME Typed, [Next]_vars, NEW q \in Requests, pc[q] # "idle"
  PROVE  pc'[q] # "idle" /\ req'[q] = req[q]
BY OneActs DEF Typed, TypeOK, Begin, Get, GetFails, MarkAsProcessing, MarkFails,
               Apply, AlreadyApplied, HandlerFails, MarkAsCompleted,
               DeleteEntry, LastCallFails, Die, Handled, GoTo, Reply

LEMMA RowsStay == [Next]_vars => rows \subseteq rows'
BY RowsStep

LEMMA AppliedStays ==
  ASSUME Typed, [Next]_vars, NEW q \in Requests, NEW w, Applied(q, w)
  PROVE  Applied(q, w)'
BY Begun, FitKept DEF Applied

LEMMA EntryFromStep ==
  ASSUME Typed, RefusedInv, [Next]_vars, NEW path \in Paths, NEW key \in Keys
  PROVE  EntryFrom(path, key)'
<1> DEFINE entry == cache[<<path, key>>]
           written == cache'[<<path, key>>]
<1> SUFFICES ASSUME written.status = "completed"
             PROVE  \E q \in Requests :
                      /\ pc'[q] # "idle" /\ req'[q].path = path
                      /\ req'[q].key = key /\ req'[q].body = written.body
  BY DEF EntryFrom
<1>1. cache \in [Paths \X Keys -> Entry] /\ <<path, key>> \in Paths \X Keys
  BY DEF Typed, TypeOK
<1>2. \/ written = entry
      \/ \E r \in Requests : /\ pc[r] = "store" /\ Slot(r) = <<path, key>>
                             /\ written = Completed(r)
  <2>1. written \notin {NoEntry, Processing}
    BY DEF NoEntry, Processing
  <2>2. QED
    BY <1>1, <2>1, CacheStep
<1>3. PICK q \in Requests : /\ pc[q] # "idle" /\ req[q].path = path
                           /\ req[q].key = key /\ req[q].body = written.body
  <2>1. CASE written = entry
    <3>1. EntryFrom(path, key)
      BY DEF RefusedInv
    <3>2. QED
      BY <2>1, <3>1 DEF EntryFrom
  <2>2. CASE \E r \in Requests : /\ pc[r] = "store" /\ Slot(r) = <<path, key>>
                                /\ written = Completed(r)
    BY <2>2 DEF Completed, Slot
  <2>3. QED
    BY <1>2, <2>1, <2>2
<1>4. QED
  BY <1>3, Begun

LEMMA GroundedStep ==
  ASSUME IInv, RefusedInv, [Next]_vars, NEW r \in Requests
  PROVE  Grounded(r)'
<1>1. /\ Typed /\ Grounded(r)
      /\ pc \in [Requests -> {"idle", "get", "mark", "handle", "store", "drop",
                              "done"}]
      /\ response \in [Requests -> Response]
  BY DEF IInv, RefusedInv, Typed, TypeOK
<1>2. CASE response'[r] = response[r]
  <2>1. response[r].kind \in {"conflict", "exists"} =>
          pc[r] # "idle" /\ pc'[r] # "idle" /\ req'[r] = req[r]
    BY <1>1, Begun DEF Grounded
  <2>2. ASSUME response[r].kind = "conflict"
        PROVE  \E q \in Requests, w \in rows' :
                 Applied(q, w)' /\ Duplicates(r, q)' /\ req'[q].body # req'[r].body
    <3>1. PICK q \in Requests, w \in rows :
            Applied(q, w) /\ Duplicates(r, q) /\ req[q].body # req[r].body
      BY <1>1, <2>2 DEF Grounded
    <3>2. Applied(q, w)' /\ req'[q] = req[q] /\ w \in rows'
      BY <1>1, <3>1, AppliedStays, Begun, RowsStay DEF Applied
    <3>3. QED
      BY <2>1, <2>2, <3>1, <3>2 DEF Duplicates
  <2>3. ASSUME response[r].kind = "exists"
        PROVE  \E w \in rows' : Takes(w, r)'
    BY <1>1, <2>1, <2>3, RowsStay DEF Grounded, Takes
  <2>4. QED
    BY <1>2, <2>1, <2>2, <2>3 DEF Grounded
<1>3. CASE Get(r) /\ cache[Slot(r)] # NoEntry
  <2> DEFINE entry == cache[Slot(r)]
  <2>1. /\ response'[r] = Hit(r, entry) /\ pc'[r] = "done" /\ pc[r] = "get"
        /\ req' = req
    BY <1>1, <1>3 DEF Get, Reply, GoTo
  <2>2. req[r].path \in Paths /\ req[r].key \in Keys
    BY <1>1, <2>1 DEF Typed, Request
  <2>3. ASSUME Hit(r, entry).kind = "conflict"
        PROVE  \E q \in Requests, w \in rows' :
                 Applied(q, w)' /\ Duplicates(r, q)' /\ req'[q].body # req'[r].body
    <3>1. entry.status # "processing" /\ entry.body # req[r].body
      BY <2>3 DEF Hit, Answer
    <3>2. /\ entry.status = "completed"
          /\ Fit(rows, entry.row, req[r].path, req[r].key, entry.body)
      BY <1>3, <2>2, <3>1 DEF IInv, EntryFits, Slot, Processing
    <3>3. PICK q \in Requests : /\ pc[q] # "idle" /\ req[q].path = req[r].path
                               /\ req[q].key = req[r].key
                               /\ req[q].body = entry.body
      BY <2>2, <3>2 DEF RefusedInv, EntryFrom, Slot
    <3>4. PICK w \in rows : Applied(q, w)
      BY <3>2, <3>3 DEF Applied, Fit
    <3>5. Applied(q, w)' /\ w \in rows'
      BY <1>1, <3>4, AppliedStays, RowsStay
    <3>6. QED
      BY <2>1, <3>1, <3>3, <3>5 DEF Duplicates
  <2>4. Hit(r, entry).kind # "exists"
    BY DEF Hit, Answer
  <2>5. QED
    BY <2>1, <2>3, <2>4 DEF Grounded
<1>4. CASE AlreadyApplied(r)
  <2>1. response'[r].kind # "conflict" /\ pc'[r] # "idle" /\ req' = req
    BY <1>1, <1>4 DEF AlreadyApplied, Handled, GoTo, Answer
  <2>2. ASSUME response'[r].kind = "exists"
        PROVE  \E w \in rows : Takes(w, r)
    <3>1. req[r].path \in Inserting /\ Earlier(r) # {}
      BY <1>1, <1>4, <2>2 DEF AlreadyApplied, Handled
    <3>2. QED
      BY <3>1 DEF Earlier, Takes
  <2>3. QED
    BY <2>1, <2>2, RowsStay DEF Grounded, Takes
<1>5. CASE \/ GetFails(r) \/ MarkFails(r) \/ Die(r) \/ HandlerFails(r) \/ Apply(r)
  <2>1. response'[r].kind \in {"error", "none", "ok"}
    BY <1>1, <1>5 DEF GetFails, MarkFails, Die, HandlerFails, Apply, Handled,
                      Reply, Answer
  <2>2. QED
    BY <2>1 DEF Grounded
<1>6. CASE \/ Begin(r) \/ MarkAsProcessing(r) \/ MarkAsCompleted(r)
           \/ DeleteEntry(r) \/ LastCallFails(r)
           \/ Get(r) /\ cache[Slot(r)] = NoEntry
  BY <1>2, <1>6 DEF Begin, MarkAsProcessing, MarkAsCompleted, DeleteEntry,
                    LastCallFails, Get
<1>7. QED
  BY <1>1, <1>2, <1>3, <1>4, <1>5, <1>6, OneActs

(* A conflict names content that was applied under the same key, and a key  *)
(* that exists is in the table: a client is never turned away for a request *)
(* that has not had its effect.                                             *)
THEOREM RefusedRightlyCorrect == Spec => []RefusedRightly
<1>1. Init => RefusedInv
  BY DEF Init, RefusedInv, EntryFrom, Grounded, NoEntry, Answer
<1>2. IInv /\ RefusedInv /\ [Next]_vars => RefusedInv'
  <2> SUFFICES ASSUME IInv, RefusedInv, [Next]_vars
               PROVE  RefusedInv'
    OBVIOUS
  <2>1. \A path \in Paths, key \in Keys : EntryFrom(path, key)'
    BY EntryFromStep DEF IInv
  <2>2. \A r \in Requests : Grounded(r)'
    BY GroundedStep
  <2>3. QED
    BY <2>1, <2>2 DEF RefusedInv
<1>3. RefusedInv => RefusedRightly
  BY DEF RefusedInv, Grounded, RefusedRightly, Said, Applied, Fit, Takes
<1>4. QED
  BY <1>1, <1>2, <1>3, Initially, Step, PTL DEF Spec

-----------------------------------------------------------------------------
(* Which entries are left in processing.                                    *)

\* Request r has marked its entry and has not come to its end.
Holds(r) == pc[r] \in {"handle", "store", "drop"}

\* The entries in processing that no request holds.
Left ==
  {e \in Paths \X Keys : /\ cache[e].status = "processing"
                         /\ \A r \in Requests : Holds(r) => Slot(r) # e}

FewLeft == IsFiniteSet(Left) /\ Cardinality(Left) <= mishaps

(* A step without a mishap leaves no further entry, one with a mishap at    *)
(* most one.                                                                *)
LEMMA LeftStep ==
  ASSUME Typed, [Next]_vars
  PROVE  \/ Left' \subseteq Left /\ mishaps' \in {mishaps, mishaps + 1}
         \/ \E e : Left' \subseteq Left \cup {e} /\ mishaps' = mishaps + 1
<1>1. /\ pc \in [Requests -> {"idle", "get", "mark", "handle", "store", "drop",
                              "done"}]
      /\ req \in [Requests -> Request \cup {Nothing}]
      /\ cache \in [Paths \X Keys -> Entry]
  BY DEF Typed, TypeOK
<1>2. ASSUME NEW r \in Requests,
             \/ Get(r) \/ GetFails(r) \/ Apply(r) \/ AlreadyApplied(r)
             \/ HandlerFails(r)
      PROVE  Left' \subseteq Left /\ mishaps' \in {mishaps, mishaps + 1}
  <2>1. /\ cache' = cache /\ req' = req /\ mishaps' \in {mishaps, mishaps + 1}
        /\ \A q \in Requests : Holds(q) => Holds(q)'
    BY <1>1, <1>2 DEF Get, GetFails, Apply, AlreadyApplied, HandlerFails,
                      Handled, Reply, GoTo, Mishap, Holds
  <2>2. QED
    BY <2>1 DEF Left, Slot
<1>3. ASSUME NEW r \in Requests, Begin(r)
      PROVE  Left' \subseteq Left /\ mishaps' = mishaps
  <2>1. /\ cache' = cache /\ mishaps' = mishaps
        /\ \A q \in Requests : Holds(q) => Holds(q)' /\ req'[q] = req[q]
    BY <1>1, <1>3 DEF Begin, GoTo, Holds
  <2>2. QED
    BY <2>1 DEF Left, Slot
<1>4. ASSUME NEW r \in Requests, MarkAsProcessing(r)
      PROVE  Left' \subseteq Left /\ mishaps' = mishaps
  <2>1. /\ req' = req /\ mishaps' = mishaps /\ Holds(r)'
        /\ cache' = [cache EXCEPT ![Slot(r)] = Processing]
        /\ \A q \in Requests : Holds(q) => Holds(q)'
    BY <1>1, <1>4 DEF MarkAsProcessing, GoTo, Holds
  <2>2. Slot(r)' = Slot(r)
    BY <2>1 DEF Slot
  <2>3. ASSUME NEW e \in Left'
        PROVE  e \in Left
    <3>1. e \in Paths \X Keys /\ e # Slot(r)
      BY <2>1, <2>2 DEF Left
    <3>2. cache'[e] = cache[e]
      BY <1>1, <2>1, <3>1
    <3>3. QED
      BY <2>1, <3>1, <3>2 DEF Left, Slot
  <2>4. QED
    BY <2>1, <2>3
<1>5. ASSUME NEW r \in Requests, MarkAsCompleted(r) \/ DeleteEntry(r)
      PROVE  Left' \subseteq Left /\ mishaps' = mishaps
  <2>1. /\ req' = req /\ mishaps' = mishaps
        /\ \E entry \in {Completed(r), NoEntry} :
             cache' = [cache EXCEPT ![Slot(r)] = entry]
        /\ \A q \in Requests \ {r} : Holds(q) => Holds(q)'
    BY <1>1, <1>5 DEF MarkAsCompleted, DeleteEntry, GoTo, Holds
  <2>2. ASSUME NEW e \in Left'
        PROVE  e \in Left
    <3>1. e \in Paths \X Keys /\ e # Slot(r)
      <4>1. e \in Paths \X Keys /\ cache'[e].status = "processing"
        BY <2>2 DEF Left
      <4>2. e = Slot(r) => cache'[e] \in {Completed(r), NoEntry}
        BY <1>1, <2>1, <4>1
      <4>3. QED
        BY <4>1, <4>2 DEF Completed, NoEntry
    <3>2. cache'[e] = cache[e]
      BY <1>1, <2>1, <3>1
    <3>3. QED
      BY <2>1, <2>2, <3>1, <3>2 DEF Left, Slot
  <2>3. QED
    BY <2>1, <2>2
<1>6. ASSUME NEW r \in Requests, MarkFails(r) \/ LastCallFails(r) \/ Die(r)
      PROVE  \E e : Left' \subseteq Left \cup {e} /\ mishaps' = mishaps + 1
  <2>1. /\ req' = req /\ mishaps' = mishaps + 1
        /\ \A q \in Requests \ {r} : Holds(q) => Holds(q)'
        /\ \/ cache' = cache
           \/ \E entry : cache' = [cache EXCEPT ![Slot(r)] = entry]
    BY <1>1, <1>6 DEF MarkFails, LastCallFails, Die, Unsure, Reply, GoTo,
                      Mishap, Holds
  <2>2. ASSUME NEW e \in Left', e # Slot(r)
        PROVE  e \in Left
    <3>1. e \in Paths \X Keys /\ cache'[e] = cache[e]
      BY <1>1, <2>1, <2>2 DEF Left
    <3>2. QED
      BY <2>1, <2>2, <3>1 DEF Left, Slot
  <2>3. Left' \subseteq Left \cup {Slot(r)}
    BY <2>2
  <2>4. QED
    BY <2>1, <2>3
<1>7. ASSUME NEW e \in Paths \X Keys, Expire(e)
      PROVE  Left' \subseteq Left /\ mishaps' = mishaps + 1
  <2>1. /\ pc' = pc /\ req' = req /\ mishaps' = mishaps + 1
        /\ cache' = [cache EXCEPT ![e] = NoEntry]
    BY <1>7 DEF Expire, Mishap
  <2>2. ASSUME NEW f \in Left'
        PROVE  f \in Left
    <3>1. f \in Paths \X Keys /\ cache'[f].status = "processing"
      BY <2>2 DEF Left
    <3>2. f # e
      BY <1>1, <2>1, <3>1 DEF NoEntry
    <3>3. cache'[f] = cache[f]
      BY <1>1, <2>1, <3>1, <3>2
    <3>4. QED
      BY <2>1, <2>2, <3>1, <3>3 DEF Left, Slot, Holds
  <2>3. QED
    BY <2>1, <2>2
<1>8. CASE UNCHANGED vars
  BY <1>8 DEF vars, Left, Slot, Holds
<1>9. QED
  BY <1>2, <1>3, <1>4, <1>5, <1>6, <1>7, <1>8 DEF Next

LEMMA FewLeftStep ==
  ASSUME Typed, FewLeft, [Next]_vars
  PROVE  FewLeft'
<1>1. /\ mishaps \in Nat /\ IsFiniteSet(Left) /\ Cardinality(Left) <= mishaps
      /\ Cardinality(Left) \in Nat
  BY FS_CardinalityType, MishapsAssumption DEF Typed, TypeOK, FewLeft
<1>2. CASE Left' \subseteq Left /\ mishaps' \in {mishaps, mishaps + 1}
  <2>1. /\ IsFiniteSet(Left') /\ Cardinality(Left') \in Nat
        /\ Cardinality(Left') <= Cardinality(Left)
    BY <1>1, <1>2, FS_Subset, FS_CardinalityType
  <2>2. QED
    BY <1>1, <1>2, <2>1 DEF FewLeft
<1>3. ASSUME NEW e, Left' \subseteq Left \cup {e}, mishaps' = mishaps + 1
      PROVE  FewLeft'
  <2> DEFINE more == Left \cup {e}
  <2>1. /\ IsFiniteSet(more) /\ Cardinality(more) \in Nat
        /\ Cardinality(more) <= Cardinality(Left) + 1
    BY <1>1, FS_AddElement, FS_CardinalityType
  <2>2. /\ IsFiniteSet(Left') /\ Cardinality(Left') \in Nat
        /\ Cardinality(Left') <= Cardinality(more)
    BY <1>3, <2>1, FS_Subset, FS_CardinalityType
  <2> HIDE DEF more
  <2>3. QED
    BY <1>1, <1>3, <2>1, <2>2 DEF FewLeft
<1>4. QED
  BY <1>2, <1>3, LeftStep

(* However many requests there are and however they interleave, there are   *)
(* never more keys blocked by a request that is over than there have been   *)
(* mishaps: a request that ends without one takes its entry away.           *)
THEOREM MishapsBlockCorrect == Spec => []MishapsBlock
<1>1. Init => FewLeft
  <2>1. Init => Left = {} /\ mishaps = 0
    BY DEF Init, Left, NoEntry
  <2>2. QED
    BY <2>1, FS_EmptySet DEF FewLeft
<1>2. Typed /\ FewLeft => MishapsBlock
  <2> SUFFICES ASSUME Typed, FewLeft
               PROVE  MishapsBlock
    OBVIOUS
  <2> DEFINE Blocked == {e \in Paths \X Keys :
                           /\ cache[e].status = "processing"
                           /\ ~ \E r \in Requests : InFlight(r) /\ Slot(r) = e}
  <2>1. Blocked \subseteq Left
    BY DEF Left, Holds, InFlight
  <2>2. /\ mishaps \in Nat /\ IsFiniteSet(Left) /\ Cardinality(Left) <= mishaps
        /\ Cardinality(Left) \in Nat
    BY FS_CardinalityType, MishapsAssumption DEF Typed, TypeOK, FewLeft
  <2>3. Cardinality(Blocked) \in Nat /\ Cardinality(Blocked) <= Cardinality(Left)
    BY <2>1, <2>2, FS_Subset, FS_CardinalityType
  <2>4. Cardinality(Blocked) <= mishaps
    BY <2>2, <2>3
  <2>5. QED
    BY <2>4 DEF MishapsBlock
<1>3. QED
  BY <1>1, <1>2, InitTyped, TypedStep, FewLeftStep, PTL DEF Spec

-----------------------------------------------------------------------------
(* What is left in the cache after a success.                               *)

\* r's success can be answered from the cache.
Stored(r) ==
  /\ cache[Slot(r)].status = "completed"
  /\ cache[Slot(r)].row = response[r].row

\* q is a duplicate of r that is on its way, or was turned down.
Disturbs(q, r) ==
  /\ q # r /\ pc[q] # "idle" /\ Duplicates(r, q)
  /\ InFlight(q) \/ response[q].kind \in {"exists", "error"}

\* Only a request that was turned down deletes its entry.
DropsRefused ==
  \A q \in Requests :
    pc[q] = "drop" => response[q].kind \in {"exists", "error"}

KeepInv == Typed /\ IInv /\ FewLeft /\ DropsRefused /\ Replayable

LEMMA ReplayableParts ==
  Replayable <=>
    (mishaps = 0 =>
       \A r \in Requests : Said(r, "ok") =>
         Stored(r) \/ \E q \in Requests : Disturbs(q, r))
BY DEF Replayable, Stored, Disturbs

LEMMA DropsRefusedStep ==
  ASSUME Typed, DropsRefused, [Next]_vars
  PROVE  DropsRefused'
<1> SUFFICES ASSUME NEW q \in Requests, pc'[q] = "drop"
             PROVE  response'[q].kind \in {"exists", "error"}
  BY DEF DropsRefused
<1>1. /\ pc \in [Requests -> {"idle", "get", "mark", "handle", "store", "drop",
                              "done"}]
      /\ response \in [Requests -> Response]
  BY DEF Typed, TypeOK
<1>2. CASE pc'[q] = pc[q] /\ response'[q] = response[q]
  BY <1>2 DEF DropsRefused
<1>3. CASE \/ Begin(q) \/ Get(q) \/ GetFails(q) \/ MarkAsProcessing(q)
           \/ MarkFails(q) \/ Apply(q) \/ MarkAsCompleted(q) \/ DeleteEntry(q)
           \/ LastCallFails(q) \/ Die(q)
  <2>1. pc'[q] \in {"get", "mark", "handle", "store", "done"}
    BY <1>1, <1>3 DEF Begin, Get, GetFails, MarkAsProcessing, MarkFails, Apply,
                      MarkAsCompleted, DeleteEntry, LastCallFails, Die, Handled,
                      GoTo, Reply
  <2>2. QED
    BY <2>1
<1>4. CASE AlreadyApplied(q) \/ HandlerFails(q)
  <2>1. \/ response'[q].kind \in {"exists", "error"}
        \/ pc'[q] = "store"
    BY <1>1, <1>4 DEF AlreadyApplied, HandlerFails, Handled, GoTo, Answer
  <2>2. QED
    BY <2>1
<1>5. QED
  BY <1>2, <1>3, <1>4, OneActs

(* Every row a duplicate of r may be shown, in the cache or by the handler, *)
(* is the row r was answered with.                                          *)
LEMMA RowOfSuccess ==
  ASSUME IInv, NEW r \in Requests, response[r].kind = "ok"
  PROVE  /\ cache[Slot(r)].status = "completed" =>
              cache[Slot(r)].row = response[r].row
         /\ \A q \in Requests : Duplicates(r, q) /\ response[q].kind = "ok" =>
              response[q].row = response[r].row
<1>1. /\ pc[r] # "idle" /\ req[r] \in Request
      /\ Fit(rows, response[r].row, req[r].path, req[r].key, req[r].body)
  BY DEF IInv, ReplyFits, Typed
<1>2. ASSUME cache[Slot(r)].status = "completed"
      PROVE  cache[Slot(r)].row = response[r].row
  <2>1. req[r].path \in Paths /\ req[r].key \in Keys
    BY <1>1 DEF Request
  <2>2. Fit(rows, cache[Slot(r)].row, req[r].path, req[r].key,
            cache[Slot(r)].body)
    BY <1>2, <2>1 DEF IInv, EntryFits, Slot, NoEntry, Processing
  <2>3. QED
    BY <1>1, <2>2, OneFits DEF IInv
<1>3. ASSUME NEW q \in Requests, Duplicates(r, q), response[q].kind = "ok"
      PROVE  response[q].row = response[r].row
  <2>1. Fit(rows, response[q].row, req[r].path, req[r].key, req[q].body)
    BY <1>3 DEF IInv, ReplyFits, Duplicates
  <2>2. QED
    BY <1>1, <2>1, OneFits DEF IInv
<1>4. QED
  BY <1>2, <1>3

\* A step in which nothing goes wrong.
Quiet(q) ==
  \/ Begin(q) \/ Get(q) \/ MarkAsProcessing(q) \/ Apply(q) \/ AlreadyApplied(q)
  \/ HandlerFails(q) \/ MarkAsCompleted(q) \/ DeleteEntry(q)

LEMMA QuietSteps ==
  ASSUME Typed, [Next]_vars, mishaps' = 0
  PROVE  /\ mishaps = 0
         /\ (\E q \in Requests : Quiet(q)) \/ UNCHANGED vars
<1>1. mishaps \in Nat
  BY MishapsAssumption DEF Typed, TypeOK
<1>2. ~ Mishap
  BY <1>1 DEF Mishap
<1>3. ASSUME NEW q \in Requests,
             GetFails(q) \/ MarkFails(q) \/ LastCallFails(q) \/ Die(q)
      PROVE  FALSE
  BY <1>2, <1>3 DEF GetFails, MarkFails, LastCallFails, Die
<1>4. ASSUME NEW e \in Paths \X Keys, Expire(e)
      PROVE  FALSE
  BY <1>2, <1>4 DEF Expire
<1>5. (\E q \in Requests : Quiet(q)) \/ UNCHANGED vars
  BY <1>3, <1>4 DEF Next, Quiet
<1>6. ASSUME NEW q \in Requests, Quiet(q)
      PROVE  mishaps' = mishaps
  BY <1>6 DEF Quiet, Begin, Get, MarkAsProcessing, Apply, AlreadyApplied,
              HandlerFails, MarkAsCompleted, DeleteEntry, Handled
<1>7. QED
  BY <1>5, <1>6 DEF vars

(* Without a mishap, an entry in processing has a request that holds it.    *)
LEMMA NoneLeft ==
  ASSUME FewLeft, mishaps = 0, NEW e \in Paths \X Keys,
         cache[e].status = "processing"
  PROVE  \E h \in Requests : Holds(h) /\ Slot(h) = e
<1>1. Cardinality(Left) = 0
  BY FS_CardinalityType DEF FewLeft
<1>2. Left = {}
  BY <1>1, FS_EmptySet DEF FewLeft
<1>3. QED
  BY <1>2 DEF Left

LEMMA EntryStatus ==
  ASSUME IInv, NEW r \in Requests, pc[r] # "idle"
  PROVE  \/ cache[Slot(r)] = NoEntry
         \/ cache[Slot(r)].status = "processing"
         \/ cache[Slot(r)].status = "completed"
<1>1. req[r].path \in Paths /\ req[r].key \in Keys
  BY DEF IInv, Typed, Request
<1>2. QED
  BY <1>1 DEF IInv, EntryFits, Slot, Processing

(* When r succeeds, its row is in the cache.                                *)
LEMMA StoredAtSuccess ==
  ASSUME KeepInv, NEW r \in Requests, Quiet(r), Said(r, "ok")'
  PROVE  Stored(r)'
<1>1. /\ Typed /\ IInv /\ DropsRefused
      /\ pc \in [Requests -> {"idle", "get", "mark", "handle", "store", "drop",
                              "done"}]
      /\ req \in [Requests -> Request \cup {Nothing}]
      /\ response \in [Requests -> Response]
      /\ cache \in [Paths \X Keys -> Entry]
  BY DEF KeepInv, Typed, TypeOK
<1>2. pc'[r] = "done" /\ response'[r].kind = "ok"
  BY DEF Said
<1>3. \/ Get(r) /\ cache[Slot(r)] # NoEntry
      \/ MarkAsCompleted(r)
  <2>1. ~ DeleteEntry(r)
    BY <1>1, <1>2 DEF DeleteEntry, DropsRefused
  <2>2. QED
    BY <1>1, <1>2, <2>1
       DEF Quiet, Begin, Get, MarkAsProcessing, Apply, AlreadyApplied,
           HandlerFails, Handled, GoTo
<1>4. CASE Get(r) /\ cache[Slot(r)] # NoEntry
  <2> DEFINE entry == cache[Slot(r)]
  <2>1. /\ response'[r] = Hit(r, entry) /\ cache' = cache /\ req' = req
        /\ pc[r] = "get"
    BY <1>1, <1>4 DEF Get, Reply
  <2>2. entry.status # "processing" /\ Hit(r, entry).row = entry.row
    BY <1>2, <2>1 DEF Hit, Answer
  <2>3. entry.status = "completed"
    BY <1>1, <1>4, <2>1, <2>2, EntryStatus
  <2>4. QED
    BY <2>1, <2>2, <2>3 DEF Stored, Slot
<1>5. CASE MarkAsCompleted(r)
  <2>1. /\ cache' = [cache EXCEPT ![Slot(r)] = Completed(r)]
        /\ req' = req /\ response' = response /\ pc[r] = "store"
    BY <1>5 DEF MarkAsCompleted
  <2>2. Slot(r) \in Paths \X Keys
    BY <1>1, <2>1, EntryTypes
  <2>3. cache'[Slot(r)] = Completed(r)
    BY <1>1, <2>1, <2>2
  <2>4. QED
    BY <2>1, <2>3 DEF Stored, Slot, Completed
<1>6. QED
  BY <1>3, <1>4, <1>5

(* A step of another request leaves the entry, writes the same row again,   *)
(* or is that of a duplicate that disturbs r.                               *)
LEMMA StoredOrDisturbed ==
  ASSUME KeepInv, mishaps = 0, NEW r \in Requests, Said(r, "ok"),
         NEW q \in Requests, q # r, Quiet(q),
         Stored(r) \/ \E p \in Requests : Disturbs(p, r)
  PROVE  Stored(r)' \/ \E p \in Requests : Disturbs(p, r)'
<1>1. /\ Typed /\ IInv /\ FewLeft /\ DropsRefused
      /\ pc \in [Requests -> {"idle", "get", "mark", "handle", "store", "drop",
                              "done"}]
      /\ req \in [Requests -> Request \cup {Nothing}]
      /\ response \in [Requests -> Response]
      /\ cache \in [Paths \X Keys -> Entry]
      /\ pc[r] = "done" /\ response[r].kind = "ok"
  BY DEF KeepInv, Typed, TypeOK, Said
<1>2. \A x \in Requests \ {q} :
        pc'[x] = pc[x] /\ req'[x] = req[x] /\ response'[x] = response[x]
  BY <1>1 DEF Quiet, Begin, Get, MarkAsProcessing, Apply, AlreadyApplied,
              HandlerFails, MarkAsCompleted, DeleteEntry, Handled, Reply, GoTo
<1>3. ASSUME NEW p \in Requests, p # q, Disturbs(p, r)
      PROVE  Disturbs(p, r)'
  BY <1>2, <1>3 DEF Disturbs, Duplicates, InFlight
<1>4. Duplicates(r, q) <=> Slot(r) = Slot(q)
  BY DEF Duplicates, Slot
<1>5. Slot(r)' = Slot(r)
  BY <1>2 DEF Slot
<1>6. ASSUME cache'[Slot(r)] = cache[Slot(r)], Stored(r)
      PROVE  Stored(r)'
  BY <1>2, <1>5, <1>6 DEF Stored
<1>7. CASE Begin(q)
  <2>1. cache' = cache /\ ~ Disturbs(q, r)
    BY <1>7 DEF Begin, Disturbs
  <2>2. QED
    BY <1>3, <1>6, <2>1
<1>8. CASE \/ Apply(q) \/ AlreadyApplied(q) \/ HandlerFails(q)
           \/ Get(q) /\ cache[Slot(q)] = NoEntry
  <2>1. /\ cache' = cache /\ req' = req
        /\ pc'[q] \in {"mark", "store", "drop"}
    BY <1>1, <1>8 DEF Apply, AlreadyApplied, HandlerFails, Get, Handled, GoTo
  <2>2. Disturbs(q, r) => Disturbs(q, r)'
    BY <2>1 DEF Disturbs, Duplicates, InFlight
  <2>3. QED
    BY <1>3, <1>6, <2>1, <2>2
<1>9. CASE Get(q) /\ cache[Slot(q)] # NoEntry
  <2>1. cache' = cache /\ pc[q] = "get"
    BY <1>9 DEF Get
  <2>2. CASE ~ Disturbs(q, r)
    BY <1>3, <1>6, <2>1, <2>2
  <2>3. CASE Disturbs(q, r)
    <3>1. Slot(q) = Slot(r)
      BY <1>4, <2>3 DEF Disturbs
    <3>2. CASE cache[Slot(q)].status = "processing"
      <4>1. Slot(q) \in Paths \X Keys
        BY <1>1, <2>1, EntryTypes
      <4>2. PICK h \in Requests : Holds(h) /\ Slot(h) = Slot(q)
        BY <1>1, <3>2, <4>1, NoneLeft
      <4>3. h # q /\ h # r
        BY <1>1, <2>1, <4>2 DEF Holds
      <4>4. Disturbs(h, r)
        BY <3>1, <4>2, <4>3 DEF Disturbs, Holds, InFlight, Slot, Duplicates
      <4>5. QED
        BY <1>3, <4>3, <4>4
    <3>3. CASE cache[Slot(q)].status = "completed"
      BY <1>1, <1>6, <2>1, <3>1, <3>3, RowOfSuccess DEF Stored
    <3>4. QED
      BY <1>1, <1>9, <2>1, <3>2, <3>3, EntryStatus
  <2>4. QED
    BY <2>2, <2>3
<1>10. CASE MarkAsProcessing(q) \/ MarkAsCompleted(q) \/ DeleteEntry(q)
  <2>1. /\ req' = req /\ response' = response /\ pc[q] # "idle"
        /\ pc'[q] \in {"handle", "done"}
        /\ \E entry : cache' = [cache EXCEPT ![Slot(q)] = entry]
    BY <1>1, <1>10 DEF MarkAsProcessing, MarkAsCompleted, DeleteEntry, GoTo
  <2>2. Slot(r) \in Paths \X Keys
    BY <1>1, EntryTypes
  <2>3. CASE Slot(q) # Slot(r)
    <3>1. cache'[Slot(r)] = cache[Slot(r)] /\ ~ Disturbs(q, r)
      BY <1>1, <1>4, <2>1, <2>2, <2>3 DEF Disturbs
    <3>2. QED
      BY <1>3, <1>6, <3>1
  <2>4. CASE Slot(q) = Slot(r) /\ MarkAsProcessing(q)
    <3>1. pc'[q] = "handle"
      BY <1>1, <2>4 DEF MarkAsProcessing, GoTo
    <3>2. Disturbs(q, r)'
      BY <1>4, <2>1, <2>4, <3>1 DEF Disturbs, Duplicates, InFlight
    <3>3. QED
      BY <3>2
  <2>5. CASE Slot(q) = Slot(r) /\ MarkAsCompleted(q)
    <3>1. response[q].kind = "ok"
      BY <1>1, <2>5 DEF MarkAsCompleted, IInv, ReplyFits
    <3>2. response[q].row = response[r].row
      BY <1>1, <1>4, <2>5, <3>1, RowOfSuccess
    <3>3. cache'[Slot(r)] = Completed(q)
      BY <1>1, <2>2, <2>5 DEF MarkAsCompleted
    <3>4. Stored(r)'
      BY <1>5, <2>1, <3>2, <3>3 DEF Stored, Completed
    <3>5. QED
      BY <3>4
  <2>6. CASE Slot(q) = Slot(r) /\ DeleteEntry(q)
    <3>1. response[q].kind \in {"exists", "error"}
      BY <1>1, <2>6 DEF DeleteEntry, DropsRefused
    <3>2. Disturbs(q, r)'
      BY <1>4, <2>1, <2>6, <3>1 DEF Disturbs, Duplicates
    <3>3. QED
      BY <3>2
  <2>7. QED
    BY <1>10, <2>3, <2>4, <2>5, <2>6
<1>11. QED
  BY <1>7, <1>8, <1>9, <1>10 DEF Quiet

LEMMA ReplayableStep ==
  ASSUME KeepInv, [Next]_vars
  PROVE  Replayable'
<1> SUFFICES ASSUME mishaps' = 0, NEW r \in Requests, Said(r, "ok")'
             PROVE  Stored(r)' \/ \E q \in Requests : Disturbs(q, r)'
  BY DEF Replayable, Stored, Disturbs
<1>1. mishaps = 0 /\ ((\E q \in Requests : Quiet(q)) \/ UNCHANGED vars)
  BY QuietSteps DEF KeepInv
<1>2. ASSUME Said(r, "ok")
      PROVE  Stored(r) \/ \E q \in Requests : Disturbs(q, r)
  BY <1>1, <1>2, ReplayableParts DEF KeepInv
<1>3. CASE UNCHANGED vars
  BY <1>2, <1>3 DEF vars, Said, Stored, Disturbs, Duplicates, InFlight, Slot
<1>4. CASE Quiet(r)
  BY <1>4, StoredAtSuccess
<1>5. ASSUME NEW q \in Requests, q # r, Quiet(q)
      PROVE  Stored(r)' \/ \E p \in Requests : Disturbs(p, r)'
  <2>1. Said(r, "ok")
    BY <1>5 DEF KeepInv, Typed, TypeOK, Said, Quiet, Begin, Get,
                MarkAsProcessing, Apply, AlreadyApplied, HandlerFails,
                MarkAsCompleted, DeleteEntry, Handled, Reply, GoTo
  <2>2. QED
    BY <1>1, <1>2, <1>5, <2>1, StoredOrDisturbed
<1>6. QED
  BY <1>1, <1>3, <1>4, <1>5

(* As long as there has been no mishap, a success can be answered again     *)
(* from the cache, or there is a duplicate that is on its way or was turned *)
(* down, and no other: whatever the number of requests and their order.     *)
THEOREM ReplayableCorrect == Spec => []Replayable
<1>1. Init => KeepInv
  <2>1. Init => Left = {} /\ mishaps = 0
    BY DEF Init, Left, NoEntry
  <2>2. Init => FewLeft
    BY <2>1, FS_EmptySet DEF FewLeft
  <2>3. Init => DropsRefused /\ Replayable
    BY DEF Init, DropsRefused, Replayable, Said
  <2>4. QED
    BY <2>2, <2>3, InitTyped, Initially DEF KeepInv
<1>2. KeepInv /\ [Next]_vars => KeepInv'
  BY TypedStep, Step, FewLeftStep, DropsRefusedStep, ReplayableStep DEF KeepInv
<1>3. KeepInv => Replayable
  BY DEF KeepInv
<1>4. QED
  BY <1>1, <1>2, <1>3, PTL DEF Spec
=============================================================================
