-------------------------- MODULE BillStateMachine --------------------------
(***************************************************************************)
(* The transaction protocol of the billing service: every activation,      *)
(* recalculation, close and new line item runs transitionWithLock, which    *)
(* opens a transaction, locks the row of the bill with SELECT ... FOR       *)
(* UPDATE, runs the business callback statement by statement and commits,   *)
(* or rolls back on the first error.                                        *)
(*                                                                          *)
(* One instance of the service has ONE BillStateMachine, which keeps the    *)
(* repositories of "the" transaction in its fields billTx and lineItemTx.   *)
(* A call stores its transaction there and reads the field again for every  *)
(* statement, so that a statement runs on whatever transaction was stored   *)
(* last.  Overlap says whether an instance may be given a call while it is  *)
(* still in another one: Encore and the Temporal worker do so, the callback *)
(* pattern works only if they do not.                                       *)
(*                                                                          *)
(* An operation is one call and also names the database session it opens.   *)
(* The server is PostgreSQL at READ COMMITTED: row locks, a unique index on *)
(* the idempotency key, transactions that a failed statement aborts.        *)
(***************************************************************************)
EXTENDS FiniteSets

CONSTANTS
  Ops,        \* calls of the business layer; each names its own session
  Bills,      \* bill identifiers
  Keys,       \* idempotency keys of line items
  Instances,  \* running instances of the service
  Instance,   \* Instance[o]: the instance that is given call o
  Overlap,    \* may an instance be in two calls at once?
  NoOp, NoKey, NoCall, NoTotal, NoRow   \* nil pointer and absent values

ASSUME InstanceAssumption == Instance \in [Ops -> Instances]
ASSUME OverlapAssumption  == Overlap \in BOOLEAN
ASSUME NoOpAssumption     == NoOp \notin Ops
ASSUME NoTotalAssumption  == \A S \in SUBSET Keys : S # NoTotal

VARIABLES
  row,        \* row[b]: the committed row of bill b
  items,      \* the committed line items
  pc,         \* pc[o]: the statement call o is at
  call,       \* call[o]: what o was asked to do
  res,        \* res[o]: what o answers its caller
  on,         \* on[o]: the session that runs o's statement, NoOp if none
  billTx,     \* billTx[n]: the session in the field of instance n
  lineItemTx, \* lineItemTx[n]: the same, for the line items
  crossed,    \* history: has a statement run on another call's transaction?
  tx,         \* tx[s]: the transaction of session s
  holds,      \* holds[s]: the row locks of session s
  draft,      \* draft[s][b]: s's uncommitted row of b, NoRow if unchanged
  fresh       \* fresh[s]: s's uncommitted line items

disk    == <<row, items>>
control == <<pc, call, res, on>>
fields  == <<billTx, lineItemTx, crossed>>
session == <<tx, holds, draft, fresh>>
vars    == <<row, items, pc, call, res, on, billTx, lineItemTx, crossed,
             tx, holds, draft, fresh>>

Data == INSTANCE BillLifecycle WITH Reasons <- Ops, NoReason <- NoOp

ASSUME NoRowAssumption == NoRow \notin Data!Row

Calls == [kind: {"activate", "total", "close"}, bill: Bills, key: {NoKey}]
           \cup [kind: {"add"}, bill: Bills, key: Keys]

Statements == {"lock", "activate", "closing", "total", "closed", "flag",
               "insert"}
Steps == Statements \cup {"idle", "setBillTx", "setLineItemTx", "commit",
                          "rollback", "done"}
Modes == {"update", "nokey", "keyshare"}

TypeOK ==
  /\ Data!TypeOK
  /\ pc \in [Ops -> Steps]
  /\ call \in [Ops -> Calls \cup {NoCall}]
  /\ res \in [Ops -> {"none", "ok", "failed", "uncalculated"}]
  /\ on \in [Ops -> Ops \cup {NoOp}]
  /\ billTx \in [Instances -> Ops \cup {NoOp}]
  /\ lineItemTx \in [Instances -> Ops \cup {NoOp}]
  /\ crossed \in BOOLEAN
  /\ tx \in [Ops -> {"none", "open", "aborted", "closed"}]
  /\ holds \in [Ops -> SUBSET (Bills \X Modes)]
  /\ draft \in [Ops -> [Bills -> {NoRow} \cup Data!Row]]
  /\ fresh \in [Ops -> SUBSET Data!Item]

Unchanged == [b \in Bills |-> NoRow]

Init ==
  /\ Data!Init
  /\ pc = [o \in Ops |-> "idle"]
  /\ call = [o \in Ops |-> NoCall]
  /\ res = [o \in Ops |-> "none"]
  /\ on = [o \in Ops |-> NoOp]
  /\ billTx = [n \in Instances |-> NoOp]
  /\ lineItemTx = [n \in Instances |-> NoOp]
  /\ crossed = FALSE
  /\ tx = [o \in Ops |-> "none"]
  /\ holds = [o \in Ops |-> {}]
  /\ draft = [o \in Ops |-> Unchanged]
  /\ fresh = [o \in Ops |-> {}]

-----------------------------------------------------------------------------
(* The server.                                                             *)

\* What session s reads: its own writes over what is committed.
View(s, b) == IF draft[s][b] = NoRow THEN row[b] ELSE draft[s][b]
Visible(s) == items \cup fresh[s]

Conflict(m, n) == m = "update" \/ n = "update" \/ (m = "nokey" /\ n = "nokey")

\* Another session holds a lock on b that mode m has to wait for.
Blocked(s, b, m) ==
  \E t \in Ops \ {s} : \E n \in Modes : <<b, n>> \in holds[t] /\ Conflict(m, n)

\* Another session has inserted key k and not yet ended: the unique index waits.
KeyPending(s, k) == \E t \in Ops \ {s} : \E i \in fresh[t] : i.key = k

\* The transactions of S end in state st, their locks and writes gone.
End(S, st) ==
  /\ tx' = [s \in Ops |-> IF s \in S THEN st ELSE tx[s]]
  /\ holds' = [s \in Ops |-> IF s \in S THEN {} ELSE holds[s]]
  /\ draft' = [s \in Ops |-> IF s \in S THEN Unchanged ELSE draft[s]]
  /\ fresh' = [s \in Ops |-> IF s \in S THEN {} ELSE fresh[s]]

Busy(s) == \E p \in Ops : on[p] = s

\* The mode in which o's statement locks the row of its bill.
ModeOf(o) == CASE pc[o] = "lock"   -> "update"
               [] pc[o] = "insert" -> "keyshare"
               [] OTHER            -> "nokey"

-----------------------------------------------------------------------------
(* The calls.                                                              *)

InFlight(o) == pc[o] \notin {"idle", "done"}

\* CreateBill is a single INSERT outside of any transaction.
CreateBill(b) ==
  /\ Data!Create(b)
  /\ UNCHANGED <<control, fields, session>>

\* db.Begin takes a connection and opens the transaction, or fails.
Begin(o) ==
  /\ pc[o] = "idle"
  /\ \/ Overlap
     \/ \A p \in Ops : InFlight(p) => Instance[p] # Instance[o]
  /\ \E c \in Calls : call' = [call EXCEPT ![o] = c]
  /\ \/ /\ pc' = [pc EXCEPT ![o] = "setBillTx"]
        /\ tx' = [tx EXCEPT ![o] = "open"]
        /\ UNCHANGED res
     \/ /\ pc' = [pc EXCEPT ![o] = "done"]
        /\ res' = [res EXCEPT ![o] = "failed"]
        /\ UNCHANGED tx
  /\ UNCHANGED <<disk, on, fields, holds, draft, fresh>>

SetBillTx(o) ==
  /\ pc[o] = "setBillTx"
  /\ billTx' = [billTx EXCEPT ![Instance[o]] = o]
  /\ pc' = [pc EXCEPT ![o] = "setLineItemTx"]
  /\ UNCHANGED <<disk, call, res, on, lineItemTx, crossed, session>>

SetLineItemTx(o) ==
  /\ pc[o] = "setLineItemTx"
  /\ lineItemTx' = [lineItemTx EXCEPT ![Instance[o]] = o]
  /\ pc' = [pc EXCEPT ![o] = "lock"]
  /\ UNCHANGED <<disk, call, res, on, billTx, crossed, session>>

\* The session in the field that o's next statement goes through.
Field(o) == IF pc[o] = "insert" THEN lineItemTx[Instance[o]]
                                ELSE billTx[Instance[o]]

\* A connection runs one statement at a time ("conn busy"), and none once its
\* transaction has ended.
Usable(s) == s \in Ops /\ tx[s] \in {"open", "aborted"} /\ ~Busy(s)

Summing(o) == call[o].kind = "close" /\ pc[o] \in {"total", "flag"}

\* The callback returns an error; the deferred Rollback is next.  Only a close
\* whose total failed first tries to store attention_required.
ReturnError(o) ==
  /\ pc' = [pc EXCEPT ![o] = IF Summing(o) /\ @ = "total" THEN "flag"
                                                         ELSE "rollback"]
  /\ res' = [res EXCEPT ![o] = IF Summing(o) THEN "uncalculated" ELSE "failed"]

Send(o) ==
  /\ pc[o] \in Statements
  /\ on[o] = NoOp
  /\ IF Usable(Field(o))
       THEN /\ on' = [on EXCEPT ![o] = Field(o)]
            /\ crossed' = (crossed \/ Field(o) # o)
            /\ UNCHANGED <<pc, res>>
       ELSE ReturnError(o) /\ UNCHANGED <<on, crossed>>
  /\ UNCHANGED <<disk, call, billTx, lineItemTx, session>>

\* Converting the amount of a new line item fails, before its INSERT.
ConvertFails(o) ==
  /\ pc[o] = "insert"
  /\ on[o] = NoOp
  /\ ReturnError(o)
  /\ UNCHANGED <<disk, call, on, fields, session>>

-----------------------------------------------------------------------------
(* The statements, each executed by the server and answered to o.          *)

Runs(o, stmt) ==
  /\ pc[o] = stmt
  /\ on[o] # NoOp
  /\ tx[on[o]] = "open"

\* o takes a lock of mode m on its bill, on session s.
TakeLock(o, s, m) ==
  /\ ~Blocked(s, call[o].bill, m)
  /\ holds' = [holds EXCEPT ![s] = @ \cup {<<call[o].bill, m>>}]

GoTo(o, step) ==
  /\ pc' = [pc EXCEPT ![o] = step]
  /\ on' = [on EXCEPT ![o] = NoOp]

\* Mutant: a new line item is taken for any bill that is not closed.
AfterLock_LaxAdd(kind, st) ==
  CASE kind = "activate" /\ st = "pending" -> "activate"
    [] kind = "add" /\ st # "closed"       -> "insert"
    [] kind = "total"                      -> "total"
    [] kind = "close" /\ st = "closed"     -> "commit"
    [] kind = "close" /\ st = "pending"    -> "closed"
    [] kind = "close" /\ st = "active"     -> "closing"
    [] OTHER                               -> "rollback"

\* What each callback does first with a bill it finds in status st.
AfterLock(kind, st) ==
  CASE kind = "activate" /\ st = "pending" -> "activate"
    [] kind = "add" /\ st = "active"       -> "insert"
    [] kind = "total"                      -> "total"
    [] kind = "close" /\ st = "closed"     -> "commit"
    [] kind = "close" /\ st = "pending"    -> "closed"
    [] kind = "close" /\ st = "active"     -> "closing"
    [] OTHER                               -> "rollback"

\* Mutant: the row is read without FOR UPDATE.
GetBillForUpdate_NoLock(o) ==
  /\ Runs(o, "lock")
  /\ LET st == View(on[o], call[o].bill).status
         to == IF st = "none" THEN "rollback" ELSE AfterLock(call[o].kind, st)
     IN /\ GoTo(o, to)
        /\ res' = [res EXCEPT ![o] = IF to = "rollback" THEN "failed" ELSE @]
  /\ UNCHANGED <<disk, call, fields, session>>

\* Mutant: the query names no bill and locks the rows it meets on its way to it.
GetBillForUpdate_Scan(o) ==
  /\ Runs(o, "lock")
  /\ \E b \in Bills :
       LET st == View(on[o], b).status
           to == IF st = "none" THEN "rollback" ELSE AfterLock(call[o].kind, st)
       IN /\ ~Blocked(on[o], b, "update")
          /\ holds' = [holds EXCEPT ![on[o]] = @ \cup {<<b, "update">>}]
          /\ IF b # call[o].bill
               THEN UNCHANGED <<pc, on, res>>
               ELSE /\ GoTo(o, to)
                    /\ res' = [res EXCEPT ![o] =
                                 IF to = "rollback" THEN "failed" ELSE @]
  /\ UNCHANGED <<disk, call, fields, tx, draft, fresh>>

GetBillForUpdate(o) ==
  /\ Runs(o, "lock")
  /\ LET s  == on[o]
         st == View(s, call[o].bill).status
         to == IF st = "none" THEN "rollback" ELSE AfterLock(call[o].kind, st)
     IN /\ IF st = "none" THEN ~Blocked(s, call[o].bill, "update")
                                 /\ UNCHANGED holds
                          ELSE TakeLock(o, s, "update")
        /\ GoTo(o, to)
        /\ res' = [res EXCEPT ![o] = IF to = "rollback" THEN "failed" ELSE @]
  /\ UNCHANGED <<disk, call, fields, tx, draft, fresh>>

\* An UPDATE of o's bill: session s now sees the row as r.
UpdateRow(o, s, r) ==
  /\ TakeLock(o, s, "nokey")
  /\ draft' = [draft EXCEPT ![s][call[o].bill] = r]
  /\ UNCHANGED <<disk, call, res, fields, tx, fresh>>

UpdateBillStatus(o) ==
  /\ Runs(o, "activate")
  /\ UpdateRow(o, on[o],
       [View(on[o], call[o].bill) EXCEPT !.status = "active"])
  /\ GoTo(o, "commit")

\* Mutant: the transaction is committed after the first step of a close.
Closure_EarlyCommit(stmt, o) ==
  CASE stmt = "closing" -> [status |-> "closing", reason |-> o, next |-> "commit"]
    [] stmt = "closed"  -> [status |-> "closed", reason |-> o, next |-> "commit"]
    [] stmt = "flag"    -> [status |-> "attention_required", reason |-> NoOp,
                            next |-> "rollback"]

\* Mutant: status and reason swapped among the arguments of the UPDATE.
Closure_Swapped(stmt, o) ==
  CASE stmt = "closing" -> [status |-> o, reason |-> "closing", next |-> "total"]
    [] stmt = "closed"  -> [status |-> o, reason |-> "closed", next |-> "commit"]
    [] stmt = "flag"    -> [status |-> "attention_required", reason |-> NoOp,
                            next |-> "rollback"]

\* The status and reason a closure statement stores, and what follows it.
Closure(stmt, o) ==
  CASE stmt = "closing" -> [status |-> "closing", reason |-> o, next |-> "total"]
    [] stmt = "closed"  -> [status |-> "closed", reason |-> o, next |-> "commit"]
    [] stmt = "flag"    -> [status |-> "attention_required", reason |-> NoOp,
                            next |-> "rollback"]

UpdateBillClosure(o) ==
  \E stmt \in {"closing", "closed", "flag"} :
    LET c == Closure(stmt, o) IN
      /\ Runs(o, stmt)
      /\ UpdateRow(o, on[o], [View(on[o], call[o].bill) EXCEPT
                                !.status = c.status, !.reason = c.reason])
      /\ GoTo(o, c.next)

UpdateBillTotal(o) ==
  /\ Runs(o, "total")
  /\ UpdateRow(o, on[o], [View(on[o], call[o].bill) EXCEPT
       !.total = Data!SumOf(Visible(on[o]), call[o].bill)])
  /\ GoTo(o, IF call[o].kind = "close" THEN "closed" ELSE "commit")

\* Mutant: no unique index; the key is looked up before it is inserted.
CreateLineItem_CheckFirst(o) ==
  /\ Runs(o, "insert")
  /\ \A i \in Visible(on[o]) : i.key # call[o].key
  /\ TakeLock(o, on[o], "keyshare")
  /\ fresh' = [fresh EXCEPT ![on[o]] =
       @ \cup {[key |-> call[o].key, bill |-> call[o].bill]}]
  /\ GoTo(o, "commit")
  /\ UNCHANGED <<disk, call, res, fields, tx, draft>>

\* The INSERT waits for a session that has the key in hand; a key that is
\* there already is a unique violation, which aborts the transaction.
CreateLineItem(o) ==
  /\ Runs(o, "insert")
  /\ ~KeyPending(on[o], call[o].key)
  /\ LET s == on[o] IN
       IF \E i \in Visible(s) : i.key = call[o].key
         THEN /\ ReturnError(o)
              /\ on' = [on EXCEPT ![o] = NoOp]
              /\ End({s}, "aborted")
         ELSE /\ TakeLock(o, s, "keyshare")
              /\ fresh' = [fresh EXCEPT ![s] =
                   @ \cup {[key |-> call[o].key, bill |-> call[o].bill]}]
              /\ GoTo(o, "commit")
              /\ UNCHANGED <<res, tx, draft>>
  /\ UNCHANGED <<disk, call, fields>>

\* A statement on a transaction that is aborted, or closed under it, fails.
StatementRefused(o) ==
  /\ on[o] # NoOp
  /\ tx[on[o]] # "open"
  /\ ReturnError(o)
  /\ on' = [on EXCEPT ![o] = NoOp]
  /\ UNCHANGED <<disk, call, fields, session>>

\* The server reports an error, or the connection is lost or cut by a context
\* that expired.
StatementFails(o) ==
  /\ on[o] # NoOp
  /\ tx[on[o]] = "open"
  /\ \E st \in {"aborted", "closed"} : End({on[o]}, st)
  /\ ReturnError(o)
  /\ on' = [on EXCEPT ![o] = NoOp]
  /\ UNCHANGED <<disk, call, fields>>

-----------------------------------------------------------------------------
(* The end of a call.                                                      *)

Apply(o) ==
  /\ row' = [b \in Bills |-> View(o, b)]
  /\ items' = Visible(o)

Finish(o, answer) ==
  /\ pc' = [pc EXCEPT ![o] = "done"]
  /\ res' = [res EXCEPT ![o] = answer]
  /\ End({o}, "closed")
  /\ UNCHANGED <<call, on, fields>>

CanCommit(o) == pc[o] = "commit" /\ tx[o] = "open" /\ ~Busy(o)

Commit(o) == CanCommit(o) /\ Apply(o) /\ Finish(o, "ok")

\* Mutant: the error of the commit is not looked at.
CommitLost_Ignored(o) ==
  /\ CanCommit(o)
  /\ Apply(o) \/ UNCHANGED disk
  /\ Finish(o, "ok")

\* "commit timed out - operation may have partially completed"
CommitLost(o) ==
  /\ CanCommit(o)
  /\ Apply(o) \/ UNCHANGED disk
  /\ Finish(o, "failed")

\* The connection is busy with another call, or the transaction is aborted.
CommitRefused(o) ==
  /\ pc[o] = "commit"
  /\ tx[o] # "open" \/ Busy(o)
  /\ Finish(o, "failed")
  /\ UNCHANGED disk

\* Mutant: the deferred Rollback is forgotten.
Rollback_Forgotten(o) ==
  /\ pc[o] = "rollback"
  /\ pc' = [pc EXCEPT ![o] = "done"]
  /\ UNCHANGED <<disk, call, res, on, fields, session>>

Rollback(o) ==
  /\ pc[o] = "rollback"
  /\ Finish(o, res[o])
  /\ UNCHANGED disk

\* An instance dies with all the calls it is in; the server rolls them back.
Crash(n) ==
  LET dead == {o \in Ops : Instance[o] = n /\ InFlight(o)} IN
    /\ dead # {}
    /\ pc' = [o \in Ops |-> IF o \in dead THEN "done" ELSE pc[o]]
    /\ res' = [o \in Ops |-> IF o \in dead THEN "failed" ELSE res[o]]
    /\ on' = [o \in Ops |-> IF o \in dead THEN NoOp ELSE on[o]]
    /\ End(dead, "closed")
    /\ billTx' = [billTx EXCEPT ![n] = NoOp]
    /\ lineItemTx' = [lineItemTx EXCEPT ![n] = NoOp]
    /\ UNCHANGED <<disk, call, crossed>>

-----------------------------------------------------------------------------
\* What the code and the server do on their own, without any failure.
Step(o) ==
  \/ SetBillTx(o) \/ SetLineItemTx(o) \/ Send(o)
  \/ GetBillForUpdate(o) \/ UpdateBillStatus(o) \/ UpdateBillClosure(o)
  \/ UpdateBillTotal(o) \/ CreateLineItem(o) \/ StatementRefused(o)
  \/ Commit(o) \/ CommitRefused(o) \/ Rollback(o)

Failure(o) == ConvertFails(o) \/ StatementFails(o) \/ CommitLost(o)

Next ==
  \/ \E b \in Bills : CreateBill(b)
  \/ \E o \in Ops : Begin(o) \/ Step(o) \/ Failure(o)
  \/ \E n \in Instances : Crash(n)

Spec == Init /\ [][Next]_vars

(* The goroutine of a call and the server keep running; nothing else is    *)
(* promised, in particular no call ever has to be made.                    *)
FairSpec == Spec /\ \A o \in Ops : WF_vars(Step(o))

(* Sessions may come to wait for each other in a circle once calls share    *)
(* them.  PostgreSQL looks for such circles and fails a statement on one;   *)
(* it knows the sessions, not the calls that wait for their answers.        *)
Awaits(s, t) ==
  /\ s # t
  /\ \E o \in Ops :
       /\ on[o] = s /\ tx[s] = "open"
       /\ \/ pc[o] = "insert" /\ \E i \in fresh[t] : i.key = call[o].key
          \/ /\ pc[o] = "insert" => \A i \in Visible(s) : i.key # call[o].key
             /\ \E n \in Modes : <<call[o].bill, n>> \in holds[t]
                                /\ Conflict(ModeOf(o), n)

Circles == {C \in (SUBSET Ops) \ {{}} : \A s \in C : \E t \in C : Awaits(s, t)}

DeadlockDetected(o) ==
  /\ \E C \in Circles : on[o] \in C /\ \A D \in Circles : D \subseteq C => D = C
  /\ StatementFails(o)

(* With the deadlock detector as the only timeout: five seconds for the row *)
(* lock and the deadlines of activities may end a wait earlier, a request   *)
(* to the API has none.                                                     *)
DetectedSpec == FairSpec /\ WF_vars(\E o \in Ops : DeadlockDetected(o))
-----------------------------------------------------------------------------
(* The safety properties of the committed rows, BillLifecycle's.  They are *)
(* what the row lock is for: a close sums the items while other calls wait *)
(* to add more, and a reader never sees it half done.                       *)
ClosedTotalIsFinal == Data!ClosedTotalIsFinal
NoHalfClosedBill   == Data!NoHalfClosedBill

(* A call that answers "ok" has taken effect, and nothing that other calls  *)
(* do, fail to do or lose takes it back: the item is stored, the bill that  *)
(* was closed is closed, the bill that was activated has been.              *)
AcknowledgedIsCommitted ==
  \A o \in Ops : res[o] = "ok" =>
    LET c  == call[o]
        st == row[c.bill].status
    IN /\ c.kind = "add" => [key |-> c.key, bill |-> c.bill] \in items
       /\ c.kind = "close" => st = "closed"
       /\ c.kind = "activate" => st \in {"active", "closed"}

(* An idempotency key is used for one line item, on whatever bill: whoever  *)
(* inserts it second, waits and is refused, also when calls share their     *)
(* transactions.                                                            *)
OneItemPerKey == \A i, j \in items : i.key = j.key => i = j

(* Every transaction the calls commit, in whatever order their statements   *)
(* and failures interleave, is one step of the bill's life.                 *)
Lifecycle == Data!Spec

(* As long as every statement runs on the transaction of its own call, no   *)
(* sessions wait for each other in a circle: a call has its row before it   *)
(* inserts its key, and inserts it last, so that whoever holds a key others *)
(* wait for is about to commit.  Calls that share transactions do wait in   *)
(* circles.                                                                 *)
NoCircles == Circles = {}

(* Calls that overlap in an instance may close a bill with a wrong total,   *)
(* leave it half closed or lose what they have acknowledged, but only after *)
(* a statement has run on another call's transaction: locking, rollback and *)
(* the lost answers of commits are never the cause.                         *)
LossNeedsCrossing ==
  ~crossed => ClosedTotalIsFinal /\ NoHalfClosedBill /\ AcknowledgedIsCommitted

(* A call that has begun returns.  Calls that share transactions also       *)
(* occupy each other's connections and wait for sessions whose own calls    *)
(* wait elsewhere; yet whenever nobody can get on, the server alone sees a  *)
(* circle and breaks it, and no timeout of the service is needed.           *)
CallsReturn == \A o \in Ops : InFlight(o) ~> pc[o] = "done"

(* A close that could not compute its total leaves the bill marked for      *)
(* attention (README.md: "Bill calculation failed ... should indicate with  *)
(* attention_required status").                                             *)
FailedCloseIsFlagged ==
  \A o \in Ops : pc[o] = "done" /\ res[o] = "uncalculated" =>
    row[call[o].bill].status = "attention_required"
=============================================================================
