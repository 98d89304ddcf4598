--------------------- MODULE BillStateMachineRefinement ---------------------
(* As long as every statement has run on the transaction of its own call,   *)
(* each transaction of BillStateMachine is one step of BillLifecycle and no *)
(* sessions wait for each other in a circle: for every set of calls, bills, *)
(* keys and instances, and whether or not calls overlap in an instance.     *)
EXTENDS BillStateMachineProofs

Bill(o) == call[o].bill

(* A call runs its statements on no transaction but its own.                *)
Own(o) == on[o] \in {NoOp, o}

(* Before it has the row, and after its end, a transaction holds no locks   *)
(* and no writes.                                                           *)
Clean(o) ==
  pc[o] \in {"idle", "setBillTx", "setLineItemTx", "lock", "done"} =>
    draft[o] = Unchanged /\ fresh[o] = {} /\ holds[o] = {}

(* It locks the row of its bill and no other, is still holding it when it   *)
(* stores the failure of a close, and has a key in hand only at its commit. *)
Held(o) ==
  /\ \A b \in Bills, m \in Modes : <<b, m>> \in holds[o] => b = Bill(o)
  /\ pc[o] = "flag" /\ tx[o] = "open" => <<Bill(o), "update">> \in holds[o]
  /\ fresh[o] # {} => pc[o] = "commit"

(* A row that one session has locked for update is locked by no other.      *)
Exclusive ==
  \A s, t \in Ops, b \in Bills, m \in Modes :
    <<b, "update">> \in holds[s] /\ <<b, m>> \in holds[t] => s = t

(* The transaction of o may still be committed.                             *)
Live(o) ==
  /\ pc[o] \in {"activate", "closing", "total", "closed", "insert", "commit"}
  /\ tx[o] = "open"

(* What o has read is still so and what it has written is what the rest of  *)
(* its callback builds on, statement by statement.                          *)
ActivateInv(o, old, new) ==
  /\ old.status = "pending"
  /\ fresh[o] = {}
  /\ pc[o] = "activate" => new = NoRow
  /\ pc[o] = "commit" => new = [old EXCEPT !.status = "active"]
  /\ pc[o] \in {"activate", "commit"}

AddInv(o, old, new) ==
  /\ old.status = "active"
  /\ new = NoRow
  /\ pc[o] = "insert" => fresh[o] = {}
  /\ pc[o] = "commit" =>
       fresh[o] = {[key |-> call[o].key, bill |-> Bill(o)]}
  /\ pc[o] \in {"insert", "commit"}

TotalInv(o, old, new, sum) ==
  /\ fresh[o] = {}
  /\ pc[o] = "total" => new = NoRow
  /\ pc[o] = "commit" => new = [old EXCEPT !.total = sum]
  /\ pc[o] \in {"total", "commit"}

CloseInv(o, old, new, sum) ==
  /\ fresh[o] = {}
  /\ \/ old.status = "closed" /\ new = NoRow /\ pc[o] = "commit"
     \/ /\ old.status = "pending"
        /\ \/ pc[o] = "closed" /\ new = NoRow
           \/ /\ pc[o] = "commit"
              /\ new = [old EXCEPT !.status = "closed", !.reason = o]
     \/ /\ old.status = "active"
        /\ \/ pc[o] = "closing" /\ new = NoRow
           \/ /\ pc[o] = "total"
              /\ new = [old EXCEPT !.status = "closing", !.reason = o]
           \/ /\ pc[o] = "closed"
              /\ new = [status |-> "closing", total |-> sum, reason |-> o]
           \/ /\ pc[o] = "commit"
              /\ new = [status |-> "closed", total |-> sum, reason |-> o]

Written(o, old, new, sum) ==
  /\ call[o].kind = "activate" => ActivateInv(o, old, new)
  /\ call[o].kind = "add" => AddInv(o, old, new)
  /\ call[o].kind = "total" => TotalInv(o, old, new, sum)
  /\ call[o].kind = "close" => CloseInv(o, old, new, sum)

Locked(o) ==
  Live(o) =>
    /\ <<Bill(o), "update">> \in holds[o]
    /\ row[Bill(o)].status # "none"
    /\ \A b \in Bills \ {Bill(o)} : draft[o][b] = NoRow
    /\ Written(o, row[Bill(o)], draft[o][Bill(o)], Data!SumOf(items, Bill(o)))

CallInv(o) == Own(o) /\ Clean(o) /\ Held(o) /\ Locked(o)

LockInv == KeyInv /\ Exclusive /\ \A o \in Ops : CallInv(o)

-----------------------------------------------------------------------------
\* Nothing of call p and its transaction changes.
SameCall(p) ==
  UNCHANGED <<pc[p], call[p], on[p], tx[p], holds[p], draft[p], fresh[p]>>

(* What o has read and written stays good while its transaction rests, if   *)
(* the row and the items of the bill it has locked do.                      *)
LEMMA LockedKeeps ==
  ASSUME NEW p \in Ops, Locked(p),
         UNCHANGED <<pc[p], call[p], tx[p], holds[p], draft[p], fresh[p]>>,
         Live(p) => /\ row'[Bill(p)] = row[Bill(p)]
                    /\ Data!SumOf(items', Bill(p)) = Data!SumOf(items, Bill(p))
  PROVE  Locked(p)'
<1> SUFFICES ASSUME Live(p)'
             PROVE  Locked(p)'
  BY DEF Locked
<1>1. Live(p) /\ Bill(p)' = Bill(p)
  BY DEF Live, Bill
<1> DEFINE old == row[Bill(p)]
           new == draft[p][Bill(p)]
           sum == Data!SumOf(items, Bill(p))
<1>2. old' = old /\ new' = new
  BY <1>1
<1>3. sum' = sum
  BY <1>1 DEF Data!SumOf
<1>4. Written(p, old, new, sum) /\ old.status # "none"
  BY <1>1 DEF Locked
<1>5. Written(p, old, new, sum)'
  <2> HIDE DEF old, new, sum
  <2>1. QED
    BY <1>1, <1>2, <1>3, <1>4 DEF Written, ActivateInv, AddInv, TotalInv, CloseInv
<1>6. QED
  BY <1>1, <1>2, <1>4, <1>5 DEF Locked

(* A call keeps its invariant while others run, if once it holds the lock   *)
(* they leave the row and the items of its bill alone.                      *)
LEMMA OtherCall ==
  ASSUME NEW p \in Ops, CallInv(p), SameCall(p),
         Live(p) => /\ row'[Bill(p)] = row[Bill(p)]
                    /\ Data!SumOf(items', Bill(p)) = Data!SumOf(items, Bill(p))
  PROVE  CallInv(p)'
<1>1. Own(p)'
  BY DEF CallInv, Own, SameCall
<1>2. Clean(p)' /\ Held(p)'
  BY DEF CallInv, Clean, Held, Bill, SameCall
<1>3. Locked(p)'
  BY LockedKeeps DEF CallInv, SameCall
<1>4. QED
  BY <1>1, <1>2, <1>3 DEF CallInv

(* A step of call o within its transaction, one that commits nothing, is no *)
(* concern of the other calls.                                              *)
LEMMA OwnStep ==
  ASSUME LockInv, NEW o \in Ops, \A p \in Ops \ {o} : SameCall(p),
         UNCHANGED <<row, items>>, Exclusive', CallInv(o)'
  PROVE  Exclusive' /\ \A p \in Ops : CallInv(p)'
<1>1. ASSUME NEW p \in Ops \ {o}
      PROVE  CallInv(p)'
  BY OtherCall DEF LockInv
<1>2. QED
  BY <1>1

(* Locks that are given up exclude no less.                                 *)
LEMMA FewerLocks ==
  ASSUME Exclusive, \A s \in Ops : holds'[s] \subseteq holds[s]
  PROVE  Exclusive'
BY DEF Exclusive

(* A running statement of o runs on o's own transaction.                    *)
LEMMA RunsOwn ==
  ASSUME LockInv, NEW o \in Ops, on[o] # NoOp
  PROVE  /\ on[o] = o
         /\ pc[o] \in Statements
         /\ call[o] \in Calls
         /\ Bill(o) \in Bills
BY DEF LockInv, CallInv, Own, KeyInv, TypeInv, Called, Calls, Bill, Statements

(* A weaker lock on o's bill is o's own affair: nobody has it for update.   *)
LEMMA WeakLock ==
  ASSUME LockInv, NEW o \in Ops, NEW m \in {"nokey", "keyshare"},
         TakeLock(o, o, m)
  PROVE  /\ Exclusive'
         /\ holds[o] \subseteq holds'[o]
         /\ holds'[o] \subseteq holds[o] \cup {<<Bill(o), m>>}
         /\ \A p \in Ops \ {o} : holds'[p] = holds[p]
<1>1. holds \in [Ops -> SUBSET (Bills \X Modes)]
  BY DEF LockInv, KeyInv, TypeInv, TypeOK
<1>2. /\ holds'[o] = holds[o] \cup {<<call[o].bill, m>>}
      /\ \A p \in Ops \ {o} : holds'[p] = holds[p]
  BY <1>1 DEF TakeLock
<1>3. /\ \A b : <<b, "update">> # <<call[o].bill, m>>
      /\ \A p \in Ops \ {o} : <<call[o].bill, "update">> \notin holds[p]
  BY DEF TakeLock, Blocked, Conflict, Modes
<1>4. Exclusive'
  <2> SUFFICES ASSUME NEW s \in Ops, NEW t \in Ops, NEW b \in Bills,
                      NEW n \in Modes,
                      <<b, "update">> \in holds'[s], <<b, n>> \in holds'[t]
               PROVE  s = t
    BY DEF Exclusive
  <2>1. <<b, "update">> \in holds[s]
    BY <1>2, <1>3
  <2>2. CASE <<b, n>> \in holds[t]
    BY <2>1, <2>2 DEF LockInv, Exclusive
  <2>3. CASE <<b, n>> \notin holds[t]
    BY <1>2, <1>3, <2>1, <2>3
  <2>4. QED
    BY <2>2, <2>3
<1>5. QED
  BY <1>2, <1>4 DEF Bill

(* An UPDATE changes the row that o itself sees of its bill.                *)
LEMMA UpdateOwn ==
  ASSUME LockInv, NEW o \in Ops, NEW r, NEW to, on[o] = o,
         UpdateRow(o, o, r), GoTo(o, to)
  PROVE  /\ \A p \in Ops \ {o} : SameCall(p)
         /\ Exclusive'
         /\ UNCHANGED <<row, items, call, tx, fresh>>
         /\ pc'[o] = to
         /\ on'[o] = NoOp
         /\ holds[o] \subseteq holds'[o]
         /\ \A b \in Bills, m \in Modes : <<b, m>> \in holds'[o] => b = Bill(o)
         /\ draft'[o][Bill(o)] = r
         /\ \A b \in Bills \ {Bill(o)} : draft'[o][b] = draft[o][b]
<1>1. Bill(o) \in Bills
  BY RunsOwn, NoOpAssumption
<1>2. /\ Exclusive' /\ holds[o] \subseteq holds'[o]
      /\ \A p \in Ops \ {o} : holds'[p] = holds[p]
      /\ \A b \in Bills, m \in Modes : <<b, m>> \in holds'[o] => b = Bill(o)
  BY WeakLock DEF UpdateRow, LockInv, CallInv, Held
<1>3. /\ pc \in [Ops -> Steps]
      /\ on \in [Ops -> Ops \cup {NoOp}]
      /\ draft \in [Ops -> [Bills -> {NoRow} \cup Data!Row]]
  BY DEF LockInv, KeyInv, TypeInv, TypeOK
<1>4. /\ draft'[o][Bill(o)] = r
      /\ \A b \in Bills \ {Bill(o)} : draft'[o][b] = draft[o][b]
      /\ \A p \in Ops \ {o} : draft'[p] = draft[p]
  BY <1>1, <1>3 DEF UpdateRow, Bill
<1>5. /\ pc'[o] = to /\ on'[o] = NoOp
      /\ \A p \in Ops \ {o} : pc'[p] = pc[p] /\ on'[p] = on[p]
  BY <1>3 DEF GoTo
<1>6. UNCHANGED <<row, items, call, tx, fresh>>
  BY DEF UpdateRow, disk
<1>7. QED
  BY <1>2, <1>4, <1>5, <1>6 DEF SameCall

(* A sum over stored items is a set of keys.                                *)
LEMMA SumIsKeys ==
  ASSUME LockInv, NEW b
  PROVE  Data!SumOf(items, b) \in SUBSET Keys
BY DEF LockInv, KeyInv, TypeInv, TypeOK, Data!TypeOK, Data!SumOf, Data!Item

(* What o knows when it runs a statement under its lock.                    *)
LEMMA UnderLock ==
  ASSUME LockInv, NEW o \in Ops, on[o] # NoOp, Live(o)
  PROVE  /\ row[Bill(o)] \in Data!Row
         /\ row[Bill(o)].status # "none"
         /\ <<Bill(o), "update">> \in holds[o]
         /\ \A b \in Bills \ {Bill(o)} : draft[o][b] = NoRow
         /\ Written(o, row[Bill(o)], draft[o][Bill(o)],
                    Data!SumOf(items, Bill(o)))
         /\ View(o, Bill(o)) = IF draft[o][Bill(o)] = NoRow
                                 THEN row[Bill(o)] ELSE draft[o][Bill(o)]
BY RunsOwn DEF LockInv, CallInv, Locked, KeyInv, TypeInv, TypeOK, Data!TypeOK,
               View

(* o stays under its lock after an UPDATE that left its bill as r.          *)
LEMMA UpdateKeeps ==
  ASSUME LockInv, NEW o \in Ops, NEW r, NEW to \in Steps, on[o] = o, Live(o),
         UpdateRow(o, o, r), GoTo(o, to),
         to \notin {"idle", "setBillTx", "setLineItemTx", "lock", "done"},
         NEW old, old = row[Bill(o)],
         NEW sum, sum = Data!SumOf(items, Bill(o)),
         Written(o, old, r, sum)'
  PROVE  Exclusive' /\ \A p \in Ops : CallInv(p)'
<1>1. /\ \A p \in Ops \ {o} : SameCall(p)
      /\ Exclusive'
      /\ UNCHANGED <<row, items, call, tx, fresh>>
      /\ pc'[o] = to
      /\ on'[o] = NoOp
      /\ holds[o] \subseteq holds'[o]
      /\ \A b \in Bills, m \in Modes : <<b, m>> \in holds'[o] => b = Bill(o)
      /\ draft'[o][Bill(o)] = r
      /\ \A b \in Bills \ {Bill(o)} : draft'[o][b] = draft[o][b]
  BY UpdateOwn
<1>2. Bill(o)' = Bill(o) /\ <<Bill(o), "update">> \in holds[o] /\ fresh[o] = {}
  <2>1. pc[o] \in Statements
    BY RunsOwn, NoOpAssumption
  <2>2. QED
    BY <1>1, <2>1, UnderLock, NoOpAssumption
       DEF Bill, LockInv, CallInv, Held, Statements
<1>3. Own(o)' /\ Clean(o)' /\ Held(o)'
  BY <1>1, <1>2 DEF LockInv, CallInv, Own, Clean, Held
<1>4. Locked(o)'
  <2>1. Bill(o)' = Bill(o)
    BY <1>1 DEF Bill
  <2>2. /\ row[Bill(o)].status # "none"
        /\ <<Bill(o), "update">> \in holds[o]
        /\ \A b \in Bills \ {Bill(o)} : draft[o][b] = NoRow
    BY UnderLock, NoOpAssumption
  <2>3. QED
    BY <1>1, <2>1, <2>2 DEF Locked
<1>5. QED
  BY <1>1, <1>3, <1>4, OwnStep DEF CallInv

(* Each UPDATE of a callback leaves what the next statement expects.        *)
LEMMA StatusStep ==
  ASSUME LockInv, NEW o \in Ops, UpdateBillStatus(o)
  PROVE  Exclusive' /\ \A p \in Ops : CallInv(p)'
<1>1. /\ on[o] = o /\ Live(o) /\ call[o] \in Calls /\ pc[o] = "activate"
      /\ call'[o] = call[o] /\ fresh'[o] = fresh[o] /\ pc'[o] = "commit"
  BY RunsOwn DEF UpdateBillStatus, Runs, Live, UpdateRow, GoTo, LockInv, KeyInv,
                 TypeInv, TypeOK
<1>2. PICK old, sum, r : /\ old = row[Bill(o)]
                         /\ sum = Data!SumOf(items, Bill(o))
                         /\ r = [View(o, Bill(o)) EXCEPT !.status = "active"]
  OBVIOUS
<1>3. UpdateRow(o, o, r) /\ GoTo(o, "commit")
  BY <1>1, <1>2 DEF UpdateBillStatus, Bill
<1>4. /\ Written(o, old, draft[o][Bill(o)], sum)
      /\ View(o, Bill(o)) = IF draft[o][Bill(o)] = NoRow
                              THEN old ELSE draft[o][Bill(o)]
  BY <1>1, <1>2, UnderLock, NoOpAssumption
<1>5. call[o].kind = "activate"
  BY <1>1, <1>4 DEF Written, AddInv, TotalInv, CloseInv, Calls
<1>6. ActivateInv(o, old, r)'
  BY <1>1, <1>2, <1>4, <1>5 DEF Written, ActivateInv
<1>7. Written(o, old, r, sum)'
  BY <1>1, <1>5, <1>6 DEF Written
<1>8. "commit" \in Steps
  BY DEF Steps
<1>9. QED
  BY <1>1, <1>2, <1>3, <1>7, <1>8, UpdateKeeps

(* The recalculation finds the items as they will be at the commit.         *)
LEMMA TotalStep ==
  ASSUME LockInv, NEW o \in Ops, UpdateBillTotal(o)
  PROVE  Exclusive' /\ \A p \in Ops : CallInv(p)'
<1>1. /\ on[o] = o /\ Live(o) /\ call[o] \in Calls /\ pc[o] = "total"
      /\ call'[o] = call[o] /\ fresh'[o] = fresh[o]
      /\ pc'[o] = IF call[o].kind = "close" THEN "closed" ELSE "commit"
  BY RunsOwn DEF UpdateBillTotal, Runs, Live, UpdateRow, GoTo, LockInv, KeyInv,
                 TypeInv, TypeOK
<1>2. PICK old, sum, r, to :
        /\ old = row[Bill(o)]
        /\ sum = Data!SumOf(items, Bill(o))
        /\ r = [View(o, Bill(o)) EXCEPT !.total = Data!SumOf(Visible(o), Bill(o))]
        /\ to = IF call[o].kind = "close" THEN "closed" ELSE "commit"
  OBVIOUS
<1>3. UpdateRow(o, o, r) /\ GoTo(o, to)
  BY <1>1, <1>2 DEF UpdateBillTotal, Bill
<1>4. /\ Written(o, old, draft[o][Bill(o)], sum)
      /\ old \in Data!Row
      /\ View(o, Bill(o)) = IF draft[o][Bill(o)] = NoRow
                              THEN old ELSE draft[o][Bill(o)]
  BY <1>1, <1>2, UnderLock, NoOpAssumption
<1>5. call[o].kind \in {"total", "close"} /\ fresh[o] = {}
  BY <1>1, <1>4 DEF Written, ActivateInv, AddInv, TotalInv, CloseInv, Calls
<1>6. r = [View(o, Bill(o)) EXCEPT !.total = sum]
  BY <1>2, <1>5 DEF Visible
<1>7. ASSUME call[o].kind = "total"
      PROVE  Written(o, old, r, sum)'
  <2>1. TotalInv(o, old, r, sum)'
    BY <1>1, <1>4, <1>6, <1>7 DEF Written, TotalInv
  <2>2. QED
    BY <1>1, <1>7, <2>1 DEF Written
<1>8. ASSUME call[o].kind = "close"
      PROVE  Written(o, old, r, sum)'
  <2>1. old.status = "active"
        /\ draft[o][Bill(o)] = [old EXCEPT !.status = "closing", !.reason = o]
    BY <1>1, <1>4, <1>8 DEF Written, CloseInv
  <2>2. draft[o][Bill(o)] = [status |-> "closing", total |-> old.total,
                             reason |-> o]
    BY <1>4, <2>1 DEF Data!Row
  <2>3. draft[o][Bill(o)] # NoRow
    BY <1>4, <2>2, NoRowAssumption DEF Data!Row, Data!Statuses
  <2>4. r = [status |-> "closing", total |-> sum, reason |-> o]
    BY <1>4, <1>6, <2>2, <2>3
  <2>5. CloseInv(o, old, r, sum)'
    BY <1>1, <1>5, <1>8, <2>1, <2>4 DEF CloseInv
  <2>6. QED
    BY <1>1, <1>8, <2>5 DEF Written
<1>9. Written(o, old, r, sum)'
  BY <1>5, <1>7, <1>8
<1>10. /\ to \in Steps
       /\ to \notin {"idle", "setBillTx", "setLineItemTx", "lock", "done"}
  BY <1>2 DEF Steps, Statements
<1>11. QED
  BY <1>1, <1>2, <1>3, <1>9, <1>10, UpdateKeeps

(* The columns of a row under a new status and reason.                      *)
LEMMA RowClosed ==
  ASSUME NEW d \in Data!Row, NEW st, NEW re
  PROVE  [d EXCEPT !.status = st, !.reason = re]
           = [status |-> st, total |-> d.total, reason |-> re]
<1>1. PICK e : e = [d EXCEPT !.status = st, !.reason = re]
  OBVIOUS
<1>2. e \in [status: {st}, total: {d.total}, reason: {re}]
  BY <1>1 DEF Data!Row
<1>3. e = [status |-> st, total |-> d.total, reason |-> re]
  BY <1>2
<1>4. QED
  BY <1>1, <1>3, Zenon

(* The first and the last statement of a close, and the flag after its      *)
(* failure, which nothing commits.                                          *)
LEMMA ClosureStep ==
  ASSUME LockInv, NEW o \in Ops, UpdateBillClosure(o)
  PROVE  Exclusive' /\ \A p \in Ops : CallInv(p)'
<1>1. PICK stmt \in {"closing", "closed", "flag"} :
        LET c == Closure(stmt, o) IN
          /\ Runs(o, stmt)
          /\ UpdateRow(o, on[o], [View(on[o], call[o].bill) EXCEPT
                                    !.status = c.status, !.reason = c.reason])
          /\ GoTo(o, c.next)
  BY DEF UpdateBillClosure
<1>2. /\ on[o] = o /\ pc[o] = stmt /\ call[o] \in Calls /\ tx[o] = "open"
      /\ call'[o] = call[o] /\ fresh'[o] = fresh[o]
      /\ UNCHANGED <<row, items>>
  BY <1>1, RunsOwn DEF Runs, UpdateRow, disk
<1>3. PICK old, sum, r, to :
        /\ old = row[Bill(o)]
        /\ sum = Data!SumOf(items, Bill(o))
        /\ r = [View(o, Bill(o)) EXCEPT !.status = Closure(stmt, o).status,
                                        !.reason = Closure(stmt, o).reason]
        /\ to = Closure(stmt, o).next
  OBVIOUS
<1>4. UpdateRow(o, o, r) /\ GoTo(o, to)
  BY <1>1, <1>2, <1>3 DEF Bill
<1>5. CASE stmt = "flag"
  <2>1. to = "rollback"
    BY <1>3, <1>5 DEF Closure
  <2>2. /\ \A p \in Ops \ {o} : SameCall(p)
        /\ Exclusive'
        /\ pc'[o] = "rollback" /\ on'[o] = NoOp
        /\ \A b \in Bills, m \in Modes : <<b, m>> \in holds'[o] => b = Bill(o)
    BY <1>2, <1>4, <2>1, UpdateOwn
  <2>3. Own(o)' /\ Clean(o)' /\ Held(o)' /\ Locked(o)'
    BY <1>2, <1>5, <2>2 DEF LockInv, CallInv, Own, Clean, Held, Locked, Live, Bill
  <2>4. QED
    BY <1>2, <2>2, <2>3, OwnStep DEF CallInv
<1>6. CASE stmt \in {"closing", "closed"}
  <2>1. Live(o)
    BY <1>2, <1>6 DEF Live
  <2>2. /\ Written(o, old, draft[o][Bill(o)], sum)
        /\ old \in Data!Row
        /\ View(o, Bill(o)) = IF draft[o][Bill(o)] = NoRow
                                THEN old ELSE draft[o][Bill(o)]
    BY <1>2, <1>3, <2>1, UnderLock, NoOpAssumption
  <2>3. /\ call[o].kind = "close" /\ fresh[o] = {}
        /\ CloseInv(o, old, draft[o][Bill(o)], sum)
    BY <1>2, <1>6, <2>2
       DEF Written, ActivateInv, AddInv, TotalInv, CloseInv, Calls
  <2>4. pc'[o] = to
    BY <1>4 DEF GoTo, LockInv, KeyInv, TypeInv, TypeOK
  <2>5. CloseInv(o, old, r, sum)'
    <3>1. CASE stmt = "closing"
      <4>1. old.status = "active" /\ draft[o][Bill(o)] = NoRow
        BY <1>2, <2>3, <3>1 DEF CloseInv
      <4>2. to = "total" /\ r = [old EXCEPT !.status = "closing", !.reason = o]
        BY <1>3, <2>2, <3>1, <4>1 DEF Closure
      <4>3. QED
        BY <1>2, <2>3, <2>4, <4>1, <4>2 DEF CloseInv
    <3>2. CASE stmt = "closed" /\ draft[o][Bill(o)] = NoRow
      <4>1. old.status = "pending"
        <5>1. [status |-> "closing", total |-> sum, reason |-> o] # NoRow
          BY <1>3, NoRowAssumption, SumIsKeys DEF Data!Row, Data!Statuses
        <5>2. QED
          BY <1>2, <2>3, <3>2, <5>1 DEF CloseInv
      <4>2. to = "commit" /\ r = [old EXCEPT !.status = "closed", !.reason = o]
        BY <1>3, <2>2, <3>2 DEF Closure
      <4>3. QED
        BY <1>2, <2>3, <2>4, <4>1, <4>2 DEF CloseInv
    <3>3. CASE stmt = "closed" /\ draft[o][Bill(o)] # NoRow
      <4>1. old.status = "active"
            /\ draft[o][Bill(o)] =
                 [status |-> "closing", total |-> sum, reason |-> o]
        BY <1>2, <2>3, <3>3 DEF CloseInv
      <4>2. to = "commit"
        BY <1>3, <3>3 DEF Closure
      <4>3. r = [status |-> "closed", total |-> sum, reason |-> o]
        <5>1. PICK d : d = View(o, Bill(o))
          OBVIOUS
        <5>2. d \in Data!Row /\ d.total = sum
          BY <1>3, <2>2, <3>3, <4>1, <5>1, SumIsKeys DEF Data!Row, Data!Statuses
        <5>3. r = [d EXCEPT !.status = "closed", !.reason = o]
          BY <1>3, <3>3, <5>1 DEF Closure
        <5>4. QED
          BY <5>2, <5>3, RowClosed
      <4>4. QED
        BY <1>2, <2>3, <2>4, <4>1, <4>2, <4>3 DEF CloseInv
    <3>4. QED
      BY <1>6, <3>1, <3>2, <3>3
  <2>6. Written(o, old, r, sum)'
    BY <1>2, <2>3, <2>5 DEF Written
  <2>7. /\ to \in Steps
        /\ to \notin {"idle", "setBillTx", "setLineItemTx", "lock", "done"}
    BY <1>3 DEF Closure, Steps, Statements
  <2>8. QED
    BY <1>2, <1>3, <1>4, <2>1, <2>6, <2>7, UpdateKeeps
<1>7. QED
  BY <1>5, <1>6

(* The lock statement finds the bill as it is committed, and only the       *)
(* callback that fits its status goes on.                                   *)
LEMMA LockStep ==
  ASSUME LockInv, NEW o \in Ops, GetBillForUpdate(o)
  PROVE  Exclusive' /\ \A p \in Ops : CallInv(p)'
<1>1. /\ on[o] = o /\ pc[o] = "lock" /\ call[o] \in Calls /\ Bill(o) \in Bills
      /\ UNCHANGED <<row, items, call, tx, draft, fresh>>
  BY RunsOwn DEF GetBillForUpdate, Runs, disk
<1>2. /\ draft[o] = Unchanged /\ fresh[o] = {} /\ holds[o] = {}
      /\ \A b \in Bills : draft[o][b] = NoRow
  BY <1>1 DEF LockInv, CallInv, Clean, Unchanged
<1>3. View(o, Bill(o)) = row[Bill(o)]
  BY <1>1, <1>2 DEF View
<1>4. PICK st, to :
        /\ st = row[Bill(o)].status
        /\ to = IF st = "none" THEN "rollback" ELSE AfterLock(call[o].kind, st)
        /\ IF st = "none" THEN UNCHANGED holds ELSE TakeLock(o, o, "update")
        /\ GoTo(o, to)
  BY <1>1, <1>3 DEF GetBillForUpdate, Bill
<1>5. /\ pc'[o] = to /\ on'[o] = NoOp
      /\ \A p \in Ops \ {o} : pc'[p] = pc[p] /\ on'[p] = on[p]
  BY <1>4 DEF GoTo, LockInv, KeyInv, TypeInv, TypeOK
<1>6. ASSUME TakeLock(o, o, "update")
      PROVE  /\ Exclusive'
             /\ holds'[o] = {<<Bill(o), "update">>}
             /\ \A p \in Ops \ {o} : holds'[p] = holds[p]
  <2>1. /\ holds'[o] = {<<Bill(o), "update">>}
        /\ \A p \in Ops \ {o} : holds'[p] = holds[p]
    BY <1>2, <1>6 DEF TakeLock, Bill, LockInv, KeyInv, TypeInv, TypeOK
  <2>2. \A p \in Ops \ {o}, m \in Modes : <<Bill(o), m>> \notin holds[p]
    BY <1>6 DEF TakeLock, Blocked, Conflict, Bill
  <2>3. Exclusive'
    <3> SUFFICES ASSUME NEW s \in Ops, NEW t \in Ops, NEW b \in Bills,
                        NEW m \in Modes,
                        <<b, "update">> \in holds'[s], <<b, m>> \in holds'[t]
                 PROVE  s = t
      BY DEF Exclusive
    <3>1. CASE b = Bill(o)
      <4>1. "update" \in Modes
        BY DEF Modes
      <4>2. s = o /\ t = o
        BY <2>1, <2>2, <3>1, <4>1
      <4>3. QED
        BY <4>2
    <3>2. CASE b # Bill(o)
      BY <2>1, <3>2 DEF LockInv, Exclusive
    <3>3. QED
      BY <3>1, <3>2
  <2>4. QED
    BY <2>1, <2>3
<1>7. Exclusive' /\ \A p \in Ops \ {o} : SameCall(p)
  BY <1>1, <1>4, <1>5, <1>6, FewerLocks DEF LockInv, SameCall
<1>8. /\ to \in {"activate", "insert", "total", "closing", "closed", "commit",
                 "rollback"}
      /\ to # "rollback" => Written(o, row[Bill(o)], draft[o][Bill(o)],
                                    Data!SumOf(items, Bill(o)))'
  <2>1. call[o].kind \in {"activate", "add", "total", "close"}
    BY <1>1 DEF Calls
  <2>2. /\ pc'[o] = to /\ call'[o] = call[o] /\ fresh'[o] = {}
        /\ row'[Bill(o)].status = st /\ draft'[o][Bill(o)] = NoRow
        /\ Bill(o)' = Bill(o)
    BY <1>1, <1>2, <1>4, <1>5 DEF Bill
  <2>3. CASE call[o].kind = "activate"
    BY <1>4, <2>2, <2>3 DEF AfterLock, Written, ActivateInv
  <2>4. CASE call[o].kind = "add"
    BY <1>4, <2>2, <2>4 DEF AfterLock, Written, AddInv
  <2>5. CASE call[o].kind = "total"
    BY <1>4, <2>2, <2>5 DEF AfterLock, Written, TotalInv
  <2>6. CASE call[o].kind = "close"
    BY <1>4, <2>2, <2>6 DEF AfterLock, Written, CloseInv
  <2>7. QED
    BY <2>1, <2>3, <2>4, <2>5, <2>6
<1>9. Own(o)' /\ Clean(o)' /\ Held(o)'
  <2>1. holds'[o] = {} \/ holds'[o] = {<<Bill(o), "update">>}
    BY <1>2, <1>4, <1>6
  <2>2. QED
    BY <1>1, <1>2, <1>5, <1>8, <2>1 DEF Own, Clean, Held, Bill
<1>10. Locked(o)'
  <2>1. Live(o)' => st # "none" /\ to # "rollback"
    BY <1>4, <1>5 DEF Live
  <2>2. QED
    BY <1>1, <1>2, <1>4, <1>6, <1>8, <2>1 DEF Locked, Bill
<1>11. QED
  BY <1>1, <1>7, <1>9, <1>10, OwnStep DEF CallInv

(* The server reports an error to o, whose transaction is then of no more   *)
(* use.                                                                     *)
LEMMA ErrorStep ==
  ASSUME LockInv, NEW o \in Ops, pc[o] \in Statements, ReturnError(o),
         \/ on' = on
         \/ on' = [on EXCEPT ![o] = NoOp],
         \/ UNCHANGED session
         \/ \E st \in {"aborted", "closed"} : End({o}, st),
         UNCHANGED <<disk, call>>
  PROVE  Exclusive' /\ \A p \in Ops : CallInv(p)'
<1>1. /\ pc'[o] \in {"flag", "rollback"}
      /\ \A p \in Ops \ {o} : pc'[p] = pc[p]
  BY ErrorType DEF LockInv, KeyInv, TypeInv
<1>2. /\ on'[o] \in {on[o], NoOp}
      /\ \A p \in Ops \ {o} : on'[p] = on[p]
  BY DEF LockInv, KeyInv, TypeInv, TypeOK
<1>3. \A p \in Ops \ {o} : SameCall(p)
  BY <1>1, <1>2 DEF End, SameCall, session
<1>4. Exclusive'
  BY FewerLocks DEF LockInv, End, session
<1>5. Own(o)' /\ Clean(o)' /\ Locked(o)'
  BY <1>1, <1>2 DEF LockInv, CallInv, Own, Clean, Locked, Live
<1>6. Held(o)'
  <2>1. fresh[o] = {}
    BY DEF LockInv, CallInv, Held, Statements
  <2>2. fresh'[o] = {} /\ holds'[o] \subseteq holds[o] /\ Bill(o)' = Bill(o)
    BY <2>1 DEF End, session, Bill
  <2>3. ASSUME pc'[o] = "flag", tx'[o] = "open"
        PROVE  <<Bill(o), "update">> \in holds'[o]
    <3>1. pc[o] = "total" /\ UNCHANGED session
      BY <2>3 DEF ReturnError, Summing, End, LockInv, KeyInv, TypeInv, TypeOK
    <3>2. QED
      BY <2>3, <3>1 DEF LockInv, CallInv, Locked, Live, session
  <2>4. QED
    BY <2>2, <2>3 DEF LockInv, CallInv, Held
<1>7. QED
  BY <1>3, <1>4, <1>5, <1>6, OwnStep DEF CallInv, disk

(* A new line item: the INSERT is the last statement before the commit.     *)
LEMMA InsertStep ==
  ASSUME LockInv, NEW o \in Ops, CreateLineItem(o)
  PROVE  Exclusive' /\ \A p \in Ops : CallInv(p)'
<1>1. /\ on[o] = o /\ pc[o] = "insert" /\ call[o] \in Calls /\ tx[o] = "open"
      /\ UNCHANGED <<row, items, call>>
  BY RunsOwn DEF CreateLineItem, Runs, disk
<1>2. CASE \E i \in Visible(o) : i.key = call[o].key
  BY <1>1, <1>2, ErrorStep DEF CreateLineItem, Statements, disk
<1>3. CASE ~\E i \in Visible(o) : i.key = call[o].key
  <2> DEFINE new == [key |-> call[o].key, bill |-> call[o].bill]
  <2>1. /\ TakeLock(o, o, "keyshare")
        /\ fresh' = [fresh EXCEPT ![o] = @ \cup {new}]
        /\ GoTo(o, "commit")
        /\ UNCHANGED <<tx, draft>>
    BY <1>1, <1>3 DEF CreateLineItem
  <2>2. /\ Exclusive'
        /\ holds[o] \subseteq holds'[o]
        /\ holds'[o] \subseteq holds[o] \cup {<<Bill(o), "keyshare">>}
        /\ \A p \in Ops \ {o} : holds'[p] = holds[p]
    BY <2>1, WeakLock
  <2>3. /\ pc'[o] = "commit" /\ on'[o] = NoOp
        /\ fresh'[o] = fresh[o] \cup {new}
        /\ \A p \in Ops \ {o} :
             pc'[p] = pc[p] /\ on'[p] = on[p] /\ fresh'[p] = fresh[p]
    BY <2>1 DEF GoTo, LockInv, KeyInv, TypeInv, TypeOK
  <2>4. \A p \in Ops \ {o} : SameCall(p)
    BY <1>1, <2>1, <2>2, <2>3 DEF SameCall
  <2>5. Own(o)' /\ Clean(o)' /\ Held(o)'
    BY <1>1, <2>2, <2>3 DEF LockInv, CallInv, Own, Clean, Held, Bill
  <2>6. Locked(o)'
    <3>1. Live(o)
      BY <1>1 DEF Live
    <3>2. /\ row[Bill(o)].status # "none"
          /\ <<Bill(o), "update">> \in holds[o]
          /\ \A b \in Bills \ {Bill(o)} : draft[o][b] = NoRow
          /\ Written(o, row[Bill(o)], draft[o][Bill(o)],
                     Data!SumOf(items, Bill(o)))
      BY <1>1, <3>1, UnderLock, NoOpAssumption
    <3>3. call[o].kind = "add" /\ AddInv(o, row[Bill(o)], draft[o][Bill(o)])
      BY <1>1, <3>2 DEF Written, ActivateInv, TotalInv, CloseInv, Calls
    <3>4. fresh'[o] = {new}
      BY <1>1, <2>3, <3>3 DEF AddInv
    <3>5. AddInv(o, row[Bill(o)], draft[o][Bill(o)])'
      BY <1>1, <2>1, <2>3, <3>3, <3>4 DEF AddInv, Bill
    <3>6. Written(o, row[Bill(o)], draft[o][Bill(o)],
                  Data!SumOf(items, Bill(o)))'
      BY <1>1, <3>3, <3>5 DEF Written
    <3>7. QED
      BY <1>1, <2>1, <2>2, <3>2, <3>6 DEF Locked, Bill
  <2>7. QED
    BY <1>1, <2>2, <2>3, <2>4, <2>5, <2>6, OwnStep DEF CallInv
<1>4. QED
  BY <1>2, <1>3

(* A call begins, and stores its transaction in the fields of its instance. *)
LEMMA BeginStep ==
  ASSUME LockInv, NEW o \in Ops, Begin(o) \/ SetBillTx(o) \/ SetLineItemTx(o)
  PROVE  Exclusive' /\ \A p \in Ops : CallInv(p)'
<1>1. /\ UNCHANGED <<row, items, on, holds, draft, fresh>>
      /\ pc[o] \in {"idle", "setBillTx", "setLineItemTx"}
      /\ pc'[o] \in {"setBillTx", "setLineItemTx", "lock", "done"}
      /\ \A p \in Ops \ {o} : SameCall(p)
  BY DEF Begin, SetBillTx, SetLineItemTx, LockInv, KeyInv, TypeInv, TypeOK,
         disk, session, SameCall
<1>2. Exclusive'
  BY <1>1, FewerLocks DEF LockInv
<1>3. CallInv(o)'
  BY <1>1 DEF LockInv, CallInv, Own, Clean, Held, Locked, Live
<1>4. QED
  BY <1>1, <1>2, <1>3, OwnStep

(* o's statement goes to the connection of its own transaction, if it does  *)
(* not cross over to another one.                                           *)
LEMMA SendStep ==
  ASSUME LockInv, NEW o \in Ops, Send(o), ~crossed'
  PROVE  Exclusive' /\ \A p \in Ops : CallInv(p)'
<1>1. pc[o] \in Statements /\ UNCHANGED <<row, items, call, session>>
  BY DEF Send, disk
<1>2. CASE ~Usable(Field(o))
  BY <1>1, <1>2, ErrorStep DEF Send, disk
<1>3. CASE Usable(Field(o))
  <2>1. /\ on' = [on EXCEPT ![o] = o] /\ UNCHANGED pc
        /\ \A p \in Ops \ {o} : SameCall(p)
    BY <1>1, <1>3 DEF Send, SameCall, session, LockInv, KeyInv, TypeInv, TypeOK
  <2>2. Exclusive'
    BY <1>1, FewerLocks DEF LockInv, session
  <2>3. Own(o)' /\ Clean(o)' /\ Held(o)'
    BY <1>1, <2>1 DEF LockInv, CallInv, Own, Clean, Held, Bill, KeyInv, TypeInv,
                      TypeOK, session
  <2>4. Locked(o)'
    BY <1>1, <2>1, LockedKeeps DEF LockInv, CallInv, session
  <2>5. QED
    BY <1>1, <2>1, <2>2, <2>3, <2>4, OwnStep DEF CallInv
<1>4. QED
  BY <1>2, <1>3

(* A row that a transaction has written is never the absent one.            *)
LEMMA WrittenIsRow ==
  ASSUME NEW r \in Data!Row
  PROVE  r # NoRow
BY NoRowAssumption

(* A commit puts o's version of its bill in place of the old one, and is    *)
(* what BillLifecycle allows to happen to that bill.                        *)
LEMMA CommitEffect ==
  ASSUME LockInv, NEW o \in Ops, CanCommit(o), Apply(o)
  PROVE  /\ \A b \in Bills \ {Bill(o)} :
              /\ row'[b] = row[b]
              /\ Data!SumOf(items', b) = Data!SumOf(items, b)
         /\ [Data!Next]_<<row, items>>
<1>1. Live(o) /\ pc[o] = "commit" /\ call[o] \in Calls /\ Bill(o) \in Bills
        /\ row \in [Bills -> Data!Row] /\ items \subseteq Data!Item
  BY DEF CanCommit, Live, LockInv, KeyInv, TypeInv, TypeOK, Called, Calls, Bill,
         Data!TypeOK
<1>2. PICK b, old, new, sum : /\ b = Bill(o)
                              /\ old = row[Bill(o)]
                              /\ new = draft[o][Bill(o)]
                              /\ sum = Data!SumOf(items, Bill(o))
  OBVIOUS
<1>3. /\ b \in Bills /\ old \in Data!Row /\ sum \in SUBSET Keys
      /\ old = row[b] /\ new = draft[o][b] /\ sum = Data!SumOf(items, b)
  BY <1>1, <1>2, SumIsKeys
<1>4. /\ old.status # "none"
      /\ \A c \in Bills \ {b} : draft[o][c] = NoRow
      /\ Written(o, old, new, sum)
  BY <1>1, <1>2, <1>3 DEF LockInv, CallInv, Locked
<1>5. row' = [row EXCEPT ![b] = IF new = NoRow THEN old ELSE new]
  <2>1. ASSUME NEW c \in Bills
        PROVE  View(o, c) = IF c = b THEN IF new = NoRow THEN old ELSE new
                                     ELSE row[c]
    BY <1>2, <1>3, <1>4 DEF View
  <2>2. row' = [c \in Bills |-> View(o, c)]
    BY DEF Apply
  <2>3. QED
    BY <1>1, <2>1, <2>2
<1>6. items' = items \cup fresh[o]
  BY DEF Apply, Visible
<1>7. \/ fresh[o] = {}
      \/ call[o].kind = "add" /\ fresh[o] = {[key |-> call[o].key, bill |-> b]}
  BY <1>1, <1>2, <1>3, <1>4 DEF Written, ActivateInv, AddInv, TotalInv, CloseInv, Calls
<1>8. ASSUME NEW c \in Bills \ {b}
      PROVE  /\ row'[c] = row[c]
             /\ Data!SumOf(items', c) = Data!SumOf(items, c)
  <2>1. \A i \in fresh[o] : i.bill # c
    BY <1>7, <1>8
  <2>2. Data!SumOf(items', c) = Data!SumOf(items, c)
    BY <1>6, <2>1 DEF Data!SumOf
  <2>3. QED
    BY <1>1, <1>5, <2>2
<1>9. [Data!Next]_<<row, items>>
  <2>1. CASE call[o].kind = "activate"
    <3>1. ActivateInv(o, old, new)
      BY <1>4, <2>1 DEF Written
    <3>2. old.status = "pending" /\ fresh[o] = {}
            /\ new = [old EXCEPT !.status = "active"]
      BY <1>1, <3>1 DEF ActivateInv
    <3>3. new \in Data!Row
      BY <1>3, <3>2 DEF Data!Row, Data!Statuses
    <3>4. row' = [row EXCEPT ![b] = new] /\ items' = items
      BY <1>5, <1>6, <3>2, <3>3, WrittenIsRow
    <3>5. Data!Activate(b)
      BY <1>1, <1>3, <3>2, <3>4 DEF Data!Activate
    <3>6. QED
      BY <1>3, <3>5 DEF Data!Next
  <2>2. CASE call[o].kind = "add"
    <3>1. AddInv(o, old, new)
      BY <1>4, <2>2 DEF Written
    <3> DEFINE i == [key |-> call[o].key, bill |-> b]
    <3>2. old.status = "active" /\ new = NoRow /\ fresh[o] = {i}
      BY <1>1, <1>2, <3>1 DEF AddInv
    <3>3. row' = row /\ items' = items \cup {i}
      BY <1>1, <1>3, <1>5, <1>6, <3>2
    <3>4. CASE i \in items
      BY <3>3, <3>4
    <3>5. CASE i \notin items
      <4>1. \A j \in items : j.key # call[o].key
        <5>1. i \in Visible(o) /\ \A j \in items : j \in Visible(o)
          BY <3>2 DEF Visible
        <5>2. i.key = call[o].key
          OBVIOUS
        <5> HIDE DEF i
        <5>3. QED
          BY <3>5, <5>1, <5>2 DEF LockInv, KeyInv, SeenOnce
      <4>2. call[o].key \in Keys
        BY <1>1, <2>2 DEF Calls
      <4>3. Data!AddItem(b, call[o].key)
        BY <1>3, <3>2, <3>3, <4>1 DEF Data!AddItem
      <4>4. QED
        BY <1>3, <4>2, <4>3 DEF Data!Next
    <3>6. QED
      BY <3>4, <3>5
  <2>3. CASE call[o].kind = "total"
    <3>1. TotalInv(o, old, new, sum)
      BY <1>4, <2>3 DEF Written
    <3>2. fresh[o] = {} /\ new = [old EXCEPT !.total = sum]
      BY <1>1, <3>1 DEF TotalInv
    <3>3. new \in Data!Row
      BY <1>3, <3>2 DEF Data!Row
    <3>4. row' = [row EXCEPT ![b] = new] /\ items' = items
      BY <1>5, <1>6, <3>2, <3>3, WrittenIsRow
    <3>5. Data!Recalculate(b)
      BY <1>1, <1>3, <1>4, <3>2, <3>4 DEF Data!Recalculate
    <3>6. QED
      BY <1>3, <3>5 DEF Data!Next
  <2>4. CASE call[o].kind = "close"
    <3>1. CloseInv(o, old, new, sum) /\ fresh[o] = {} /\ items' = items
      BY <1>4, <1>6, <2>4 DEF Written, CloseInv
    <3>2. CASE old.status = "closed" /\ new = NoRow
      BY <1>1, <1>3, <1>5, <3>1, <3>2
    <3>3. CASE /\ old.status = "pending"
               /\ new = [old EXCEPT !.status = "closed", !.reason = o]
      <4>1. new \in Data!Row
        BY <1>3, <3>3 DEF Data!Row, Data!Statuses
      <4>2. row' = [row EXCEPT ![b] = new]
        BY <1>5, <4>1, WrittenIsRow
      <4>3. Data!CloseUnstarted(b, o)
        BY <1>1, <1>3, <3>1, <3>3, <4>2 DEF Data!CloseUnstarted
      <4>4. QED
        BY <1>3, <4>3 DEF Data!Next
    <3>4. CASE /\ old.status = "active"
               /\ new = [status |-> "closed", total |-> sum, reason |-> o]
      <4>1. new \in Data!Row
        BY <1>3, <3>4 DEF Data!Row, Data!Statuses
      <4>2. row' = [row EXCEPT ![b] = new]
        BY <1>5, <4>1, WrittenIsRow
      <4>3. Data!CloseStarted(b, o)
        BY <1>1, <1>3, <3>1, <3>4, <4>2 DEF Data!CloseStarted
      <4>4. QED
        BY <1>3, <4>3 DEF Data!Next
    <3>5. QED
      BY <1>1, <3>1, <3>2, <3>3, <3>4 DEF CloseInv
  <2>5. QED
    BY <1>1, <2>1, <2>2, <2>3, <2>4 DEF Calls
<1>10. QED
  BY <1>2, <1>8, <1>9

(* A transaction that ends gives up its locks and its writes; the bills the *)
(* other calls have locked are not touched by what it commits.              *)
LEMMA FinishStep ==
  ASSUME LockInv, NEW o \in Ops, NEW answer, Finish(o, answer),
         \/ UNCHANGED disk
         \/ CanCommit(o) /\ Apply(o)
  PROVE  Exclusive' /\ \A p \in Ops : CallInv(p)'
<1>1. /\ pc'[o] = "done" /\ UNCHANGED <<call, on>>
      /\ \A p \in Ops \ {o} : SameCall(p)
  BY DEF Finish, End, SameCall, LockInv, KeyInv, TypeInv, TypeOK
<1>2. Exclusive'
  BY FewerLocks DEF LockInv, Finish, End
<1>3. CallInv(o)'
  BY <1>1 DEF LockInv, CallInv, Own, Clean, Held, Locked, Live, Finish, End
<1>4. ASSUME NEW p \in Ops \ {o}, Live(p)
      PROVE  /\ row'[Bill(p)] = row[Bill(p)]
             /\ Data!SumOf(items', Bill(p)) = Data!SumOf(items, Bill(p))
  <2>1. CASE UNCHANGED disk
    BY <2>1 DEF disk
  <2>2. CASE CanCommit(o) /\ Apply(o)
    <3>1. Live(o)
      BY <2>2 DEF CanCommit, Live
    <3>2. Bill(p) \in Bills
      BY <1>4 DEF LockInv, KeyInv, TypeInv, Called, Live, Calls, Bill
    <3>3. Bill(p) # Bill(o)
      BY <1>4, <3>1, <3>2 DEF LockInv, CallInv, Locked, Exclusive, Modes
    <3>4. QED
      BY <2>2, <3>2, <3>3, CommitEffect
  <2>3. QED
    BY <2>1, <2>2
<1>5. ASSUME NEW p \in Ops \ {o}
      PROVE  CallInv(p)'
  BY <1>1, <1>4, OtherCall DEF LockInv
<1>6. QED
  BY <1>2, <1>3, <1>5

(* An instance that dies takes only its own calls with it.                  *)
LEMMA CrashStep ==
  ASSUME LockInv, NEW n \in Instances, Crash(n)
  PROVE  Exclusive' /\ \A p \in Ops : CallInv(p)'
<1>1. PICK dead \in SUBSET Ops :
        /\ pc' = [o \in Ops |-> IF o \in dead THEN "done" ELSE pc[o]]
        /\ on' = [o \in Ops |-> IF o \in dead THEN NoOp ELSE on[o]]
        /\ End(dead, "closed")
        /\ UNCHANGED <<row, items, call>>
  BY DEF Crash, disk
<1>2. Exclusive'
  BY <1>1, FewerLocks DEF LockInv, End
<1>3. ASSUME NEW p \in dead
      PROVE  CallInv(p)'
  BY <1>1 DEF LockInv, CallInv, Own, Clean, Held, Locked, Live, End
<1>4. ASSUME NEW p \in Ops \ dead
      PROVE  CallInv(p)'
  <2>1. SameCall(p)
    BY <1>1 DEF SameCall, End
  <2>2. QED
    BY <1>1, <2>1, OtherCall DEF LockInv
<1>5. QED
  BY <1>2, <1>3, <1>4

(* A new bill is none that a call could have locked.                        *)
LEMMA CreateStep ==
  ASSUME LockInv, NEW b \in Bills, CreateBill(b)
  PROVE  Exclusive' /\ \A p \in Ops : CallInv(p)'
<1>1. /\ \A p \in Ops : SameCall(p)
      /\ UNCHANGED <<pc, holds, items>>
  BY DEF CreateBill, control, session, SameCall, Data!Create
<1>2. Exclusive'
  BY <1>1, FewerLocks DEF LockInv
<1>3. ASSUME NEW p \in Ops, Live(p)
      PROVE  row'[Bill(p)] = row[Bill(p)]
  <2>1. row[Bill(p)].status # "none" /\ Bill(p) \in Bills
    BY <1>3 DEF LockInv, CallInv, Locked, KeyInv, TypeInv, Called, Live, Calls,
                Bill
  <2>2. QED
    BY <2>1 DEF CreateBill, Data!Create, LockInv, KeyInv, TypeInv, TypeOK,
                Data!TypeOK
<1>4. \A p \in Ops : CallInv(p)'
  BY <1>1, <1>3, OtherCall DEF LockInv
<1>5. QED
  BY <1>2, <1>4

(* The invariant of the locking protocol holds initially and is preserved.  *)
LEMMA LockInit == Init => LockInv
<1> SUFFICES ASSUME Init
             PROVE  LockInv
  OBVIOUS
<1>1. KeyInv
  BY TypeInit DEF Init, Data!Init, KeyInv, OneItemPerKey, SeenOnce, PendingApart,
                  Visible
<1>2. Exclusive
  BY DEF Init, Exclusive
<1>3. ASSUME NEW o \in Ops
      PROVE  CallInv(o)
  BY DEF Init, CallInv, Own, Clean, Held, Locked, Live
<1>4. QED
  BY <1>1, <1>2, <1>3 DEF LockInv

(* Every step keeps the locking protocol, but one that crosses over.        *)
LEMMA LockInvStep ==
  ASSUME LockInv, [Next]_vars, ~crossed'
  PROVE  LockInv'
<1> SUFFICES Exclusive' /\ \A p \in Ops : CallInv(p)'
  BY KeyStep DEF LockInv
<1>1. CASE UNCHANGED vars
  <2>1. \A p \in Ops : SameCall(p)
    BY <1>1 DEF vars, SameCall
  <2>2. UNCHANGED <<row, items, holds>>
    BY <1>1 DEF vars
  <2>3. Exclusive'
    BY <2>2, FewerLocks DEF LockInv
  <2>4. QED
    BY <2>1, <2>2, <2>3, OtherCall DEF LockInv
<1>2. ASSUME NEW b \in Bills, CreateBill(b)
      PROVE  Exclusive' /\ \A p \in Ops : CallInv(p)'
  BY <1>2, CreateStep
<1>3. ASSUME NEW n \in Instances, Crash(n)
      PROVE  Exclusive' /\ \A p \in Ops : CallInv(p)'
  BY <1>3, CrashStep
<1>4. ASSUME NEW o \in Ops, Begin(o) \/ Step(o) \/ Failure(o)
      PROVE  Exclusive' /\ \A p \in Ops : CallInv(p)'
  <2>1. CASE Begin(o) \/ SetBillTx(o) \/ SetLineItemTx(o)
    BY <2>1, BeginStep
  <2>2. CASE Send(o)
    BY <2>2, SendStep
  <2>3. CASE GetBillForUpdate(o)
    BY <2>3, LockStep
  <2>4. CASE UpdateBillStatus(o) \/ UpdateBillClosure(o) \/ UpdateBillTotal(o)
    BY <2>4, StatusStep, ClosureStep, TotalStep
  <2>5. CASE CreateLineItem(o)
    BY <2>5, InsertStep
  <2>6. CASE ConvertFails(o)
    BY <2>6, ErrorStep DEF ConvertFails, Statements
  <2>7. CASE StatementRefused(o)
    BY <2>7, RunsOwn, ErrorStep DEF StatementRefused
  <2>8. CASE StatementFails(o)
    BY <2>8, RunsOwn, ErrorStep DEF StatementFails
  <2>9. CASE Commit(o) \/ CommitLost(o) \/ CommitRefused(o) \/ Rollback(o)
    <3>1. PICK answer : Finish(o, answer)
      BY <2>9 DEF Commit, CommitLost, CommitRefused, Rollback
    <3>2. \/ UNCHANGED disk
          \/ CanCommit(o) /\ Apply(o)
      BY <2>9 DEF Commit, CommitLost, CommitRefused, Rollback
    <3>3. QED
      BY <3>1, <3>2, FinishStep
  <2>10. QED
    BY <1>4, <2>1, <2>2, <2>3, <2>4, <2>5, <2>6, <2>7, <2>8, <2>9
       DEF Step, Failure
<1>5. QED
  BY <1>1, <1>2, <1>3, <1>4 DEF Next

(* What one step does to the disk is a transaction of BillLifecycle.        *)
LEMMA DiskStep ==
  ASSUME LockInv, [Next]_vars
  PROVE  [Data!Next]_<<row, items>>
<1>1. CASE UNCHANGED <<row, items>>
  BY <1>1
<1>2. ASSUME NEW b \in Bills, CreateBill(b)
      PROVE  [Data!Next]_<<row, items>>
  BY <1>2 DEF CreateBill, Data!Next
<1>3. ASSUME NEW o \in Ops, Commit(o) \/ CommitLost(o)
      PROVE  [Data!Next]_<<row, items>>
  BY <1>3, CommitEffect DEF Commit, CommitLost, disk
<1>4. ASSUME ~UNCHANGED <<row, items>>
      PROVE  \/ \E b \in Bills : CreateBill(b)
             \/ \E o \in Ops : Commit(o) \/ CommitLost(o)
  <2> USE <1>4 DEF disk
  <2>1. ASSUME NEW o \in Ops, Step(o)
        PROVE  Commit(o)
    BY <2>1 DEF Step, SetBillTx, SetLineItemTx, Send, GetBillForUpdate,
                UpdateBillStatus, UpdateBillClosure, UpdateBillTotal, UpdateRow,
                CreateLineItem, StatementRefused, CommitRefused, Rollback
  <2>2. ASSUME NEW o \in Ops, Failure(o)
        PROVE  CommitLost(o)
    BY <2>2 DEF Failure, ConvertFails, StatementFails
  <2>3. QED
    BY <2>1, <2>2 DEF Next, vars, Begin, Crash
<1>5. QED
  BY <1>1, <1>2, <1>3, <1>4

(* What o has been answered "ok" for is on the disk, and o is done.         *)
Stored(o) ==
  LET st == row[Bill(o)].status IN
    /\ call[o].kind = "add" =>
         [key |-> call[o].key, bill |-> Bill(o)] \in items
    /\ call[o].kind = "close" => st = "closed"
    /\ call[o].kind = "activate" => st \in {"active", "closed"}

Answered == \A o \in Ops : res[o] = "ok" => pc[o] = "done" /\ Stored(o)

(* No transaction of any call takes back what is stored.                    *)
LEMMA StoredStays ==
  ASSUME Data!TypeOK, [Data!Next]_<<row, items>>, NEW b \in Bills
  PROVE  /\ items \subseteq items'
         /\ row[b].status = "closed" => row'[b].status = "closed"
         /\ row[b].status = "active" => row'[b].status \in {"active", "closed"}
<1> USE DEF Data!TypeOK, Data!Row
<1>1. CASE UNCHANGED <<row, items>>
  BY <1>1
<1>2. ASSUME NEW c \in Bills, Data!Create(c) \/ Data!Activate(c)
      PROVE  /\ items \subseteq items'
             /\ row[b].status \in {"active", "closed"} => row'[b] = row[b]
  BY <1>2 DEF Data!Create, Data!Activate
<1>3. ASSUME NEW c \in Bills, Data!Recalculate(c)
      PROVE  items \subseteq items' /\ row'[b].status = row[b].status
  BY <1>3 DEF Data!Recalculate
<1>4. ASSUME NEW c \in Bills, NEW k \in Keys, Data!AddItem(c, k)
      PROVE  items \subseteq items' /\ row'[b] = row[b]
  BY <1>4 DEF Data!AddItem
<1>5. ASSUME NEW c \in Bills, NEW r \in Ops,
             Data!CloseUnstarted(c, r) \/ Data!CloseStarted(c, r)
      PROVE  /\ items \subseteq items'
             /\ row'[b].status \in {row[b].status, "closed"}
  BY <1>5 DEF Data!CloseUnstarted, Data!CloseStarted
<1>6. QED
  BY <1>1, <1>2, <1>3, <1>4, <1>5 DEF Data!Next

(* A commit that is answered "ok" has stored what its call was for.         *)
LEMMA CommitStores ==
  ASSUME LockInv, NEW o \in Ops, Commit(o)
  PROVE  Stored(o)'
<1>1. Live(o) /\ pc[o] = "commit" /\ call[o] \in Calls /\ Bill(o) \in Bills
        /\ call' = call /\ row[Bill(o)] \in Data!Row
  BY DEF Commit, CanCommit, Finish, Live, LockInv, KeyInv, TypeInv, TypeOK,
         Called, Calls, Bill, Data!TypeOK
<1>2. PICK b, old, new, sum : /\ b = Bill(o)
                              /\ old = row[Bill(o)]
                              /\ new = draft[o][Bill(o)]
                              /\ sum = Data!SumOf(items, Bill(o))
  OBVIOUS
<1>3. Written(o, old, new, sum) /\ b \in Bills /\ Bill(o)' = b
  BY <1>1, <1>2 DEF LockInv, CallInv, Locked, Bill
<1>4. row'[b] = (IF new = NoRow THEN old ELSE new) /\ items' = items \cup fresh[o]
  BY <1>1, <1>2, <1>3 DEF Commit, Apply, View, Visible
<1>5. CASE call[o].kind = "add"
  BY <1>1, <1>2, <1>3, <1>4, <1>5 DEF Written, AddInv, Stored
<1>6. CASE call[o].kind = "close"
  <2>1. row'[b].status = "closed"
    <3>1. CloseInv(o, old, new, sum)
      BY <1>3, <1>6 DEF Written
    <3>2. CASE old.status = "closed" /\ new = NoRow
      BY <1>4, <3>2
    <3>3. CASE new = [old EXCEPT !.status = "closed", !.reason = o]
      <4>1. new \in Data!Row /\ new.status = "closed"
        BY <1>1, <1>2, <3>3 DEF Data!Row, Data!Statuses
      <4>2. QED
        BY <1>4, <4>1, WrittenIsRow
    <3>4. CASE new = [status |-> "closed", total |-> sum, reason |-> o]
      <4>1. sum \in SUBSET Keys
        BY <1>2, SumIsKeys
      <4>2. new \in Data!Row /\ new.status = "closed"
        BY <3>4, <4>1 DEF Data!Row, Data!Statuses
      <4>3. QED
        BY <1>4, <4>2, WrittenIsRow
    <3>5. QED
      BY <1>1, <3>1, <3>2, <3>3, <3>4 DEF CloseInv
  <2>2. QED
    BY <1>1, <1>3, <1>6, <2>1 DEF Stored
<1>7. CASE call[o].kind = "activate"
  <2>1. new = [old EXCEPT !.status = "active"]
    BY <1>1, <1>3, <1>7 DEF Written, ActivateInv
  <2>2. new \in Data!Row /\ new.status = "active"
    BY <1>1, <1>2, <2>1 DEF Data!Row, Data!Statuses
  <2>3. row'[b].status = "active"
    BY <1>4, <2>2, WrittenIsRow
  <2>4. QED
    BY <1>1, <1>3, <1>7, <2>3 DEF Stored
<1>8. CASE call[o].kind = "total"
  BY <1>1, <1>8 DEF Stored
<1>9. QED
  BY <1>1, <1>5, <1>6, <1>7, <1>8 DEF Calls

(* Only a commit answers "ok", and an answer is never taken back.           *)
LEMMA AnsweredStep ==
  ASSUME LockInv, Answered, [Next]_vars
  PROVE  Answered'
<1> SUFFICES ASSUME NEW o \in Ops, res'[o] = "ok"
             PROVE  pc'[o] = "done" /\ Stored(o)'
  BY DEF Answered
<1>1. [Data!Next]_<<row, items>> /\ Data!TypeOK
  BY DiskStep DEF LockInv, KeyInv, TypeInv, TypeOK
<1>2. CASE Commit(o)
  BY <1>2, CommitStores DEF Commit, Finish, LockInv, KeyInv, TypeInv, TypeOK
<1>3. ASSUME res[o] = "ok", pc'[o] = pc[o], call'[o] = call[o]
      PROVE  pc'[o] = "done" /\ Stored(o)'
  <2>1. pc[o] = "done" /\ Stored(o)
    BY <1>3 DEF Answered
  <2>2. Bill(o) \in Bills /\ Bill(o)' = Bill(o)
    BY <1>3, <2>1 DEF LockInv, KeyInv, TypeInv, Called, Calls, Bill
  <2>3. QED
    BY <1>1, <1>3, <2>1, <2>2, StoredStays DEF Stored
<1>4. ASSUME ~Commit(o)
      PROVE  res[o] = "ok" /\ pc'[o] = pc[o] /\ call'[o] = call[o]
  <2>1. /\ pc \in [Ops -> Steps] /\ call \in [Ops -> Calls \cup {NoCall}]
        /\ res \in [Ops -> {"none", "ok", "failed", "uncalculated"}]
        /\ res[o] = "ok" => pc[o] = "done"
    BY DEF LockInv, KeyInv, TypeInv, TypeOK, Answered
  <2>2. ASSUME NEW p \in Ops, pc[p] # "done",
               res'[p] \in {res[p], "failed", "uncalculated"},
               \A q \in Ops \ {p} :
                 pc'[q] = pc[q] /\ res'[q] = res[q] /\ call'[q] = call[q]
        PROVE  res[o] = "ok" /\ pc'[o] = pc[o] /\ call'[o] = call[o]
    BY <2>1, <2>2
  <2>3. ASSUME NEW p \in Ops, Begin(p)
        PROVE  res[o] = "ok" /\ pc'[o] = pc[o] /\ call'[o] = call[o]
    BY <2>1, <2>2, <2>3 DEF Begin
  <2>4. ASSUME NEW p \in Ops, SetBillTx(p) \/ SetLineItemTx(p)
        PROVE  res[o] = "ok" /\ pc'[o] = pc[o] /\ call'[o] = call[o]
    BY <2>1, <2>2, <2>4 DEF SetBillTx, SetLineItemTx
  <2>5. ASSUME NEW p \in Ops, pc[p] \in Statements, ReturnError(p), call' = call
        PROVE  res[o] = "ok" /\ pc'[o] = pc[o] /\ call'[o] = call[o]
    BY <2>1, <2>2, <2>5 DEF ReturnError, Statements
  <2>6. ASSUME NEW p \in Ops,
               Send(p) \/ ConvertFails(p) \/ StatementRefused(p)
                 \/ StatementFails(p)
        PROVE  res[o] = "ok" /\ pc'[o] = pc[o] /\ call'[o] = call[o]
    <3>1. pc[p] \in Statements /\ call' = call
      BY <2>6, RunsOwn DEF Send, ConvertFails, StatementRefused, StatementFails,
                           Statements
    <3>2. \/ ReturnError(p)
          \/ UNCHANGED <<pc, res>>
      BY <2>6 DEF Send, ConvertFails, StatementRefused, StatementFails
    <3>3. QED
      BY <2>1, <2>5, <3>1, <3>2
  <2>7. ASSUME NEW p \in Ops, GetBillForUpdate(p)
        PROVE  res[o] = "ok" /\ pc'[o] = pc[o] /\ call'[o] = call[o]
    BY <2>1, <2>2, <2>7 DEF GetBillForUpdate, GoTo, Runs
  <2>8. ASSUME NEW p \in Ops, NEW to, on[p] # NoOp, GoTo(p, to),
               UNCHANGED <<call, res>>
        PROVE  res[o] = "ok" /\ pc'[o] = pc[o] /\ call'[o] = call[o]
    <3>1. pc[p] # "done"
      BY <2>8, RunsOwn DEF Statements
    <3>2. QED
      BY <2>1, <2>2, <2>8, <3>1 DEF GoTo
  <2>9. ASSUME NEW p \in Ops,
               UpdateBillStatus(p) \/ UpdateBillClosure(p) \/ UpdateBillTotal(p)
        PROVE  res[o] = "ok" /\ pc'[o] = pc[o] /\ call'[o] = call[o]
    BY <2>8, <2>9 DEF UpdateBillStatus, UpdateBillClosure, UpdateBillTotal,
                      UpdateRow, Runs
  <2>10. ASSUME NEW p \in Ops, CreateLineItem(p)
         PROVE  res[o] = "ok" /\ pc'[o] = pc[o] /\ call'[o] = call[o]
    <3>1. pc[p] = "insert" /\ on[p] # NoOp /\ call' = call
      BY <2>10 DEF CreateLineItem, Runs
    <3>2. CASE \E i \in Visible(on[p]) : i.key = call[p].key
      BY <2>5, <2>10, <3>1, <3>2 DEF CreateLineItem, Statements
    <3>3. CASE ~\E i \in Visible(on[p]) : i.key = call[p].key
      BY <2>8, <2>10, <3>1, <3>3 DEF CreateLineItem
    <3>4. QED
      BY <3>2, <3>3
  <2>11. ASSUME NEW p \in Ops,
                CommitLost(p) \/ CommitRefused(p) \/ Rollback(p)
         PROVE  res[o] = "ok" /\ pc'[o] = pc[o] /\ call'[o] = call[o]
    BY <2>1, <2>2, <2>11 DEF CommitLost, CommitRefused, Rollback, CanCommit,
                             Finish
  <2>12. ASSUME NEW p \in Ops, Commit(p)
         PROVE  res[o] = "ok" /\ pc'[o] = pc[o] /\ call'[o] = call[o]
    BY <1>4, <2>1, <2>12 DEF Commit, Finish
  <2>13. ASSUME NEW n \in Instances, Crash(n)
         PROVE  res[o] = "ok" /\ pc'[o] = pc[o] /\ call'[o] = call[o]
    BY <2>1, <2>13 DEF Crash, InFlight
  <2>14. ASSUME UNCHANGED <<pc, call, res>>
         PROVE  res[o] = "ok" /\ pc'[o] = pc[o] /\ call'[o] = call[o]
    BY <2>14
  <2>15. QED
    BY <2>3, <2>4, <2>6, <2>7, <2>9, <2>10, <2>11, <2>12, <2>13, <2>14
       DEF Next, Step, Failure, vars, CreateBill, control
<1>5. QED
  BY <1>2, <1>3, <1>4

-----------------------------------------------------------------------------
Rows == INSTANCE BillLifecycleProofs WITH Reasons <- Ops, NoReason <- NoOp

(* What is kept as long as no statement has crossed over: the locking       *)
(* protocol, with it the invariant of the bill's life, and the answers.     *)
Kept == LockInv /\ Rows!IInv /\ Answered

(* What is proved of BillLifecycle may be used of the rows here.            *)
LEMMA DataIsRows ==
  /\ Data!Init => Rows!Init
  /\ [Data!Next]_<<row, items>> => [Rows!Next]_Rows!vars
BY DEF Data!Init, Rows!Init, Data!NewRow, Rows!NewRow, Data!Next, Rows!Next,
       Rows!vars, Data!Create, Rows!Create, Data!Activate, Rows!Activate,
       Data!Recalculate, Rows!Recalculate, Data!AddItem, Rows!AddItem,
       Data!CloseUnstarted, Rows!CloseUnstarted, Data!CloseStarted,
       Rows!CloseStarted, Data!SumOf, Rows!SumOf

(* A statement that has crossed over is not forgotten.                      *)
LEMMA CrossedStays ==
  ASSUME [Next]_vars, crossed
  PROVE  crossed'
<1> USE DEF fields
<1>1. ASSUME NEW o \in Ops, Step(o)
      PROVE  crossed'
  BY <1>1 DEF Step, SetBillTx, SetLineItemTx, Send, GetBillForUpdate,
              UpdateBillStatus, UpdateBillClosure, UpdateBillTotal, UpdateRow,
              CreateLineItem, StatementRefused, Commit, CommitRefused, Rollback,
              Finish
<1>2. ASSUME NEW o \in Ops, Failure(o)
      PROVE  crossed'
  BY <1>2 DEF Failure, ConvertFails, StatementFails, CommitLost, Finish
<1>3. QED
  BY <1>1, <1>2 DEF Next, vars, CreateBill, Begin, Crash

LEMMA KeptInit == Init => Kept
<1> SUFFICES ASSUME Init
             PROVE  Kept
  OBVIOUS
<1>1. Rows!Init => Rows!IInv
  BY Rows!InitInv, NoOpAssumption, NoTotalAssumption
<1>2. Data!Init
  BY DEF Init
<1>3. Answered
  BY DEF Init, Answered
<1>4. QED
  BY <1>1, <1>2, <1>3, DataIsRows, LockInit DEF Kept

LEMMA KeptStep ==
  ASSUME ~crossed => Kept, [Next]_vars, ~crossed'
  PROVE  Kept /\ Kept' /\ [Data!Next]_<<row, items>>
<1>1. Kept
  BY CrossedStays
<1>2. LockInv' /\ Answered' /\ [Data!Next]_<<row, items>>
  BY <1>1, LockInvStep, AnsweredStep, DiskStep DEF Kept
<1>3. Rows!IInv /\ [Rows!Next]_Rows!vars => Rows!IInv'
  BY Rows!InvStep, NoOpAssumption, NoTotalAssumption
<1>4. QED
  BY <1>1, <1>2, <1>3, DataIsRows DEF Kept

LEMMA KeptInvariant == Spec => [](~crossed => Kept)
<1>1. (~crossed => Kept) /\ [Next]_vars => (~crossed => Kept)'
  BY KeptStep
<1>2. QED
  BY <1>1, KeptInit, PTL DEF Spec

-----------------------------------------------------------------------------
(* Every transaction that the calls commit is one step of the bill's life,  *)
(* up to the first statement that runs on another call's transaction, and   *)
(* for ever if there is none.                                               *)
THEOREM Implements ==
  Spec => /\ Data!Init
          /\ [][crossed' \/ Data!Next]_Data!vars
          /\ []~crossed => Lifecycle
<1>1. Init => Data!Init
  BY DEF Init
<1>2. (~crossed => Kept) /\ [Next]_vars => [crossed' \/ Data!Next]_<<row, items>>
  BY KeptStep
<1>3. ~crossed' /\ [crossed' \/ Data!Next]_<<row, items>>
        => [Data!Next]_<<row, items>>
  OBVIOUS
<1>4. QED
  BY <1>1, <1>2, <1>3, KeptInvariant, PTL
     DEF Spec, Lifecycle, Data!Spec, Data!vars

(* However calls overlap, lock, fail, crash and lose the answers of their   *)
(* commits: before a statement has crossed over to another transaction, the *)
(* total of a closed bill sums its items, no bill is half closed, and what  *)
(* was answered "ok" is on the disk for good.                               *)
THEOREM LossNeedsCrossingCorrect == Spec => []LossNeedsCrossing
<1>1. Rows!IInv => ClosedTotalIsFinal /\ NoHalfClosedBill
  BY DEF Rows!IInv, Rows!BillInv, ClosedTotalIsFinal, NoHalfClosedBill,
         Data!ClosedTotalIsFinal, Data!NoHalfClosedBill, Data!SumOf, Rows!SumOf,
         Data!Shown, Rows!Shown
<1>2. Answered => AcknowledgedIsCommitted
  BY DEF Answered, Stored, AcknowledgedIsCommitted, Bill
<1>3. (~crossed => Kept) => LossNeedsCrossing
  BY <1>1, <1>2 DEF Kept, LossNeedsCrossing
<1>4. QED
  BY <1>3, KeptInvariant, PTL

(* No call, late or repeated, changes anything a reader sees of a closed    *)
(* bill, and none takes an item out of a total, whatever the interleaving   *)
(* of locks, failures and crashes: a step that did would have come after    *)
(* one that crossed over.                                                   *)
THEOREM ClosedIsTerminalCorrect ==
  Spec => [][crossed' \/ \A b \in Bills : Rows!StepOf(b)]_<<row, items>>
<1>1. ASSUME Rows!IInv, [Rows!Next]_Rows!vars, NEW b \in Bills
      PROVE  Rows!StepOf(b)
  BY <1>1, Rows!BillStep, NoOpAssumption, NoTotalAssumption
<1>2. (~crossed => Kept) /\ [Next]_vars
        => [crossed' \/ \A b \in Bills : Rows!StepOf(b)]_<<row, items>>
  BY <1>1, KeptStep, DataIsRows DEF Kept
<1>3. QED
  BY <1>2, KeptInvariant, PTL DEF Spec

(* A session that others wait for has its row, and waits at most for a key  *)
(* whose holder is at its commit and waits for nobody: sessions do not wait *)
(* in circles as long as calls run on their own transactions, for any       *)
(* number of them.                                                          *)
THEOREM NoCirclesCorrect == Spec => [](~crossed => NoCircles)
<1>1. ASSUME LockInv, NEW s \in Ops, NEW t \in Ops, Awaits(s, t)
      PROVE  /\ s # t /\ tx[s] = "open" /\ pc[s] \in Statements
             /\ \/ fresh[t] # {}
                \/ \E n \in Modes : <<Bill(s), n>> \in holds[t]
  <2>1. PICK o \in Ops :
          /\ on[o] = s
          /\ \/ \E i \in fresh[t] : i.key = call[o].key
             \/ \E n \in Modes : <<call[o].bill, n>> \in holds[t]
    BY <1>1 DEF Awaits
  <2>2. s # t /\ tx[s] = "open"
    BY <1>1 DEF Awaits
  <2>3. o = s /\ pc[s] \in Statements
    BY <1>1, <2>1, RunsOwn, NoOpAssumption
  <2>4. QED
    BY <2>1, <2>2, <2>3 DEF Bill
<1>2. ASSUME LockInv, NEW C \in Circles
      PROVE  FALSE
  <2>1. C \subseteq Ops /\ C # {} /\ \A s \in C : \E t \in C : Awaits(s, t)
    BY <1>2 DEF Circles
  <2>2. \A t \in C : fresh[t] = {}
    <3>1. \A t \in C : pc[t] \in Statements
      BY <1>1, <1>2, <2>1
    <3>2. QED
      BY <1>2, <2>1, <3>1 DEF LockInv, CallInv, Held, Statements
  <2>3. PICK s \in C, t \in C, u \in C : Awaits(s, t) /\ Awaits(t, u)
    BY <2>1
  <2>4. /\ \E n \in Modes : <<Bill(s), n>> \in holds[t]
        /\ \E n \in Modes : <<Bill(t), n>> \in holds[u]
        /\ t # u /\ tx[t] = "open" /\ pc[t] \in Statements
    BY <1>1, <1>2, <2>1, <2>2, <2>3
  <2>5. <<Bill(t), "update">> \in holds[t]
    <3>1. pc[t] # "lock"
      BY <1>2, <2>1, <2>4 DEF LockInv, CallInv, Clean
    <3>2. CASE pc[t] = "flag"
      BY <1>2, <2>1, <2>4, <3>2 DEF LockInv, CallInv, Held
    <3>3. CASE pc[t] # "flag"
      BY <1>2, <2>1, <2>4, <3>1, <3>3
         DEF LockInv, CallInv, Locked, Live, Statements
    <3>4. QED
      BY <3>2, <3>3
  <2>6. Bill(t) \in Bills
    BY <1>2, <2>1, <2>4
       DEF LockInv, KeyInv, TypeInv, Called, Calls, Bill, Statements
  <2>7. QED
    BY <1>2, <2>1, <2>4, <2>5, <2>6 DEF LockInv, Exclusive
<1>3. LockInv => NoCircles
  BY <1>2 DEF NoCircles
<1>4. (~crossed => Kept) => (~crossed => NoCircles)
  BY <1>3 DEF Kept
<1>5. QED
  BY <1>4, KeptInvariant, PTL

-----------------------------------------------------------------------------
(* An instance is in one call at a time.                                    *)
Alone ==
  \A o, p \in Ops :
    InFlight(o) /\ InFlight(p) /\ Instance[o] = Instance[p] => o = p

(* A call finds its own transaction in the fields of its instance.          *)
OwnFields(o) ==
  /\ InFlight(o) /\ pc[o] # "setBillTx" => billTx[Instance[o]] = o
  /\ InFlight(o) /\ pc[o] \notin {"setBillTx", "setLineItemTx"} =>
       lineItemTx[Instance[o]] = o

FieldInv == TypeInv /\ Alone /\ ~crossed /\ \A o \in Ops : OwnFields(o)

(* Nothing but a call's beginning and the death of its instance concerns    *)
(* the fields.                                                              *)
LEMMA FieldsRest ==
  ASSUME Alone, \A o \in Ops : OwnFields(o), UNCHANGED <<billTx, lineItemTx>>,
         \A o \in Ops :
           \/ pc'[o] = pc[o]
           \/ InFlight(o) /\ pc[o] \notin {"setBillTx", "setLineItemTx"}
  PROVE  Alone' /\ \A o \in Ops : OwnFields(o)'
<1>1. \A o \in Ops : InFlight(o)' => InFlight(o)
  BY DEF InFlight
<1>2. Alone'
  BY <1>1 DEF Alone
<1>3. QED
  BY <1>1, <1>2 DEF OwnFields

(* A call that begins finds its instance idle, and keeps the fields.        *)
LEMMA FieldsSet ==
  ASSUME ~Overlap, FieldInv, NEW o \in Ops,
         Begin(o) \/ SetBillTx(o) \/ SetLineItemTx(o)
  PROVE  Alone' /\ \A p \in Ops : OwnFields(p)'
<1>1. /\ pc[o] \in {"idle", "setBillTx", "setLineItemTx"}
      /\ \A p \in Ops \ {o} : pc'[p] = pc[p]
  BY DEF Begin, SetBillTx, SetLineItemTx, FieldInv, TypeInv, TypeOK
<1>2. \A p \in Ops \ {o} :
        InFlight(p) /\ InFlight(o)' => Instance[p] # Instance[o]
  BY DEF Begin, SetBillTx, SetLineItemTx, FieldInv, Alone, InFlight
<1>3. \A p \in Ops \ {o} : InFlight(p)' <=> InFlight(p)
  BY <1>1 DEF InFlight
<1>4. Alone'
  <2> SUFFICES ASSUME NEW p \in Ops, NEW q \in Ops, InFlight(p)', InFlight(q)',
                      Instance[p] = Instance[q]
               PROVE  p = q
    BY DEF Alone
  <2>1. CASE p # o /\ q # o
    BY <1>3, <2>1 DEF FieldInv, Alone
  <2>2. CASE p = o \/ q = o
    BY <1>2, <1>3, <2>2
  <2>3. QED
    BY <2>1, <2>2
<1>5. ASSUME NEW p \in Ops \ {o}
      PROVE  OwnFields(p)'
  <2>1. InFlight(p) =>
          UNCHANGED <<billTx[Instance[p]], lineItemTx[Instance[p]]>>
    <3>1. CASE Begin(o)
      BY <3>1 DEF Begin, fields
    <3>2. CASE SetBillTx(o) \/ SetLineItemTx(o)
      <4>1. InFlight(o)'
        BY <3>2 DEF SetBillTx, SetLineItemTx, FieldInv, TypeInv, TypeOK, InFlight
      <4>2. QED
        BY <1>2, <3>2, <4>1, InstanceAssumption
           DEF SetBillTx, SetLineItemTx, FieldInv, TypeInv, TypeOK
    <3>3. QED
      BY <3>1, <3>2
  <2>2. QED
    BY <1>1, <1>3, <2>1 DEF FieldInv, OwnFields
<1>6. OwnFields(o)'
  BY <1>1, InstanceAssumption
     DEF Begin, SetBillTx, SetLineItemTx, FieldInv, OwnFields, InFlight, TypeInv,
         TypeOK
<1>7. QED
  BY <1>4, <1>5, <1>6

(* An instance that dies leaves its fields to no call.                      *)
LEMMA FieldsLost ==
  ASSUME FieldInv, NEW n \in Instances, Crash(n)
  PROVE  Alone' /\ \A p \in Ops : OwnFields(p)'
<1>1. PICK dead \in SUBSET Ops :
        /\ dead = {o \in Ops : Instance[o] = n /\ InFlight(o)}
        /\ pc' = [o \in Ops |-> IF o \in dead THEN "done" ELSE pc[o]]
        /\ billTx' = [billTx EXCEPT ![n] = NoOp]
        /\ lineItemTx' = [lineItemTx EXCEPT ![n] = NoOp]
  BY DEF Crash
<1>2. Alone'
  BY <1>1 DEF FieldInv, Alone, InFlight
<1>3. ASSUME NEW p \in Ops
      PROVE  OwnFields(p)'
  <2>1. CASE p \in dead
    BY <1>1, <2>1 DEF OwnFields, InFlight
  <2>2. CASE p \notin dead
    <3>1. InFlight(p)' => Instance[p] # n
      BY <1>1, <2>2 DEF InFlight
    <3>2. QED
      BY <1>1, <2>2, <3>1, InstanceAssumption
         DEF FieldInv, OwnFields, InFlight, TypeInv, TypeOK
  <2>3. QED
    BY <2>1, <2>2
<1>4. QED
  BY <1>2, <1>3

LEMMA FieldStep ==
  ASSUME ~Overlap, FieldInv, [Next]_vars
  PROVE  FieldInv'
<1> DEFINE Fields == Alone /\ \A p \in Ops : OwnFields(p)
<1>1. TypeInv'
  BY TypeStep DEF FieldInv
<1>2. /\ pc \in [Ops -> Steps]
      /\ \A o \in Ops : on[o] # NoOp => pc[o] \in Statements
  BY DEF FieldInv, TypeInv, TypeOK, Called
<1>3. ASSUME UNCHANGED <<billTx, lineItemTx, crossed>>,
             \A p \in Ops :
               \/ pc'[p] = pc[p]
               \/ InFlight(p) /\ pc[p] \notin {"setBillTx", "setLineItemTx"}
      PROVE  ~crossed' /\ Fields'
  BY <1>3, FieldsRest DEF FieldInv
<1>4. ASSUME NEW o \in Ops, NEW to, pc' = [pc EXCEPT ![o] = to],
             pc[o] \in Statements \cup {"commit", "rollback"}
      PROVE  \A p \in Ops :
               \/ pc'[p] = pc[p]
               \/ InFlight(p) /\ pc[p] \notin {"setBillTx", "setLineItemTx"}
  BY <1>2, <1>4 DEF InFlight, Statements
<1>5. ASSUME NEW o \in Ops, Step(o) \/ Failure(o) \/ Begin(o)
      PROVE  ~crossed' /\ Fields'
  <2>1. CASE Begin(o) \/ SetBillTx(o) \/ SetLineItemTx(o)
    BY <2>1, FieldsSet DEF Begin, SetBillTx, SetLineItemTx, fields, FieldInv
  <2>2. CASE Send(o)
    <3>1. Field(o) = o
      BY <1>2, <2>2 DEF Send, Field, FieldInv, OwnFields, InFlight, Statements
    <3>2. UNCHANGED <<billTx, lineItemTx>>
      BY <2>2 DEF Send
    <3>3. crossed' = crossed
      BY <2>2, <3>1 DEF Send, FieldInv, TypeInv, TypeOK
    <3>4. \A p \in Ops :
            \/ pc'[p] = pc[p]
            \/ InFlight(p) /\ pc[p] \notin {"setBillTx", "setLineItemTx"}
      BY <1>4, <2>2 DEF Send, ReturnError
    <3>5. QED
      BY <1>3, <3>2, <3>3, <3>4
  <2>3. CASE GetBillForUpdate(o) \/ UpdateBillStatus(o) \/ UpdateBillTotal(o)
    <3>1. PICK to : pc' = [pc EXCEPT ![o] = to]
      BY <2>3 DEF GetBillForUpdate, UpdateBillStatus, UpdateBillTotal, GoTo
    <3>2. pc[o] \in Statements /\ UNCHANGED <<billTx, lineItemTx, crossed>>
      BY <2>3 DEF GetBillForUpdate, UpdateBillStatus, UpdateBillTotal, UpdateRow,
                  Runs, Statements, fields
    <3>3. QED
      BY <1>3, <1>4, <3>1, <3>2
  <2>4. CASE UpdateBillClosure(o)
    <3>1. PICK to : pc' = [pc EXCEPT ![o] = to]
      BY <2>4 DEF UpdateBillClosure, GoTo
    <3>2. pc[o] \in Statements /\ UNCHANGED <<billTx, lineItemTx, crossed>>
      BY <1>2, <2>4 DEF UpdateBillClosure, UpdateRow, Runs, fields
    <3>3. QED
      BY <1>3, <1>4, <3>1, <3>2
  <2>5. CASE CreateLineItem(o)
    <3>1. PICK to : pc' = [pc EXCEPT ![o] = to]
      BY <2>5 DEF CreateLineItem, GoTo, ReturnError
    <3>2. pc[o] \in Statements /\ UNCHANGED <<billTx, lineItemTx, crossed>>
      BY <2>5 DEF CreateLineItem, Runs, Statements, fields
    <3>3. QED
      BY <1>3, <1>4, <3>1, <3>2
  <2>6. CASE ConvertFails(o) \/ StatementRefused(o) \/ StatementFails(o)
    <3>1. PICK to : pc' = [pc EXCEPT ![o] = to]
      BY <2>6 DEF ConvertFails, StatementRefused, StatementFails, ReturnError
    <3>2. pc[o] \in Statements /\ UNCHANGED <<billTx, lineItemTx, crossed>>
      BY <1>2, <2>6 DEF ConvertFails, StatementRefused, StatementFails, Statements,
                        fields
    <3>3. QED
      BY <1>3, <1>4, <3>1, <3>2
  <2>7. CASE Commit(o) \/ CommitLost(o) \/ CommitRefused(o) \/ Rollback(o)
    <3>1. /\ pc' = [pc EXCEPT ![o] = "done"]
          /\ pc[o] \in {"commit", "rollback"}
          /\ UNCHANGED <<billTx, lineItemTx, crossed>>
      BY <2>7 DEF Commit, CommitLost, CommitRefused, Rollback, CanCommit, Finish,
                  fields
    <3>2. QED
      BY <1>3, <1>4, <3>1
  <2>8. QED
    BY <1>5, <2>1, <2>2, <2>3, <2>4, <2>5, <2>6, <2>7 DEF Step, Failure
<1>6. ASSUME NEW n \in Instances, Crash(n)
      PROVE  ~crossed' /\ Fields'
  BY <1>6, FieldsLost DEF Crash, FieldInv
<1>7. ASSUME NEW b \in Bills, CreateBill(b)
      PROVE  ~crossed' /\ Fields'
  BY <1>3, <1>7 DEF CreateBill, control, fields
<1>8. ASSUME UNCHANGED vars
      PROVE  ~crossed' /\ Fields'
  BY <1>3, <1>8 DEF vars
<1>9. QED
  BY <1>1, <1>5, <1>6, <1>7, <1>8 DEF Next, FieldInv

(* Calls that do not overlap never cross over: what is kept up to then is   *)
(* kept for ever.                                                           *)
LEMMA NeverCrossed ==
  ASSUME ~Overlap
  PROVE  Spec => []~crossed
<1>1. Init => FieldInv
  BY TypeInit DEF Init, FieldInv, Alone, OwnFields, InFlight
<1>2. FieldInv /\ [Next]_vars => FieldInv'
  BY FieldStep
<1>3. FieldInv => ~crossed
  BY DEF FieldInv
<1>4. QED
  BY <1>1, <1>2, <1>3, PTL DEF Spec
=============================================================================
