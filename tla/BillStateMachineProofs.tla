----------------------- MODULE BillStateMachineProofs -----------------------
(* Properties of BillStateMachine for every set of calls, bills, keys and   *)
(* instances, whether or not an instance is given overlapping calls.        *)
EXTENDS BillStateMachine, TLAPS

(* A call that has begun knows what it was asked to do, only a call that is *)
(* at a statement has one running, and only an "add" inserts a line item.   *)
Called ==
  \A o \in Ops : /\ pc[o] # "idle" => call[o] \in Calls
                 /\ on[o] # NoOp => pc[o] \in Statements
                 /\ pc[o] = "insert" => call[o].key \in Keys

(* TypeOK is not inductive by itself: the lock a statement takes names the  *)
(* bill of its call.                                                        *)
TypeInv == TypeOK /\ Called

-----------------------------------------------------------------------------
(* What a session reads of a bill is a row.                                 *)
LEMMA ViewIsRow ==
  ASSUME TypeOK, NEW s \in Ops, NEW b \in Bills
  PROVE  View(s, b) \in Data!Row
BY DEF TypeOK, View, Data!TypeOK

(* A row stays one under a new status and reason.                           *)
LEMMA ClosureIsRow ==
  ASSUME NEW v \in Data!Row, NEW st \in Data!Statuses, NEW re \in Ops \cup {NoOp}
  PROVE  [v EXCEPT !.status = st, !.reason = re] \in Data!Row
BY DEF Data!Row

(* Ending transactions keeps the types of the sessions.                     *)
LEMMA EndType ==
  ASSUME TypeOK, NEW S, NEW st \in {"aborted", "closed"}, End(S, st)
  PROVE  /\ tx' \in [Ops -> {"none", "open", "aborted", "closed"}]
         /\ holds' \in [Ops -> SUBSET (Bills \X Modes)]
         /\ draft' \in [Ops -> [Bills -> {NoRow} \cup Data!Row]]
         /\ fresh' \in [Ops -> SUBSET Data!Item]
<1>1. tx' \in [Ops -> {"none", "open", "aborted", "closed"}]
  BY DEF TypeOK, End
<1>2. holds' \in [Ops -> SUBSET (Bills \X Modes)]
  BY DEF TypeOK, End
<1>3. draft' \in [Ops -> [Bills -> {NoRow} \cup Data!Row]]
  <2>1. Unchanged \in [Bills -> {NoRow} \cup Data!Row]
    BY DEF Unchanged
  <2>2. QED
    BY <2>1 DEF TypeOK, End
<1>4. fresh' \in [Ops -> SUBSET Data!Item]
  BY DEF TypeOK, End
<1>5. QED
  BY <1>1, <1>2, <1>3, <1>4

(* An error sends a call to its rollback, or to the flag before it.         *)
LEMMA ErrorType ==
  ASSUME TypeOK, NEW o \in Ops, ReturnError(o)
  PROVE  /\ pc' \in [Ops -> Steps]
         /\ res' \in [Ops -> {"none", "ok", "failed", "uncalculated"}]
         /\ pc'[o] \in {"flag", "rollback"}
         /\ \A p \in Ops \ {o} : pc'[p] = pc[p]
BY DEF TypeOK, ReturnError, Steps, Statements

(* An UPDATE with a well-formed row keeps the types of the sessions.        *)
LEMMA UpdateType ==
  ASSUME TypeInv, NEW o \in Ops, NEW s \in Ops, NEW r \in Data!Row,
         pc[o] # "idle", UpdateRow(o, s, r)
  PROVE  /\ Data!TypeOK'
         /\ holds' \in [Ops -> SUBSET (Bills \X Modes)]
         /\ draft' \in [Ops -> [Bills -> {NoRow} \cup Data!Row]]
         /\ UNCHANGED <<call, res, billTx, lineItemTx, crossed, tx, fresh>>
<1>1. call[o].bill \in Bills
  BY DEF TypeInv, Called, Calls
<1>2. holds' \in [Ops -> SUBSET (Bills \X Modes)]
  <2>1. <<call[o].bill, "nokey">> \in Bills \X Modes
    BY <1>1 DEF Modes
  <2>2. QED
    BY <2>1 DEF TypeInv, TypeOK, UpdateRow, TakeLock
<1>3. draft' \in [Ops -> [Bills -> {NoRow} \cup Data!Row]]
  BY <1>1 DEF TypeInv, TypeOK, UpdateRow
<1>4. QED
  BY <1>2, <1>3 DEF TypeInv, TypeOK, UpdateRow, disk, fields, Data!TypeOK

(* The invariant holds of the idle service.                                 *)
LEMMA TypeInit == Init => TypeInv
<1> SUFFICES ASSUME Init
             PROVE  TypeInv
  OBVIOUS
<1>1. Data!TypeOK
  BY DEF Init, Data!Init, Data!TypeOK, Data!NewRow, Data!Row, Data!Statuses
<1>2. draft \in [Ops -> [Bills -> {NoRow} \cup Data!Row]]
  BY DEF Init, Unchanged
<1>3. TypeOK
  BY <1>1, <1>2 DEF Init, TypeOK, Steps
<1>4. Called
  BY DEF Init, Called
<1>5. QED
  BY <1>3, <1>4 DEF TypeInv

(* Types are preserved by every statement, failure and crash.               *)
LEMMA TypeStep == TypeInv /\ [Next]_vars => TypeInv'
<1> SUFFICES ASSUME TypeInv, [Next]_vars
             PROVE  TypeInv'
  OBVIOUS
<1>1. CASE UNCHANGED vars
  BY <1>1 DEF TypeInv, TypeOK, Called, vars, Data!TypeOK
<1>2. ASSUME NEW b \in Bills, CreateBill(b)
      PROVE  TypeInv'
  <2>1. Data!TypeOK'
    BY <1>2 DEF TypeInv, TypeOK, CreateBill, Data!Create, Data!TypeOK,
                Data!NewRow, Data!Row, Data!Statuses
  <2>2. QED
    BY <1>2, <2>1 DEF TypeInv, TypeOK, Called, CreateBill, control, fields,
                      session
<1>3. ASSUME NEW o \in Ops, Begin(o)
      PROVE  TypeInv'
  BY <1>3 DEF TypeInv, TypeOK, Called, Begin, disk, fields, Steps, Statements,
              Data!TypeOK
<1>4. ASSUME NEW o \in Ops, SetBillTx(o)
      PROVE  TypeInv'
  BY <1>4, InstanceAssumption
     DEF TypeInv, TypeOK, Called, SetBillTx, disk, session, Steps, Statements,
         Data!TypeOK
<1>5. ASSUME NEW o \in Ops, SetLineItemTx(o)
      PROVE  TypeInv'
  BY <1>5, InstanceAssumption
     DEF TypeInv, TypeOK, Called, SetLineItemTx, disk, session, Steps,
         Statements, Data!TypeOK
<1>6. ASSUME NEW o \in Ops, Send(o)
      PROVE  TypeInv'
  <2>1. CASE Usable(Field(o))
    BY <1>6, <2>1 DEF TypeInv, TypeOK, Called, Send, Usable, disk, fields,
                      session, Data!TypeOK
  <2>2. CASE ~Usable(Field(o))
    BY <1>6, <2>2, ErrorType DEF TypeInv, TypeOK, Called, Send, disk, fields,
                      session, Data!TypeOK, Statements
  <2>3. QED
    BY <2>1, <2>2
<1>7. ASSUME NEW o \in Ops, ConvertFails(o)
      PROVE  TypeInv'
  BY <1>7, ErrorType DEF TypeInv, TypeOK, Called, ConvertFails, disk, fields,
                    session, Data!TypeOK, Statements
<1>8. ASSUME NEW o \in Ops, GetBillForUpdate(o)
      PROVE  TypeInv'
  <2>1. call[o].bill \in Bills /\ on[o] \in Ops
    BY <1>8 DEF TypeInv, TypeOK, Called, GetBillForUpdate, Runs, Calls
  <2>2. holds' \in [Ops -> SUBSET (Bills \X Modes)]
    BY <1>8, <2>1 DEF TypeInv, TypeOK, GetBillForUpdate, TakeLock, Modes
  <2> DEFINE st == View(on[o], call[o].bill).status
             to == IF st = "none" THEN "rollback"
                                  ELSE AfterLock(call[o].kind, st)
  <2>3. /\ to \in Statements \cup {"commit", "rollback"}
        /\ to = "insert" => call[o].kind = "add"
    BY DEF AfterLock, Statements
  <2>4. /\ GoTo(o, to)
        /\ res' = [res EXCEPT ![o] = IF to = "rollback" THEN "failed" ELSE @]
        /\ UNCHANGED <<row, items, call, billTx, lineItemTx, crossed, tx, draft, fresh>>
    BY <1>8 DEF GetBillForUpdate, disk, fields
  <2>5. to = "insert" => call[o].key \in Keys
    BY <1>8, <2>3 DEF TypeInv, Called, GetBillForUpdate, Runs, Calls
  <2>6. pc[o] # "idle"
    BY <1>8 DEF GetBillForUpdate, Runs
  <2> HIDE DEF to
  <2>7. TypeOK'
    BY <2>2, <2>3, <2>4 DEF TypeInv, TypeOK, GoTo, Steps, Data!TypeOK
  <2>8. Called'
    BY <2>3, <2>5, <2>4, <2>6 DEF TypeInv, TypeOK, Called, GoTo
  <2>9. QED
    BY <2>7, <2>8 DEF TypeInv
<1>9. ASSUME NEW o \in Ops, UpdateBillStatus(o)
      PROVE  TypeInv'
  <2> DEFINE r == [View(on[o], call[o].bill) EXCEPT !.status = "active"]
  <2>1. call[o].bill \in Bills /\ on[o] \in Ops /\ pc[o] # "idle"
    BY <1>9 DEF TypeInv, TypeOK, Called, UpdateBillStatus, Runs, Calls
  <2>2. r \in Data!Row
    BY <2>1, ViewIsRow DEF TypeInv, Data!Row, Data!Statuses
  <2>3. UpdateRow(o, on[o], r) /\ GoTo(o, "commit")
    BY <1>9 DEF UpdateBillStatus
  <2> HIDE DEF r
  <2>4. QED
    BY <2>1, <2>2, <2>3, UpdateType DEF TypeInv, TypeOK, Called, GoTo, Steps
<1>10. ASSUME NEW o \in Ops, UpdateBillClosure(o)
       PROVE  TypeInv'
  <2>1. PICK stmt \in {"closing", "closed", "flag"} :
          LET c == Closure(stmt, o) IN
            /\ Runs(o, stmt)
            /\ UpdateRow(o, on[o], [View(on[o], call[o].bill) EXCEPT
                                      !.status = c.status, !.reason = c.reason])
            /\ GoTo(o, c.next)
    BY <1>10 DEF UpdateBillClosure
  <2> DEFINE c == Closure(stmt, o)
             r == [View(on[o], call[o].bill) EXCEPT
                     !.status = c.status, !.reason = c.reason]
  <2>2. call[o].bill \in Bills /\ on[o] \in Ops /\ pc[o] # "idle"
    BY <2>1 DEF TypeInv, TypeOK, Called, Runs, Calls
  <2>3. /\ c.status \in Data!Statuses
        /\ c.reason \in Ops \cup {NoOp}
        /\ c.next \in {"total", "commit", "rollback"}
    BY DEF Closure, Data!Statuses
  <2> HIDE DEF c
  <2>4. r \in Data!Row
    <3>1. View(on[o], call[o].bill) \in Data!Row
      BY <2>2, ViewIsRow DEF TypeInv
    <3>2. QED
      BY <2>3, <3>1, ClosureIsRow
  <2>5. UpdateRow(o, on[o], r) /\ GoTo(o, c.next)
    BY <2>1 DEF c
  <2> HIDE DEF r
  <2>6. QED
    BY <2>2, <2>3, <2>4, <2>5, UpdateType
       DEF TypeInv, TypeOK, Called, GoTo, Steps, Statements
<1>11. ASSUME NEW o \in Ops, UpdateBillTotal(o)
       PROVE  TypeInv'
  <2> DEFINE sum == Data!SumOf(Visible(on[o]), call[o].bill)
             r   == [View(on[o], call[o].bill) EXCEPT !.total = sum]
  <2>1. call[o].bill \in Bills /\ on[o] \in Ops /\ pc[o] # "idle"
    BY <1>11 DEF TypeInv, TypeOK, Called, UpdateBillTotal, Runs, Calls
  <2>2. sum \in SUBSET Keys
    <3>1. Visible(on[o]) \subseteq Data!Item
      BY <2>1 DEF TypeInv, TypeOK, Visible, Data!TypeOK
    <3>2. QED
      BY <3>1 DEF Data!SumOf, Data!Item
  <2> HIDE DEF sum
  <2>3. r \in Data!Row
    BY <2>1, <2>2, ViewIsRow DEF TypeInv, Data!Row
  <2>4. UpdateRow(o, on[o], r)
    BY <1>11 DEF UpdateBillTotal, sum
  <2> HIDE DEF r
  <2>5. PICK to \in {"closed", "commit"} : GoTo(o, to)
    BY <1>11 DEF UpdateBillTotal
  <2>6. QED
    BY <2>1, <2>3, <2>4, <2>5, UpdateType
       DEF TypeInv, TypeOK, Called, GoTo, Steps, Statements
<1>12. ASSUME NEW o \in Ops, CreateLineItem(o)
       PROVE  TypeInv'
  <2>1. call[o] \in Calls /\ call[o].bill \in Bills /\ on[o] \in Ops /\ pc[o] = "insert"
    BY <1>12 DEF TypeInv, TypeOK, Called, CreateLineItem, Runs, Calls
  <2>2. CASE \E i \in Visible(on[o]) : i.key = call[o].key
    <3>1. ReturnError(o) /\ on' = [on EXCEPT ![o] = NoOp] /\ End({on[o]}, "aborted")
            /\ UNCHANGED <<disk, call, fields>>
      BY <1>12, <2>2 DEF CreateLineItem
    <3>2. QED
      BY <2>1, <3>1, ErrorType, EndType
         DEF TypeInv, TypeOK, Called, disk, fields, Data!TypeOK, Statements
  <2>3. CASE ~\E i \in Visible(on[o]) : i.key = call[o].key
    <3> DEFINE new == [key |-> call[o].key, bill |-> call[o].bill]
    <3>1. /\ TakeLock(o, on[o], "keyshare")
          /\ fresh' = [fresh EXCEPT ![on[o]] = @ \cup {new}]
          /\ GoTo(o, "commit")
          /\ UNCHANGED <<row, items, call, res, billTx, lineItemTx, crossed, tx, draft>>
      BY <1>12, <2>3 DEF CreateLineItem, disk, fields
    <3>2. new \in Data!Item
      BY <2>1 DEF TypeInv, Called, Data!Item
    <3> HIDE DEF new
    <3>3. holds' \in [Ops -> SUBSET (Bills \X Modes)]
      BY <2>1, <3>1 DEF TypeInv, TypeOK, TakeLock, Modes
    <3>4. fresh' \in [Ops -> SUBSET Data!Item]
      BY <2>1, <3>1, <3>2 DEF TypeInv, TypeOK
    <3>5. TypeOK'
      BY <3>1, <3>3, <3>4 DEF TypeInv, TypeOK, GoTo, Steps, Data!TypeOK
    <3>6. Called'
      BY <2>1, <3>1 DEF TypeInv, TypeOK, Called, GoTo
    <3>7. QED
      BY <3>5, <3>6 DEF TypeInv
  <2>4. QED
    BY <2>2, <2>3
<1>13. ASSUME NEW o \in Ops, StatementRefused(o)
       PROVE  TypeInv'
  BY <1>13, ErrorType DEF TypeInv, TypeOK, Called, StatementRefused, disk,
                     fields, session, Data!TypeOK, Statements
<1>14. ASSUME NEW o \in Ops, StatementFails(o)
       PROVE  TypeInv'
  <2>1. PICK st \in {"aborted", "closed"} : End({on[o]}, st)
    BY <1>14 DEF StatementFails
  <2>2. QED
    BY <1>14, <2>1, ErrorType, EndType
       DEF TypeInv, TypeOK, Called, StatementFails, disk, fields, Data!TypeOK,
           Statements
<1>15. ASSUME NEW o \in Ops, Commit(o) \/ CommitLost(o)
       PROVE  TypeInv'
  <2>1. PICK answer \in {"ok", "failed"} : Finish(o, answer)
    BY <1>15 DEF Commit, CommitLost
  <2>2. Data!TypeOK'
    BY <1>15, ViewIsRow DEF TypeInv, TypeOK, Commit, CommitLost, Apply, Visible,
                            disk, Data!TypeOK
  <2>3. QED
    BY <2>1, <2>2, <1>15, EndType DEF TypeInv, TypeOK, Called, Finish, CanCommit,
       Commit, CommitLost, fields, Steps, Statements
<1>16. ASSUME NEW o \in Ops, CommitRefused(o) \/ Rollback(o)
       PROVE  TypeInv'
  <2>1. PICK answer \in {"none", "ok", "failed", "uncalculated"} :
          Finish(o, answer)
    BY <1>16 DEF TypeInv, TypeOK, CommitRefused, Rollback
  <2>2. UNCHANGED disk /\ pc[o] \in {"commit", "rollback"}
    BY <1>16 DEF CommitRefused, Rollback
  <2>3. QED
    BY <2>1, <2>2, EndType DEF TypeInv, TypeOK, Called, Finish, disk, fields,
                               Steps, Statements, Data!TypeOK
<1>17. ASSUME NEW n \in Instances, Crash(n)
       PROVE  TypeInv'
  <2> DEFINE dead == {o \in Ops : Instance[o] = n /\ InFlight(o)}
  <2>1. End(dead, "closed") /\ UNCHANGED <<row, items, call, crossed>>
    BY <1>17 DEF Crash, disk
  <2>2. /\ tx' \in [Ops -> {"none", "open", "aborted", "closed"}]
        /\ holds' \in [Ops -> SUBSET (Bills \X Modes)]
        /\ draft' \in [Ops -> [Bills -> {NoRow} \cup Data!Row]]
        /\ fresh' \in [Ops -> SUBSET Data!Item]
    BY <2>1, EndType DEF TypeInv
  <2>3. /\ pc' \in [Ops -> Steps]
        /\ res' \in [Ops -> {"none", "ok", "failed", "uncalculated"}]
        /\ on' \in [Ops -> Ops \cup {NoOp}]
        /\ billTx' \in [Instances -> Ops \cup {NoOp}]
        /\ lineItemTx' \in [Instances -> Ops \cup {NoOp}]
    BY <1>17 DEF TypeInv, TypeOK, Crash, Steps
  <2>4. Called'
    BY <1>17, <2>1 DEF TypeInv, TypeOK, Called, Crash, InFlight
  <2>5. QED
    BY <2>1, <2>2, <2>3, <2>4 DEF TypeInv, TypeOK, Data!TypeOK
<1>18. QED
  BY <1>1, <1>2, <1>3, <1>4, <1>5, <1>6, <1>7, <1>8, <1>9, <1>10, <1>11, <1>12,
     <1>13, <1>14, <1>15, <1>16, <1>17
     DEF Next, Step, Failure

(* Rows, items, calls and sessions keep their types.                        *)
THEOREM TypeCorrect == Spec => []TypeOK
<1>1. TypeInv => TypeOK
  BY DEF TypeInv
<1>2. QED
  BY <1>1, TypeInit, TypeStep, PTL DEF Spec

-----------------------------------------------------------------------------
(* OneItemPerKey is not inductive: a key may be taken by an item that is    *)
(* not committed yet.  No session sees a key twice, and no two sessions     *)
(* hold the same key uncommitted.                                           *)
SeenOnce == \A s \in Ops : \A i, j \in Visible(s) : i.key = j.key => i = j

PendingApart ==
  \A s, t \in Ops : s # t =>
    \A i \in fresh[s], j \in fresh[t] : i.key # j.key

KeyInv == TypeInv /\ OneItemPerKey /\ SeenOnce /\ PendingApart

(* Sessions that end, or do anything but insert and commit, only lose items. *)
LEMMA KeysShrink ==
  ASSUME KeyInv, items' = items, \A s \in Ops : fresh'[s] \subseteq fresh[s]
  PROVE  OneItemPerKey' /\ SeenOnce' /\ PendingApart'
<1>1. OneItemPerKey'
  BY DEF KeyInv, OneItemPerKey
<1>2. SeenOnce'
  BY DEF KeyInv, SeenOnce, Visible
<1>3. PendingApart'
  BY DEF KeyInv, PendingApart
<1>4. QED
  BY <1>1, <1>2, <1>3

(* Session s inserts an item of key k, which it does not see and no other   *)
(* session holds.                                                           *)
LEMMA KeysInsert ==
  ASSUME KeyInv, NEW s \in Ops, NEW new, items' = items,
         fresh' = [fresh EXCEPT ![s] = @ \cup {new}],
         ~KeyPending(s, new.key), \A i \in Visible(s) : i.key # new.key
  PROVE  OneItemPerKey' /\ SeenOnce' /\ PendingApart'
<1>1. OneItemPerKey'
  BY DEF KeyInv, OneItemPerKey
<1>2. /\ fresh'[s] = fresh[s] \cup {new}
      /\ \A t \in Ops \ {s} : fresh'[t] = fresh[t]
  BY DEF KeyInv, TypeInv, TypeOK
<1>3. SeenOnce'
  BY <1>2 DEF KeyInv, SeenOnce, Visible
<1>4. PendingApart'
  BY <1>2 DEF KeyInv, PendingApart, KeyPending
<1>5. QED
  BY <1>1, <1>3, <1>4

(* Session s commits what it has inserted.                                  *)
LEMMA KeysCommit ==
  ASSUME KeyInv, NEW s \in Ops, items' = Visible(s),
         fresh'[s] = {}, \A t \in Ops \ {s} : fresh'[t] = fresh[t]
  PROVE  OneItemPerKey' /\ SeenOnce' /\ PendingApart'
<1>1. OneItemPerKey'
  BY DEF KeyInv, OneItemPerKey, SeenOnce
<1>2. SeenOnce'
  <2> SUFFICES ASSUME NEW t \in Ops, NEW i \in Visible(t)', NEW j \in Visible(t)',
                      i.key = j.key
               PROVE  i = j
    BY DEF SeenOnce
  <2>1. CASE t = s
    BY <2>1 DEF KeyInv, SeenOnce, Visible
  <2>2. CASE t # s
    <3>1. /\ i \in items \cup fresh[s] \cup fresh[t]
          /\ j \in items \cup fresh[s] \cup fresh[t]
      BY <2>2 DEF Visible
    <3>2. QED
      BY <2>2, <3>1 DEF KeyInv, SeenOnce, PendingApart, Visible
  <2>3. QED
    BY <2>1, <2>2
<1>3. PendingApart'
  <2>1. \A t \in Ops : fresh'[t] \subseteq fresh[t]
    OBVIOUS
  <2>2. QED
    BY <2>1 DEF KeyInv, PendingApart
<1>4. QED
  BY <1>1, <1>2, <1>3

(* Whatever runs, keys stay apart.                                          *)
LEMMA KeyStep == KeyInv /\ [Next]_vars => KeyInv'
<1> SUFFICES ASSUME KeyInv, [Next]_vars
             PROVE  OneItemPerKey' /\ SeenOnce' /\ PendingApart'
  BY TypeStep DEF KeyInv
<1> USE DEF disk, session
<1>1. ASSUME UNCHANGED <<items, fresh>>
      PROVE  OneItemPerKey' /\ SeenOnce' /\ PendingApart'
  BY <1>1, KeysShrink
<1>2. ASSUME NEW S, NEW st, End(S, st), items' = items
      PROVE  OneItemPerKey' /\ SeenOnce' /\ PendingApart'
  BY <1>2, KeysShrink DEF End
<1>3. ASSUME NEW o \in Ops, CreateLineItem(o)
      PROVE  OneItemPerKey' /\ SeenOnce' /\ PendingApart'
  <2>1. CASE \E i \in Visible(on[o]) : i.key = call[o].key
    BY <1>2, <1>3, <2>1 DEF CreateLineItem
  <2>2. CASE ~\E i \in Visible(on[o]) : i.key = call[o].key
    <3> DEFINE new == [key |-> call[o].key, bill |-> call[o].bill]
    <3>1. /\ fresh' = [fresh EXCEPT ![on[o]] = @ \cup {new}]
          /\ items' = items
          /\ ~KeyPending(on[o], call[o].key)
      BY <1>3, <2>2 DEF CreateLineItem
    <3>2. on[o] \in Ops
      BY <1>3 DEF CreateLineItem, Runs, KeyInv, TypeInv, TypeOK
    <3>3. ~KeyPending(on[o], new.key) /\ \A i \in Visible(on[o]) : i.key # new.key
      BY <2>2, <3>1
    <3> HIDE DEF new
    <3>4. QED
      BY <3>1, <3>2, <3>3, KeysInsert
  <2>3. QED
    BY <2>1, <2>2
<1>4. ASSUME NEW o \in Ops, Commit(o) \/ CommitLost(o)
      PROVE  OneItemPerKey' /\ SeenOnce' /\ PendingApart'
  <2>1. End({o}, "closed")
    BY <1>4 DEF Commit, CommitLost, Finish
  <2>2. CASE items' = items
    BY <1>2, <2>1, <2>2
  <2>3. CASE Apply(o)
    <3>1. fresh'[o] = {} /\ \A t \in Ops \ {o} : fresh'[t] = fresh[t]
      BY <2>1 DEF End
    <3>2. QED
      BY <2>3, <3>1, KeysCommit DEF Apply
  <2>4. QED
    BY <1>4, <2>2, <2>3 DEF Commit, CommitLost
<1>5. ASSUME NEW o \in Ops, Step(o)
      PROVE  OneItemPerKey' /\ SeenOnce' /\ PendingApart'
  <2>1. CASE \/ SetBillTx(o) \/ SetLineItemTx(o) \/ Send(o)
             \/ GetBillForUpdate(o) \/ StatementRefused(o)
    BY <1>1, <2>1 DEF SetBillTx, SetLineItemTx, Send, GetBillForUpdate,
                      StatementRefused
  <2>2. CASE UpdateBillStatus(o) \/ UpdateBillClosure(o) \/ UpdateBillTotal(o)
    BY <1>1, <2>2 DEF UpdateBillStatus, UpdateBillClosure, UpdateBillTotal,
                      UpdateRow
  <2>3. CASE CommitRefused(o) \/ Rollback(o)
    BY <1>2, <2>3 DEF CommitRefused, Rollback, Finish
  <2>4. QED
    BY <1>3, <1>4, <1>5, <2>1, <2>2, <2>3 DEF Step
<1>6. ASSUME NEW o \in Ops, Failure(o)
      PROVE  OneItemPerKey' /\ SeenOnce' /\ PendingApart'
  <2>1. CASE ConvertFails(o)
    BY <1>1, <2>1 DEF ConvertFails
  <2>2. CASE StatementFails(o)
    BY <1>2, <2>2 DEF StatementFails
  <2>3. QED
    BY <1>4, <1>6, <2>1, <2>2 DEF Failure
<1>7. ASSUME NEW b \in Bills, CreateBill(b)
      PROVE  OneItemPerKey' /\ SeenOnce' /\ PendingApart'
  BY <1>1, <1>7 DEF CreateBill, Data!Create
<1>8. ASSUME NEW o \in Ops, Begin(o)
      PROVE  OneItemPerKey' /\ SeenOnce' /\ PendingApart'
  BY <1>1, <1>8 DEF Begin
<1>9. ASSUME NEW n \in Instances, Crash(n)
      PROVE  OneItemPerKey' /\ SeenOnce' /\ PendingApart'
  BY <1>2, <1>9 DEF Crash
<1>10. CASE UNCHANGED vars
  BY <1>1, <1>10 DEF vars
<1>11. QED
  BY <1>5, <1>6, <1>7, <1>8, <1>9, <1>10 DEF Next

(* No idempotency key is ever used for two line items, however many calls   *)
(* insert it at once, and whether or not they share their transactions.     *)
THEOREM OneItemPerKeyCorrect == Spec => []OneItemPerKey
<1>1. Init => KeyInv
  BY TypeInit DEF Init, Data!Init, KeyInv, OneItemPerKey, SeenOnce, PendingApart,
                  Visible
<1>2. KeyInv => OneItemPerKey
  BY DEF KeyInv
<1>3. QED
  BY <1>1, <1>2, KeyStep, PTL DEF Spec
=============================================================================
