------------------------- MODULE BillLifecycleProofs -------------------------
(* The properties of BillLifecycle for every set of bills, keys and reasons. *)
EXTENDS BillLifecycle, TLAPS

(* What holds of one bill: its total counts only items it has, it has none  *)
(* before its start, and all of them once it is closed.                     *)
BillInv(b) ==
  /\ row[b].status \in {"none", "pending", "active", "closed"}
  /\ Shown(row[b].total) \subseteq SumOf(items, b)
  /\ row[b].status \in {"none", "pending"} => SumOf(items, b) = {}
  /\ row[b].status = "closed" => Shown(row[b].total) = SumOf(items, b)

IInv == TypeOK /\ \A b \in Bills : BillInv(b)

-----------------------------------------------------------------------------
(* A sum over stored items is a set of keys, and so never the absent total. *)
LEMMA SumIsKeys ==
  ASSUME NEW S \in SUBSET Item, NEW b
  PROVE  /\ SumOf(S, b) \in SUBSET Keys
         /\ SumOf(S, b) # NoTotal
<1>1. SumOf(S, b) \in SUBSET Keys
  BY DEF SumOf, Item
<1>2. QED
  BY <1>1, TotalAssumption

(* One more item of bill c adds its key to c's sum and to no other.         *)
LEMMA SumOfMore ==
  ASSUME NEW S \in SUBSET Item, NEW b \in Bills, NEW c \in Bills, NEW k \in Keys,
         NEW T, T = S \cup {[key |-> k, bill |-> c]}
  PROVE  /\ b = c => SumOf(T, b) = SumOf(S, b) \cup {k}
         /\ b # c => SumOf(T, b) = SumOf(S, b)
<1> DEFINE new == [key |-> k, bill |-> c]
<1>1. ASSUME NEW x
      PROVE  x \in SumOf(T, b)
               <=> x \in SumOf(S, b) \/ (b = c /\ x = k)
  <2>1. /\ x \in SumOf(T, b) <=> \E i \in T : i.bill = b /\ i.key = x
        /\ x \in SumOf(S, b) <=> \E i \in S : i.bill = b /\ i.key = x
    BY DEF SumOf
  <2>2. new.key = k /\ new.bill = c /\ T = S \cup {new}
    OBVIOUS
  <2> HIDE DEF new
  <2>3. QED
    BY <2>1, <2>2
<1>2. QED
  BY <1>1

(* Types are preserved by every transaction.                                *)
LEMMA TypeStep == TypeOK /\ [Next]_vars => TypeOK'
<1> SUFFICES ASSUME TypeOK, [Next]_vars
             PROVE  TypeOK'
  OBVIOUS
<1>1. CASE UNCHANGED vars
  BY <1>1 DEF TypeOK, vars
<1>2. ASSUME NEW b \in Bills, Create(b)
      PROVE  TypeOK'
  BY <1>2 DEF TypeOK, Create, Row, NewRow, Statuses
<1>3. ASSUME NEW b \in Bills, Activate(b)
      PROVE  TypeOK'
  BY <1>3 DEF TypeOK, Activate, Row, Statuses
<1>4. ASSUME NEW b \in Bills, Recalculate(b)
      PROVE  TypeOK'
  <2>1. SumOf(items, b) \in SUBSET Keys
    BY SumIsKeys DEF TypeOK
  <2>2. QED
    BY <1>4, <2>1 DEF TypeOK, Recalculate, Row
<1>5. ASSUME NEW b \in Bills, NEW k \in Keys, AddItem(b, k)
      PROVE  TypeOK'
  BY <1>5 DEF TypeOK, AddItem, Item
<1>6. ASSUME NEW b \in Bills, NEW r \in Reasons, CloseUnstarted(b, r)
      PROVE  TypeOK'
  BY <1>6 DEF TypeOK, CloseUnstarted, Row, Statuses
<1>7. ASSUME NEW b \in Bills, NEW r \in Reasons, CloseStarted(b, r)
      PROVE  TypeOK'
  <2>1. SumOf(items, b) \in SUBSET Keys
    BY SumIsKeys DEF TypeOK
  <2>2. QED
    BY <1>7, <2>1 DEF TypeOK, CloseStarted, Row, Statuses
<1>8. QED
  BY <1>1, <1>2, <1>3, <1>4, <1>5, <1>6, <1>7 DEF Next

(* The rows and items a database may start with satisfy the invariant.      *)
LEMMA InitInv == Init => IInv
<1> SUFFICES ASSUME Init
             PROVE  IInv
  OBVIOUS
<1>1. TypeOK
  BY DEF Init, TypeOK, NewRow, Row, Statuses
<1>2. ASSUME NEW b \in Bills
      PROVE  BillInv(b)
  <2>1. SumOf(items, b) = {}
    BY DEF Init, SumOf
  <2>2. \E s \in {"none", "pending", "active"} : row[b] = NewRow(s)
    BY DEF Init
  <2>3. QED
    BY <2>1, <2>2 DEF BillInv, NewRow, Shown
<1>3. QED
  BY <1>1, <1>2 DEF IInv

(* The invariant of each bill is preserved by every transaction on any.     *)
LEMMA InvStep == IInv /\ [Next]_vars => IInv'
<1> SUFFICES ASSUME IInv, [Next]_vars
             PROVE  IInv'
  OBVIOUS
<1>1. TypeOK'
  BY TypeStep DEF IInv
<1> SUFFICES ASSUME NEW b \in Bills
             PROVE  BillInv(b)'
  BY <1>1 DEF IInv
<1>2. BillInv(b) /\ row[b] \in Row /\ row \in [Bills -> Row]
        /\ items \in SUBSET Item
  BY DEF IInv, TypeOK
<1>3. SumOf(items, b) # NoTotal
  BY <1>2, SumIsKeys
<1>4. CASE UNCHANGED vars
  BY <1>2, <1>4 DEF BillInv, vars, Shown, SumOf
<1>5. ASSUME NEW c \in Bills, Create(c)
      PROVE  BillInv(b)'
  <2>1. items' = items /\ SumOf(items, b)' = SumOf(items, b)
    BY <1>5 DEF Create, SumOf
  <2>2. CASE b = c
    <3>1. row'[b] = NewRow("pending") /\ row[b].status = "none"
      BY <1>2, <1>5, <2>2 DEF Create
    <3>2. QED
      BY <1>2, <2>1, <3>1 DEF BillInv, NewRow, Shown
  <2>3. CASE b # c
    <3>1. row'[b] = row[b]
      BY <1>2, <1>5, <2>3 DEF Create
    <3>2. QED
      BY <1>2, <2>1, <3>1 DEF BillInv, Shown
  <2>4. QED
    BY <2>2, <2>3
<1>6. ASSUME NEW c \in Bills, Activate(c)
      PROVE  BillInv(b)'
  <2>1. SumOf(items, b)' = SumOf(items, b)
    BY <1>6 DEF Activate, SumOf
  <2>2. /\ row'[b].total = row[b].total
        /\ row'[b].status = IF b = c THEN "active" ELSE row[b].status
    BY <1>2, <1>6 DEF Activate, Row
  <2>3. QED
    BY <1>2, <2>1, <2>2 DEF BillInv, Shown
<1>7. ASSUME NEW c \in Bills, Recalculate(c)
      PROVE  BillInv(b)'
  <2>1. SumOf(items, b)' = SumOf(items, b)
    BY <1>7 DEF Recalculate, SumOf
  <2>2. /\ row'[b].status = row[b].status
        /\ row'[b].total = IF b = c THEN SumOf(items, b) ELSE row[b].total
    BY <1>2, <1>7 DEF Recalculate, Row
  <2>3. QED
    BY <1>2, <1>3, <2>1, <2>2 DEF BillInv, Shown
<1>8. ASSUME NEW c \in Bills, NEW k \in Keys, AddItem(c, k)
      PROVE  BillInv(b)'
  <2>1. /\ b = c => SumOf(items, b)' = SumOf(items, b) \cup {k}
        /\ b # c => SumOf(items, b)' = SumOf(items, b)
    <3>1. items' = items \cup {[key |-> k, bill |-> c]}
      BY <1>8 DEF AddItem
    <3>2. /\ b = c => SumOf(items', b) = SumOf(items, b) \cup {k}
          /\ b # c => SumOf(items', b) = SumOf(items, b)
      BY <1>2, <3>1, SumOfMore
    <3>3. QED
      BY <3>2 DEF SumOf
  <2>2. row'[b] = row[b] /\ row[c].status = "active"
    BY <1>8 DEF AddItem
  <2>3. QED
    BY <1>2, <2>1, <2>2 DEF BillInv, Shown
<1>9. ASSUME NEW c \in Bills, NEW r \in Reasons, CloseUnstarted(c, r)
      PROVE  BillInv(b)'
  <2>1. SumOf(items, b)' = SumOf(items, b)
    BY <1>9 DEF CloseUnstarted, SumOf
  <2>2. /\ row'[b].total = row[b].total
        /\ row'[b].status = IF b = c THEN "closed" ELSE row[b].status
        /\ row[c].status = "pending"
    BY <1>2, <1>9 DEF CloseUnstarted, Row
  <2>3. QED
    BY <1>2, <2>1, <2>2 DEF BillInv, Shown
<1>10. ASSUME NEW c \in Bills, NEW r \in Reasons, CloseStarted(c, r)
       PROVE  BillInv(b)'
  <2>1. SumOf(items, b)' = SumOf(items, b)
    BY <1>10 DEF CloseStarted, SumOf
  <2>2. /\ row'[b].total = IF b = c THEN SumOf(items, b) ELSE row[b].total
        /\ row'[b].status = IF b = c THEN "closed" ELSE row[b].status
    BY <1>2, <1>10 DEF CloseStarted, Row
  <2>3. QED
    BY <1>2, <1>3, <2>1, <2>2 DEF BillInv, Shown
<1>11. QED
  BY <1>4, <1>5, <1>6, <1>7, <1>8, <1>9, <1>10 DEF Next

(* What a transaction may do to a bill: add to the total it shows, and      *)
(* nothing a reader could see once it is closed.                            *)
StepOf(b) ==
  /\ Shown(row[b].total) \subseteq Shown(row'[b].total)
  /\ row[b].status = "closed" =>
       /\ row'[b].status = "closed"
       /\ row'[b].reason = row[b].reason
       /\ Shown(row'[b].total) = Shown(row[b].total)
       /\ SumOf(items', b) = SumOf(items, b)

LEMMA BillStep ==
  ASSUME IInv, [Next]_vars, NEW b \in Bills
  PROVE  StepOf(b)
<1>1. BillInv(b) /\ row[b] \in Row /\ row \in [Bills -> Row]
        /\ items \in SUBSET Item
  BY DEF IInv, TypeOK
<1>2. SumOf(items, b) # NoTotal
  BY <1>1, SumIsKeys
<1>3. CASE UNCHANGED vars
  BY <1>3 DEF StepOf, vars
<1>4. ASSUME NEW c \in Bills, Create(c)
      PROVE  StepOf(b)
  <2>1. items' = items
    BY <1>4 DEF Create
  <2>2. CASE b = c
    <3>1. Shown(row[b].total) = {} /\ row[b].status = "none"
      BY <1>1, <1>4, <2>2 DEF BillInv, Create
    <3>2. QED
      BY <3>1 DEF StepOf
  <2>3. CASE b # c
    <3>1. row'[b] = row[b]
      BY <1>1, <1>4, <2>3 DEF Create
    <3>2. QED
      BY <2>1, <3>1 DEF StepOf
  <2>4. QED
    BY <2>2, <2>3
<1>5. ASSUME NEW c \in Bills, Activate(c)
      PROVE  StepOf(b)
  <2>1. /\ row'[b].total = row[b].total
        /\ row[b].status = "closed" => row'[b] = row[b]
        /\ items' = items
    BY <1>1, <1>5 DEF Activate, Row
  <2>2. QED
    BY <2>1 DEF StepOf
<1>6. ASSUME NEW c \in Bills, Recalculate(c)
      PROVE  StepOf(b)
  <2>1. /\ row'[b].status = row[b].status
        /\ row'[b].reason = row[b].reason
        /\ row'[b].total = IF b = c THEN SumOf(items, b) ELSE row[b].total
        /\ items' = items
    BY <1>1, <1>6 DEF Recalculate, Row
  <2>2. Shown(row'[b].total) = IF b = c THEN SumOf(items, b)
                                        ELSE Shown(row[b].total)
    BY <1>2, <2>1 DEF Shown
  <2>3. QED
    BY <1>1, <2>1, <2>2 DEF StepOf, BillInv
<1>7. ASSUME NEW c \in Bills, NEW k \in Keys, AddItem(c, k)
      PROVE  StepOf(b)
  <2>1. row' = row
    BY <1>7 DEF AddItem
  <2>2. row[b].status = "closed" => SumOf(items', b) = SumOf(items, b)
    <3>1. items' = items \cup {[key |-> k, bill |-> c]}
      BY <1>7 DEF AddItem
    <3>2. /\ b = c => SumOf(items', b) = SumOf(items, b) \cup {k}
          /\ b # c => SumOf(items', b) = SumOf(items, b)
      BY <1>1, <3>1, SumOfMore
    <3>3. row[c].status = "active"
      BY <1>7 DEF AddItem
    <3>4. QED
      BY <3>2, <3>3
  <2>3. QED
    BY <2>1, <2>2 DEF StepOf
<1>8. ASSUME NEW c \in Bills, NEW r \in Reasons, CloseUnstarted(c, r)
      PROVE  StepOf(b)
  <2>1. /\ row'[b].total = row[b].total
        /\ row[b].status = "closed" => row'[b] = row[b]
        /\ items' = items
    BY <1>1, <1>8 DEF CloseUnstarted, Row
  <2>2. QED
    BY <2>1 DEF StepOf
<1>9. ASSUME NEW c \in Bills, NEW r \in Reasons, CloseStarted(c, r)
      PROVE  StepOf(b)
  <2>1. /\ row'[b].total = IF b = c THEN SumOf(items, b) ELSE row[b].total
        /\ row[b].status = "closed" => row'[b] = row[b]
        /\ items' = items
    BY <1>1, <1>9 DEF CloseStarted, Row
  <2>2. Shown(row'[b].total) = IF b = c THEN SumOf(items, b)
                                        ELSE Shown(row[b].total)
    BY <1>2, <2>1 DEF Shown
  <2>3. QED
    BY <1>1, <2>1, <2>2 DEF StepOf, BillInv
<1>10. QED
  BY <1>3, <1>4, <1>5, <1>6, <1>7, <1>8, <1>9 DEF Next

-----------------------------------------------------------------------------
(* The rows and items of the database keep their types.                     *)
THEOREM TypeCorrect == Spec => []TypeOK
<1>1. Init => TypeOK
  BY InitInv DEF IInv
<1>2. TypeOK /\ [Next]_vars => TypeOK'
  BY TypeStep
<1>3. QED
  BY <1>1, <1>2, PTL DEF Spec

(* The inductive invariant holds in every reachable state.                  *)
LEMMA Invariance == Spec => []IInv
  BY InitInv, InvStep, PTL DEF Spec

(* A bill that is closed has a total that sums exactly the items it has,    *)
(* however many bills, items, recalculations and closes there are.          *)
THEOREM ClosedTotalCorrect == Spec => []ClosedTotalIsFinal
<1>1. IInv => ClosedTotalIsFinal
  BY DEF IInv, BillInv, ClosedTotalIsFinal
<1>2. QED
  BY <1>1, Invariance, PTL

(* No committed transaction leaves a bill half closed.                      *)
THEOREM NoHalfClosed == Spec => []NoHalfClosedBill
<1>1. IInv => NoHalfClosedBill
  BY DEF IInv, BillInv, NoHalfClosedBill
<1>2. QED
  BY <1>1, Invariance, PTL

(* A line item belongs to a bill that was activated, and a bill closed      *)
(* without a total has none.                                                *)
THEOREM ItemsNeedStartCorrect == Spec => []ItemsNeedStart
<1>1. IInv => ItemsNeedStart
  <2> SUFFICES ASSUME IInv, NEW i \in items
               PROVE  /\ row[i.bill].status \in {"active", "closed"}
                      /\ row[i.bill].status = "closed" =>
                           row[i.bill].total # NoTotal
    BY DEF ItemsNeedStart
  <2>1. i.bill \in Bills /\ BillInv(i.bill)
    BY DEF IInv, TypeOK, Item
  <2>2. SumOf(items, i.bill) # {}
    BY DEF SumOf
  <2>3. QED
    BY <2>1, <2>2 DEF BillInv, Shown
<1>2. QED
  BY <1>1, Invariance, PTL

(* Once a bill is closed nothing a reader sees of it changes any more.      *)
THEOREM ClosedIsTerminalCorrect == Spec => ClosedIsTerminal
<1>1. IInv /\ [Next]_vars => [\A b \in Bills : row[b].status = "closed" =>
        /\ row'[b].status = "closed"
        /\ row'[b].reason = row[b].reason
        /\ Shown(row'[b].total) = Shown(row[b].total)
        /\ SumOf(items', b) = SumOf(items, b)]_vars
  BY BillStep DEF StepOf
<1>2. QED
  BY <1>1, Invariance, PTL DEF Spec, ClosedIsTerminal

(* No transaction takes an item out of a total.                             *)
THEOREM TotalsGrowCorrect == Spec => TotalsGrow
<1>1. IInv /\ [Next]_vars => [\A b \in Bills :
        Shown(row[b].total) \subseteq Shown(row'[b].total)]_vars
  BY BillStep DEF StepOf
<1>2. QED
  BY <1>1, Invariance, PTL DEF Spec, TotalsGrow
=============================================================================
