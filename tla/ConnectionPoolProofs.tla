------------------------ MODULE ConnectionPoolProofs ------------------------
(* The safety properties of ConnectionPool for every number of calls, bills  *)
(* and connections.                                                          *)
EXTENDS ConnectionPool, FiniteSetTheorems, TLAPS

Querying == {"first", "first runs", "second", "second runs"}

(* A call that only reads has no transaction; any other one that reads the   *)
(* currencies has locked its bill.                                           *)
CallInv(c) ==
  /\ call[c].kind = "read" => Tx(c) \notin conns /\ pc[c] \notin {"begin", "lock"}
  /\ call[c].kind # "read" /\ pc[c] \in Querying => lock[call[c].bill] = c

IInv ==
  /\ TypeOK
  /\ IsFiniteSet(conns)
  /\ \A c \in Calls : CallInv(c)

-----------------------------------------------------------------------------
(* Nothing is taken and nobody waits at first.                               *)
LEMMA InitInv == Init => IInv
<1> SUFFICES ASSUME Init
             PROVE  IInv
  OBVIOUS
<1>1. IsFiniteSet(conns) /\ Cardinality(conns) = 0
  BY FS_EmptySet DEF Init
<1>2. TypeOK
  BY <1>1, PoolAssumption DEF Init, TypeOK, Steps
<1>3. \A c \in Calls : CallInv(c)
  BY DEF Init, CallInv, Querying
<1>4. QED
  BY <1>1, <1>2, <1>3 DEF IInv

(* A connection is added only while there is room for one.                   *)
LEMMA OneMore ==
  ASSUME IInv, Free, NEW x \in Calls \X {"tx", "query"}
  PROVE  /\ IsFiniteSet(conns \cup {x})
         /\ Cardinality(conns \cup {x}) <= PoolSize
<1>1. IsFiniteSet(conns) /\ Cardinality(conns) \in Nat
  BY FS_CardinalityType DEF IInv
<1>2. /\ IsFiniteSet(conns \cup {x})
      /\ Cardinality(conns \cup {x}) =
           IF x \in conns THEN Cardinality(conns) ELSE Cardinality(conns) + 1
  BY <1>1, FS_AddElement
<1>3. QED
  BY <1>1, <1>2, PoolAssumption DEF Free

(* Giving a connection back leaves no more than there were.                  *)
LEMMA OneLess ==
  ASSUME IInv, NEW x
  PROVE  /\ IsFiniteSet(conns \ {x})
         /\ Cardinality(conns \ {x}) <= PoolSize
<1>1. IsFiniteSet(conns) /\ conns \ {x} \in SUBSET conns
  BY DEF IInv
<1>2. /\ IsFiniteSet(conns \ {x})
      /\ Cardinality(conns \ {x}) <= Cardinality(conns)
  BY <1>1, FS_Subset
<1>3. Cardinality(conns) \in Nat /\ Cardinality(conns \ {x}) \in Nat
  BY <1>1, <1>2, FS_CardinalityType
<1>4. QED
  BY <1>2, <1>3, PoolAssumption DEF IInv, TypeOK

(* Each step keeps the types, and what holds of the call that takes it and   *)
(* of the others.                                                            *)
LEMMA InvStep == IInv /\ [Next]_vars => IInv'
<1> SUFFICES ASSUME IInv, [Next]_vars
             PROVE  IInv'
  OBVIOUS
<1> USE DEF IInv, TypeOK
<1>1. CASE UNCHANGED vars
  BY <1>1 DEF vars, CallInv, Tx
<1> SUFFICES ASSUME NEW c \in Calls,
                    Arrive(c) \/ Step(c) \/ TimesOut(c) \/ Cancelled(c)
             PROVE  IInv'
  BY <1>1 DEF Next
<1>2. call[c] \in Call /\ call[c].bill \in Bills
  BY DEF Call
<1>3. CASE Arrive(c)
  BY <1>3 DEF Arrive, Steps, CallInv, Querying, Tx
<1>4. CASE Begin(c)
  <2>1. Tx(c) \in Calls \X {"tx", "query"}
    BY DEF Tx
  <2>2. IsFiniteSet(conns') /\ Cardinality(conns') <= PoolSize
    BY <1>4, <2>1, OneMore DEF Begin
  <2>3. TypeOK'
    BY <1>4, <2>1, <2>2 DEF Begin, Steps
  <2>4. ASSUME NEW d \in Calls
        PROVE  CallInv(d)'
    BY <1>4, <2>4 DEF Begin, CallInv, Querying, Tx
  <2>5. QED
    BY <2>2, <2>3, <2>4
<1>5. CASE GetBillForUpdate(c)
  <2>1. PICK step \in {Callback(c), "end"} : pc' = [pc EXCEPT ![c] = step]
    BY <1>5 DEF GetBillForUpdate
  <2>2. step \in {"first", "write", "end"}
    BY DEF Callback
  <2>3. TypeOK' /\ IsFiniteSet(conns')
    BY <1>2, <1>5, <2>1, <2>2 DEF GetBillForUpdate, Steps
  <2>4. ASSUME NEW d \in Calls
        PROVE  CallInv(d)'
    <3>1. CASE d = c
      BY <1>2, <1>5, <2>1, <2>2, <3>1
         DEF GetBillForUpdate, CallInv, Querying, Tx
    <3>2. CASE d # c
      <4>1. pc'[d] = pc[d] /\ call' = call /\ conns' = conns
        BY <1>5, <2>1, <3>2 DEF GetBillForUpdate
      <4>2. lock[call[d].bill] = d => lock'[call[d].bill] = d
        BY <1>2, <1>5, NoCallAssumption DEF GetBillForUpdate, Call
      <4>3. QED
        BY <4>1, <4>2 DEF CallInv, Tx
    <3>3. QED
      BY <3>1, <3>2
  <2>5. QED
    BY <2>3, <2>4
<1>6. CASE QueryBegins(c)
  <2>1. Query(c) \in Calls \X {"tx", "query"}
    BY DEF Query
  <2>2. IsFiniteSet(conns') /\ Cardinality(conns') <= PoolSize
    BY <1>6, <2>1, OneMore DEF QueryBegins
  <2>3. TypeOK'
    BY <1>6, <2>1, <2>2 DEF QueryBegins, Steps
  <2>4. ASSUME NEW d \in Calls
        PROVE  CallInv(d)'
    BY <1>6, <2>4 DEF QueryBegins, CallInv, Querying, Tx, Query
  <2>5. QED
    BY <2>2, <2>3, <2>4
<1>7. CASE QueryEnds(c)
  <2>1. PICK step \in {After(c), "end"} : pc' = [pc EXCEPT ![c] = step]
    BY <1>7 DEF QueryEnds
  <2>2. step \in {"second", "write", "end"}
    BY DEF After
  <2>3. IsFiniteSet(conns') /\ Cardinality(conns') <= PoolSize
    BY <1>7, OneLess DEF QueryEnds
  <2>4. TypeOK'
    BY <1>7, <2>1, <2>2, <2>3 DEF QueryEnds, Steps
  <2>5. ASSUME NEW d \in Calls
        PROVE  CallInv(d)'
    BY <1>7, <2>1, <2>2 DEF QueryEnds, CallInv, Querying, Tx, Query
  <2>6. QED
    BY <2>3, <2>4, <2>5
<1>8. CASE Write(c)
  BY <1>8 DEF Write, Steps, CallInv, Querying, Tx
<1>9. CASE End(c)
  <2>1. IsFiniteSet(conns') /\ Cardinality(conns') <= PoolSize
    BY <1>9, OneLess DEF End
  <2>2. TypeOK'
    BY <1>9, <2>1 DEF End, Steps
  <2>3. ASSUME NEW d \in Calls
        PROVE  CallInv(d)'
    <3>1. call[d].bill \in Bills
      BY DEF Call
    <3>2. QED
      BY <1>9, <3>1 DEF End, CallInv, Querying, Tx
  <2>4. QED
    BY <2>1, <2>2, <2>3
<1>10. CASE TimesOut(c)
  BY <1>10 DEF TimesOut, Steps, CallInv, Querying, Tx
<1>11. CASE Cancelled(c)
  BY <1>11 DEF Cancelled, Steps, CallInv, Querying, Tx
<1>12. QED
  BY <1>3, <1>4, <1>5, <1>6, <1>7, <1>8, <1>9, <1>10, <1>11 DEF Step

(* Calls that wait with a connection in hand have locked different bills.    *)
LEMMA GreedyHaveBills ==
  ASSUME IInv
  PROVE  JamTakesBills
<1> DEFINE B == {call[c].bill : c \in Greedy}
           f == [c \in Greedy |-> call[c].bill]
<1>1. \A c \in Greedy : call[c].bill \in Bills /\ lock[call[c].bill] = c
  BY DEF IInv, TypeOK, CallInv, Greedy, Querying, Call
<1>2. B \in SUBSET Bills
  BY <1>1
<1>3. f \in [Greedy -> B]
  OBVIOUS
<1>4. \A c, d \in Greedy : f[c] = f[d] => c = d
  BY <1>1
<1>5. f \in Injection(Greedy, B)
  BY <1>3, <1>4 DEF Injection, IsInjective
<1>6. IsFiniteSet(B)
  BY <1>2, BillsAssumption, FS_Subset
<1> HIDE DEF B, f
<1>7. Cardinality(Greedy) <= Cardinality(B)
  BY <1>5, <1>6, FS_Injection
<1>8. QED
  BY <1>7 DEF B, JamTakesBills

-----------------------------------------------------------------------------
(* The inductive invariant holds in every reachable state.                   *)
LEMMA Invariance == Spec => []IInv
  BY InitInv, InvStep, PTL DEF Spec

(* The types are kept: no more connections are taken than the pool may open, *)
(* and each lock is that of a call.                                          *)
THEOREM TypeCorrect == Spec => []TypeOK
<1>1. IInv => TypeOK
  BY DEF IInv
<1>2. QED
  BY <1>1, Invariance, PTL

(* A pool of any size is jammed only by as many different bills as it has    *)
(* connections, however many calls there are.                                *)
THEOREM JamTakesBillsCorrect == Spec => []JamTakesBills
BY GreedyHaveBills, Invariance, PTL
=============================================================================
