--------------------------- MODULE ConnectionPool ---------------------------
(***************************************************************************)
(* The connections of one instance of the service.  A call that changes a   *)
(* bill takes a connection for its transaction (transitionWithLock), locks  *)
(* the row of the bill and keeps both until it ends.  A new line item in    *)
(* another currency than its bill's is converted in between, with the row   *)
(* locked: ConvertAmount reads each currency in a statement of its own, on  *)
(* a SECOND connection of the same pool.  Calls that only read, and         *)
(* CreateBill, run two statements one after the other, each on a            *)
(* connection that is given back at once.                                   *)
(*                                                                          *)
(* The five seconds of lockCtx bound the waits for the first connection and *)
(* for the row lock; the second connection is waited for on the context of  *)
(* the request, which has no deadline.                                      *)
(***************************************************************************)
EXTENDS Naturals, FiniteSets

CONSTANTS
  Calls,      \* calls of the business layer
  Bills,      \* bills they are about
  PoolSize,   \* connections the pool may open
  NoCall      \* a row nobody has locked

ASSUME PoolAssumption   == PoolSize \in Nat \ {0}
ASSUME BillsAssumption  == IsFiniteSet(Bills)
ASSUME NoCallAssumption == NoCall \notin Calls

VARIABLES
  pc,         \* pc[c]: what call c is at
  call,       \* call[c]: its kind and its bill
  conns,      \* <<c, use>>: c has a connection for that use
  lock        \* lock[b]: the call that has locked the row of b

vars == <<pc, call, conns, lock>>

\* Update: a transaction on one connection.  Convert: a transaction that reads
\* the currencies.  Read: two statements without a transaction.
Kinds == {"update", "convert", "read"}
Call  == [kind: Kinds, bill: Bills]

\* A call waits in "begin", "lock", "first" and "second".
Steps == {"idle", "begin", "lock", "first", "first runs", "second",
          "second runs", "write", "end", "done"}

Tx(c)    == <<c, "tx">>
Query(c) == <<c, "query">>
Free     == Cardinality(conns) < PoolSize

TypeOK ==
  /\ pc \in [Calls -> Steps]
  /\ call \in [Calls -> Call]
  /\ conns \subseteq Calls \X {"tx", "query"}
  /\ Cardinality(conns) <= PoolSize
  /\ lock \in [Bills -> Calls \cup {NoCall}]

Init ==
  /\ pc = [c \in Calls |-> "idle"]
  /\ call \in [Calls -> Call]
  /\ conns = {}
  /\ lock = [b \in Bills |-> NoCall]

-----------------------------------------------------------------------------
Arrive(c) ==
  /\ pc[c] = "idle"
  /\ pc' = [pc EXCEPT ![c] = IF call[c].kind = "read" THEN "first" ELSE "begin"]
  /\ UNCHANGED <<call, conns, lock>>

\* Mutant: a connection is opened without looking at the limit.
Begin_Unlimited(c) ==
  /\ pc[c] = "begin"
  /\ conns' = conns \cup {Tx(c)}
  /\ pc' = [pc EXCEPT ![c] = "lock"]
  /\ UNCHANGED <<call, lock>>

\* db.Begin takes a connection from the pool.
Begin(c) ==
  /\ pc[c] = "begin"
  /\ Free
  /\ conns' = conns \cup {Tx(c)}
  /\ pc' = [pc EXCEPT ![c] = "lock"]
  /\ UNCHANGED <<call, lock>>

Callback(c) == IF call[c].kind = "convert" THEN "first" ELSE "write"

\* Mutant: the row is read without FOR UPDATE.
GetBillForUpdate_NoLock(c) ==
  /\ pc[c] = "lock"
  /\ \E step \in {Callback(c), "end"} : pc' = [pc EXCEPT ![c] = step]
  /\ UNCHANGED <<call, conns, lock>>

\* The row is locked; its status sends the call on or back.
GetBillForUpdate(c) ==
  /\ pc[c] = "lock"
  /\ lock[call[c].bill] = NoCall
  /\ lock' = [lock EXCEPT ![call[c].bill] = c]
  /\ \E step \in {Callback(c), "end"} : pc' = [pc EXCEPT ![c] = step]
  /\ UNCHANGED <<call, conns>>

\* A statement without a transaction takes a connection,
QueryBegins(c) ==
  /\ pc[c] \in {"first", "second"}
  /\ Free
  /\ conns' = conns \cup {Query(c)}
  /\ pc' = [pc EXCEPT ![c] = IF @ = "first" THEN "first runs" ELSE "second runs"]
  /\ UNCHANGED <<call, lock>>

After(c) == IF pc[c] = "first runs" THEN "second"
            ELSE IF call[c].kind = "convert" THEN "write" ELSE "end"

\* and gives it back with its answer, or with an error that ends the call.
QueryEnds(c) ==
  /\ pc[c] \in {"first runs", "second runs"}
  /\ conns' = conns \ {Query(c)}
  /\ \E step \in {After(c), "end"} : pc' = [pc EXCEPT ![c] = step]
  /\ UNCHANGED <<call, lock>>

\* The remaining statements, on the connection of the transaction.
Write(c) ==
  /\ pc[c] = "write"
  /\ pc' = [pc EXCEPT ![c] = "end"]
  /\ UNCHANGED <<call, conns, lock>>

\* Commit or Rollback.  Either gives the connection back, also when lockCtx has
\* expired: the connection is closed then, and its place in the pool is free.
End(c) ==
  /\ pc[c] = "end"
  /\ conns' = conns \ {Tx(c)}
  /\ lock' = [b \in Bills |-> IF lock[b] = c THEN NoCall ELSE lock[b]]
  /\ pc' = [pc EXCEPT ![c] = "done"]
  /\ UNCHANGED call

\* Mutant: the row lock is waited for on the context of the request.
TimesOut_BeginOnly(c) ==
  /\ pc[c] = "begin"
  /\ pc' = [pc EXCEPT ![c] = "end"]
  /\ UNCHANGED <<call, conns, lock>>

\* lockCtx expires while the call waits on it.
TimesOut(c) ==
  /\ pc[c] \in {"begin", "lock"}
  /\ pc' = [pc EXCEPT ![c] = "end"]
  /\ UNCHANGED <<call, conns, lock>>

\* The client goes away, which ends a wait for a connection or a lock.
Cancelled(c) ==
  /\ pc[c] \in {"begin", "lock", "first", "second"}
  /\ pc' = [pc EXCEPT ![c] = "end"]
  /\ UNCHANGED <<call, conns, lock>>

Step(c) ==
  \/ Begin(c) \/ GetBillForUpdate(c)
  \/ QueryBegins(c) \/ QueryEnds(c)
  \/ Write(c) \/ End(c)

Next == \E c \in Calls : Arrive(c) \/ Step(c) \/ TimesOut(c) \/ Cancelled(c)

Spec == Init /\ [][Next]_vars

(* Connections and locks are given to those who wait, statements are        *)
(* answered, and the timer of lockCtx fires.  No call has to arrive, and no *)
(* client has to go away.                                                   *)
FairSpec == Spec /\ \A c \in Calls : WF_vars(Step(c)) /\ WF_vars(TimesOut(c))

-----------------------------------------------------------------------------
\* The calls that keep a connection while they wait for a second one.
Greedy == {c \in Calls : Tx(c) \in conns /\ pc[c] \in {"first", "second"}}

(* The calls that keep one connection and wait for another are about as     *)
(* many different bills: however many calls arrive, one bill ties up one    *)
(* connection in this way, and it takes as many bills as the pool has       *)
(* connections for the pool to consist of such calls.  Nothing in the code  *)
(* counts them; this is where it matters that the currencies are read with  *)
(* the row locked.                                                          *)
JamTakesBills ==
  Cardinality(Greedy) <= Cardinality({call[c].bill : c \in Greedy})

(* Every call returns: whatever it waits for is given to it, or taken from  *)
(* it by the timer (docs/bill_lifecycle_diagram.md: "5-second timeout       *)
(* prevents hanging requests").                                             *)
CallsReturn == \A c \in Calls : pc[c] \notin {"idle", "done"} ~> pc[c] = "done"
=============================================================================
