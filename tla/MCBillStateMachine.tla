------------------------- MODULE MCBillStateMachine -------------------------
(* BillStateMachine on small sets of calls, dealt out to the instances of   *)
(* the service in three ways.                                               *)
EXTENDS BillStateMachine, TLC

CONSTANTS o1, o2, o3, n1, n2, b1

\* An instance for every call: no two calls share a BillStateMachine.
OneEach == [o \in Ops |-> o]

\* The first two calls go to the same instance.
TwoOnFirst == (o1 :> n1) @@ (o2 :> n1) @@ (o3 :> n2)

\* One instance for all calls.
AllOnFirst == [o \in Ops |-> n1]

AllCalls == Permutations(Ops)
FirstTwoCalls == Permutations({o1, o2})
-----------------------------------------------------------------------------
(* Three calls that are given to one instance at about the same time, two   *)
(* of them new line items, on bills that are active.  The third is of any   *)
(* kind, and its commit or its conversion may fail; statements fail where   *)
(* the server breaks a circle.  The bills are alike, so the first call is   *)
(* one on b1.                                                               *)
ThreeBegun ==
  /\ Data!Init
  /\ \A b \in Bills : row[b].status = "active"
  /\ call \in [Ops -> Calls]
  /\ call[o1].kind = "add" /\ call[o2].kind = "add"
  /\ call[o1].bill = b1
  /\ pc = [o \in Ops |-> "setBillTx"]
  /\ tx = [o \in Ops |-> "open"]
  /\ res = [o \in Ops |-> "none"]
  /\ on = [o \in Ops |-> NoOp]
  /\ billTx = [n \in Instances |-> NoOp]
  /\ lineItemTx = [n \in Instances |-> NoOp]
  /\ crossed = FALSE
  /\ holds = [o \in Ops |-> {}]
  /\ draft = [o \in Ops |-> Unchanged]
  /\ fresh = [o \in Ops |-> {}]

ThreeNext ==
  \/ \E o \in Ops : Step(o) \/ DeadlockDetected(o)
  \/ ConvertFails(o3) \/ CommitLost(o3)

ThreeSpec ==
  /\ ThreeBegun /\ [][ThreeNext]_vars
  /\ \A o \in Ops : WF_vars(Step(o))
  /\ WF_vars(\E o \in Ops : DeadlockDetected(o))
=============================================================================
