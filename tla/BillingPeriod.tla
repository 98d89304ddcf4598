---------------------------- MODULE BillingPeriod ----------------------------
(***************************************************************************)
(* The life of one bill: the handlers of the API that create it, add line  *)
(* items to it and close it, the Temporal workflow BillingPeriod that waits *)
(* for the period to start, activates the bill, keeps its total up to date  *)
(* and closes it when its timer fires, and the activities through which the *)
(* workflow reaches the database.                                           *)
(*                                                                          *)
(* A database transaction is one step: its rows are BillLifecycle's and so  *)
(* are its effects (BillStateMachine shows what that takes).  Temporal is   *)
(* external: it keeps the workflow's state, delivers signals, runs an       *)
(* activity until an attempt reports success or the attempts are used up,   *)
(* and cannot know what an attempt has done whose report is lost.           *)
(*                                                                          *)
(* Amounts are left out but for one thing: which sets of line items have a  *)
(* sum that does not fit the column total_amount_cents.                     *)
(***************************************************************************)
EXTENDS Integers, FiniteSets

CONSTANTS
  Bill,         \* the bill
  Keys,         \* idempotency keys of its line items
  Overflows,    \* sets of line items whose sum is beyond bigint
  Periods,      \* the periods a request may ask for: [start, end]
  MaxAttempts,  \* MaxAttempts[kind]: RetryPolicy.MaximumAttempts
  Forgetful,    \* activities an attempt of which may succeed unreported
  MaxFaults,    \* bound: attempts, signals and calls to Temporal that fail
  MaxCloses,    \* bound: close-bill signals sent to the workflow
  Horizon,      \* bound: the last instant, which stands for all later ones
  NoTotal, NoAct

Kinds   == {"activate", "total", "close"}
Omitted == -1  \* the start_time of a request that names none

ASSUME KeysAssumption == IsFiniteSet(Keys)
\* One item fits, since its own column is a bigint, and amounts are positive.
ASSUME OverflowsAssumption ==
  /\ Overflows \subseteq (SUBSET Keys)
  /\ {} \notin Overflows /\ \A k \in Keys : {k} \notin Overflows
  /\ \A S \in Overflows, T \in SUBSET Keys : S \subseteq T => T \in Overflows
ASSUME PeriodsAssumption ==
  Periods \subseteq [start: {Omitted} \cup 0..Horizon, end: 0..Horizon]
ASSUME AttemptsAssumption ==
  MaxAttempts \in [Kinds -> Nat \ {0}] /\ Forgetful \subseteq Kinds
ASSUME BoundsAssumption ==
  MaxFaults \in Nat /\ MaxCloses \in Nat /\ Horizon \in Nat
ASSUME NoTotalAssumption == \A S \in SUBSET Keys : S # NoTotal

VARIABLES
  row, items,   \* the database: as in BillLifecycle
  now,          \* the clock
  handler,      \* the CreateBill request: "idle", "valid", "inserted", "replied"
  period,       \* the start and end the request asks for, then the bill's
  wf,           \* where the workflow is
  due,          \* when its timer fires
  act,          \* the activity it has scheduled, NoAct if none
  added,        \* add-line-item signals in its queue
  closes,       \* close-bill signals in its queue
  sent,         \* close-bill signals sent so far
  signalling,   \* goroutines on their way with an add-line-item signal
  terminating,  \* is one on its way to terminate the workflow?
  faults        \* failures so far

database == <<row, items>>
temporal == <<wf, due, act, added, closes>>
async    == <<signalling, terminating>>
vars     == <<row, items, now, handler, period, wf, due, act, added, closes,
              sent, signalling, terminating, faults>>

Reasons == {"api", "signal", "auto_close", "invalid_period"}

DB == INSTANCE BillLifecycle WITH Bills <- {Bill}, NoReason <- "null"

\* A run of an activity: its n-th attempt, and how far that one is.
Activity == [kind: Kinds, reason: Reasons \cup {"null"}, n: Nat,
             phase: {"scheduled", "started", "ok", "error", "lost"}]

Running == {"queued", "sleeping", "invalid", "activating", "open", "totaling",
            "closing"}

TypeOK ==
  /\ DB!TypeOK
  /\ now \in 0..Horizon
  /\ handler \in {"idle", "valid", "inserted", "replied"}
  /\ period \in [start: {Omitted} \cup 0..Horizon, end: 0..Horizon]
  /\ wf \in Running \cup {"none", "completed", "failed", "terminated"}
  /\ due \in Nat
  /\ act \in {NoAct} \cup Activity
  /\ added \in 0..Cardinality(Keys)
  /\ signalling \in 0..Cardinality(Keys)
  /\ closes \in 0..MaxCloses
  /\ sent \in 0..MaxCloses
  /\ terminating \in BOOLEAN
  /\ faults \in 0..MaxFaults

Init ==
  /\ row = [b \in {Bill} |-> DB!NewRow("none")]
  /\ items = {}
  /\ now = 0
  /\ handler = "idle"
  /\ period \in Periods
  /\ wf = "none" /\ due = 0 /\ act = NoAct /\ added = 0 /\ closes = 0
  /\ sent = 0
  /\ signalling = 0 /\ terminating = FALSE
  /\ faults = 0

Status == row[Bill].status

\* The UPDATE of the total fails if the sum is out of the column's range.
Fits == DB!SumOf(items, Bill) \notin Overflows

\* Such a bill can neither be totalled nor closed any more.
Unclosable == Status = "active" /\ ~ Fits

Fault == faults < MaxFaults /\ faults' = faults + 1

-----------------------------------------------------------------------------
(* The handlers of the API.                                                *)

\* A period has to start now or later and must not end before it starts; one
\* whose start is omitted must not end before now.
Validate ==
  /\ handler = "idle"
  /\ period.end >= now
  /\ period.start # Omitted => period.start >= now /\ period.end >= period.start
  /\ handler' = "valid"
  /\ UNCHANGED <<database, now, period, temporal, sent, async, faults>>

\* A start that was omitted is the time of this later moment: the period may be
\* over by now.
CreateBill ==
  /\ handler = "valid"
  /\ period' = IF period.start = Omitted THEN [period EXCEPT !.start = now]
                                         ELSE period
  /\ DB!Create(Bill)
  /\ handler' = "inserted"
  /\ UNCHANGED <<now, temporal, sent, async, faults>>

\* startBillingWorkflow; its error is logged and the request succeeds.
StartWorkflow ==
  /\ handler = "inserted"
  /\ handler' = "replied"
  /\ \/ wf' = "queued" /\ UNCHANGED faults
     \/ Fault /\ UNCHANGED wf
  /\ UNCHANGED <<database, now, period, due, act, added, closes, sent, async>>

AddLineItem(k) ==
  /\ DB!AddItem(Bill, k)
  /\ signalling' = signalling + 1
  /\ UNCHANGED <<now, handler, period, temporal, sent, terminating, faults>>

\* Mutant: an active bill is closed with the total it has.
Close_OldTotal(reason) ==
  \/ DB!CloseUnstarted(Bill, reason)
  \/ /\ Status = "active"
     /\ row' = [row EXCEPT ![Bill].status = "closed", ![Bill].reason = reason]
     /\ UNCHANGED items
  \/ Status = "closed" /\ UNCHANGED database

\* What CloseBill does to a bill that exists: nothing if it is closed.  That of
\* an active one is rolled back if its total cannot be stored.
Close(reason) ==
  \/ DB!CloseUnstarted(Bill, reason)
  \/ Fits /\ DB!CloseStarted(Bill, reason)
  \/ Status = "closed" /\ UNCHANGED database

CloseBill ==
  /\ Close("api")
  /\ terminating' = TRUE
  /\ UNCHANGED <<now, handler, period, temporal, sent, signalling, faults>>

-----------------------------------------------------------------------------
(* The goroutines of safeAsync: five seconds to reach Temporal, an error is *)
(* logged.  A workflow that has ended, or never started, takes no call.     *)

SignalWorkflow ==
  /\ signalling > 0
  /\ signalling' = signalling - 1
  /\ \/ /\ added' = IF wf \in Running THEN added + 1 ELSE added
        /\ UNCHANGED faults
     \/ Fault /\ UNCHANGED added
  /\ UNCHANGED <<database, now, handler, period, wf, due, act, closes, sent,
                 terminating>>

\* An attempt that a worker has begun is not stopped with its workflow.
TerminateWorkflow ==
  /\ terminating
  /\ terminating' = FALSE
  /\ \/ /\ wf \in Running
        /\ wf' = "terminated"
        /\ act' = IF act # NoAct /\ act.phase = "started" THEN act ELSE NoAct
        /\ UNCHANGED faults
     \/ wf \notin Running /\ UNCHANGED <<wf, act, faults>>
     \/ Fault /\ UNCHANGED <<wf, act>>
  /\ UNCHANGED <<database, now, handler, period, due, added, closes, sent,
                 signalling>>

\* Nothing in the service sends the close-bill signal: an operator may.
SendCloseSignal ==
  /\ wf \in Running
  /\ sent < MaxCloses
  /\ sent' = sent + 1
  /\ closes' = closes + 1
  /\ UNCHANGED <<database, now, handler, period, wf, due, act, added, async,
                 faults>>

-----------------------------------------------------------------------------
(* The workflow.                                                           *)

\* Mutant: the arguments of the activity swapped.
Schedule_Swapped(kind, reason) ==
  [kind |-> reason, reason |-> kind, n |-> 1, phase |-> "scheduled"]

Schedule(kind, reason) ==
  [kind |-> kind, reason |-> reason, n |-> 1, phase |-> "scheduled"]

\* Past the start time: check the period, set the timer, activate the bill.
Enter ==
  LET length == period.end - period.start IN
    IF length <= 0
      THEN /\ wf' = "invalid"
           /\ act' = Schedule("close", "invalid_period")
           /\ UNCHANGED due
      ELSE /\ wf' = "activating"
           /\ due' = IF now + length <= Horizon THEN now + length ELSE Horizon
           /\ act' = Schedule("activate", "null")

\* Mutant: the workflow does not wait for the start time.
BeginWorkflow_NoSleep ==
  /\ wf = "queued"
  /\ Enter
  /\ UNCHANGED <<database, now, handler, period, added, closes, sent, async,
                 faults>>

BeginWorkflow ==
  /\ wf = "queued"
  /\ IF period.start > now THEN wf' = "sleeping" /\ UNCHANGED <<due, act>>
                           ELSE Enter
  /\ UNCHANGED <<database, now, handler, period, added, closes, sent, async,
                 faults>>

Wake ==
  /\ wf = "sleeping"
  /\ now >= period.start
  /\ Enter
  /\ UNCHANGED <<database, now, handler, period, added, closes, sent, async,
                 faults>>

\* selector.Select: one of the cases that are ready.
SelectAddLineItem ==
  /\ wf = "open"
  /\ added > 0
  /\ added' = added - 1
  /\ wf' = "totaling"
  /\ act' = Schedule("total", "null")
  /\ UNCHANGED <<database, now, handler, period, due, closes, sent, async,
                 faults>>

SelectCloseBill ==
  /\ wf = "open"
  /\ closes > 0
  /\ closes' = closes - 1
  /\ wf' = "closing"
  /\ act' = Schedule("close", "signal")
  /\ UNCHANGED <<database, now, handler, period, due, added, sent, async,
                 faults>>

\* Mutant: the timer is noticed only at the instant it fires.
SelectTimer_Instant ==
  /\ wf = "open"
  /\ now = due
  /\ wf' = "closing"
  /\ act' = Schedule("close", "auto_close")
  /\ UNCHANGED <<database, now, handler, period, due, added, closes, sent,
                 async, faults>>

SelectTimer ==
  /\ wf = "open"
  /\ now >= due
  /\ wf' = "closing"
  /\ act' = Schedule("close", "auto_close")
  /\ UNCHANGED <<database, now, handler, period, due, added, closes, sent,
                 async, faults>>

\* Mutant: the workflow completes whether or not closing succeeded.
Continue_Regardless(ok) ==
  CASE wf = "activating" -> IF ok THEN "open" ELSE "failed"
    [] wf = "totaling"   -> "open"
    [] wf = "closing"    -> "completed"
    [] wf = "invalid"    -> IF ok THEN "completed" ELSE "failed"
    [] OTHER             -> wf

\* Mutant: billClosed is not set, and the workflow goes on selecting.
Continue_NoFlag(ok) ==
  CASE wf = "activating" -> IF ok THEN "open" ELSE "failed"
    [] wf = "totaling"   -> "open"
    [] wf = "closing"    -> "open"
    [] wf = "invalid"    -> IF ok THEN "completed" ELSE "failed"
    [] OTHER             -> wf

\* What the workflow does with the outcome of an activity.
Continue(ok) ==
  CASE wf = "activating" -> IF ok THEN "open" ELSE "failed"
    [] wf = "totaling"   -> "open"
    [] wf = "closing"    -> IF ok THEN "completed" ELSE "open"
    [] wf = "invalid"    -> IF ok THEN "completed" ELSE "failed"
    [] OTHER             -> wf

-----------------------------------------------------------------------------
(* The activities, as a worker and Temporal run them.                      *)

In(phase) == act # NoAct /\ act.phase = phase

StartAttempt ==
  /\ In("scheduled")
  /\ act' = [act EXCEPT !.phase = "started"]
  /\ UNCHANGED <<database, now, handler, period, wf, due, added, closes, sent,
                 async, faults>>

\* The business call of the activity, and whether it returns an error.
Effect(outcome) ==
  \/ /\ act.kind = "activate" /\ outcome = "ok"
     /\ DB!Activate(Bill)
  \/ /\ act.kind = "activate" /\ outcome = "error"
     /\ Status # "pending"
     /\ UNCHANGED database
  \/ act.kind = "total" /\ outcome = "ok" /\ Fits /\ DB!Recalculate(Bill)
  \/ act.kind = "total" /\ outcome = "error" /\ ~ Fits /\ UNCHANGED database
  \/ act.kind = "close" /\ outcome = "ok" /\ Close(act.reason)
  \/ act.kind = "close" /\ outcome = "error" /\ Unclosable /\ UNCHANGED database

Attempt ==
  /\ In("started")
  /\ \E outcome \in {"ok", "error"} :
       Effect(outcome) /\ act' = [act EXCEPT !.phase = outcome]
  /\ UNCHANGED <<now, handler, period, wf, due, added, closes, sent, async,
                 faults>>

\* The business layer answers with an error (the database cannot be reached, the
\* row lock is not had in time), or it does not answer: the worker dies, or has
\* not been given its dependencies yet.
AttemptFails ==
  /\ In("started")
  /\ Fault
  /\ \E phase \in {"error", "lost"} : act' = [act EXCEPT !.phase = phase]
  /\ UNCHANGED <<database, now, handler, period, wf, due, added, closes, sent,
                 async>>

\* The transaction is committed and nobody knows: the answer to the COMMIT is lost,
\* or the worker dies and Temporal times the attempt out.
AttemptForgotten ==
  /\ In("started")
  /\ act.kind \in Forgetful
  /\ Effect("ok")
  /\ Fault
  /\ \E phase \in {"error", "lost"} : act' = [act EXCEPT !.phase = phase]
  /\ UNCHANGED <<now, handler, period, wf, due, added, closes, sent, async>>

\* Mutant: every error is final, only an attempt without an answer is repeated.
Retry_LostOnly == In("lost")

\* Another attempt, unless it was the last: only the error of the business layer
\* that a recalculation meets is marked as not retryable.
Retry ==
  \/ In("lost")
  \/ In("error") /\ act.kind # "total"

ActivityReturns ==
  /\ In("ok") \/ In("error") \/ In("lost")
  /\ IF wf \in Running /\ Retry /\ act.n < MaxAttempts[act.kind]
       THEN /\ act' = [act EXCEPT !.n = @ + 1, !.phase = "scheduled"]
            /\ UNCHANGED wf
       ELSE /\ act' = NoAct
            /\ wf' = Continue(In("ok"))
  /\ UNCHANGED <<database, now, handler, period, due, added, closes, sent,
                 async, faults>>

-----------------------------------------------------------------------------
Tick ==
  /\ now < Horizon
  /\ now' = now + 1
  /\ UNCHANGED <<database, handler, period, temporal, sent, async, faults>>

Handlers == Validate \/ CreateBill \/ CloseBill \/ SendCloseSignal
              \/ \E k \in Keys : AddLineItem(k)

Workflow == BeginWorkflow \/ Wake \/ SelectAddLineItem \/ SelectCloseBill
              \/ SelectTimer

Worker == StartAttempt \/ Attempt \/ ActivityReturns

Goroutines == StartWorkflow \/ SignalWorkflow \/ TerminateWorkflow

Failures == AttemptFails \/ AttemptForgotten

Next == Handlers \/ Workflow \/ Worker \/ Goroutines \/ Failures \/ Tick

Spec == Init /\ [][Next]_vars

(* Time passes, Temporal and its worker go on, a goroutine that was started *)
(* runs to its end.  No request ever has to be made.                        *)
FairSpec == Spec /\ WF_vars(Tick) /\ WF_vars(Workflow) /\ WF_vars(Worker)
                 /\ WF_vars(StartWorkflow) /\ WF_vars(SignalWorkflow)
                 /\ WF_vars(TerminateWorkflow)

-----------------------------------------------------------------------------
(* A bill is active only from its start time on, and closes by itself only  *)
(* at its end time or later, however late the worker is.                    *)
OnTime ==
  /\ Status = "active" => now >= period.start
  /\ row[Bill].reason = "auto_close" => now >= period.end

(* A bill without a workflow to close it takes no line items, now or later: *)
(* it is closed, or it was never activated, because the call that starts    *)
(* the workflow failed.  The exception is a workflow that has failed itself. *)
UnwatchedTakesNoItems ==
  /\ wf \in {"completed", "terminated"} => Status = "closed"
  /\ wf = "none" => Status \in {"none", "pending", "closed"} /\ items = {}

(* A workflow gives a bill up only if its faults used up all attempts of an *)
(* activity, or if an activation succeeded without anybody being told.      *)
GivesUpOnlyAfterFaults ==
  wf = "failed" =>
    \/ Status = "closed"
    \/ Status = "active" /\ faults > 0 /\ "activate" \in Forgetful
    \/ Status = "pending"
         /\ \/ faults >= MaxAttempts["activate"]
            \/ faults >= MaxAttempts["close"] /\ period.end <= period.start

(* A bill that takes line items has a workflow that will close it.          *)
ActiveIsWatched == Status = "active" => wf \in Running

(* A bill whose workflow was started is closed in the end, or its workflow  *)
(* fails, as GivesUpOnlyAfterFaults says: an automatic close whose attempts *)
(* are used up is tried again.  The exception is a bill that took line      *)
(* items whose sum does not fit its total.                                  *)
EventuallyClosed ==
  wf = "queued" ~> Status = "closed" \/ wf = "failed" \/ Unclosable

(* Every line item is counted in the total in the end, whether or not the   *)
(* signal that announces it arrives, unless the workflow fails or the sum   *)
(* does not fit: an item of a bill whose items do fit is not forgotten.     *)
ItemsAreTotalled ==
  \A k \in Keys :
    [key |-> k, bill |-> Bill] \in items
      ~> k \in DB!Shown(row[Bill].total) \/ wf = "failed" \/ Unclosable

(* A workflow that was started ends, even if the call that should terminate *)
(* it after a close through the API is lost, unless its bill took items     *)
(* whose sum does not fit: then it closes, fails and closes for ever.       *)
WorkflowEnds == wf = "queued" ~> wf \notin Running \/ Unclosable

(* No line item is taken after the end of the period (README.md: "Cannot    *)
(* add line items outside active period"), save while the automatic close   *)
(* is already under way.                                                    *)
ItemsWithinPeriod ==
  [][items' # items => now < period.end \/ now >= due]_vars
=============================================================================
