------------------------- MODULE BillingPeriodProofs -------------------------
(* When a bill is activated, closed and given up, for any periods, numbers  *)
(* of attempts and faults, and any set of activities that may succeed       *)
(* unreported.                                                              *)
EXTENDS BillingPeriod, FiniteSetTheorems, TLAPS

Reason == row[Bill].reason

Typed ==
  /\ row \in [{Bill} -> DB!Row]
  /\ items \subseteq DB!Item
  /\ now \in 0..Horizon
  /\ handler \in {"idle", "valid", "inserted", "replied"}
  /\ period \in [start: {Omitted} \cup 0..Horizon, end: 0..Horizon]
  /\ wf \in Running \cup {"none", "completed", "failed", "terminated"}
  /\ due \in Nat
  /\ act \in {NoAct} \cup Activity
  /\ faults \in Nat

\* The row and the request that stores it; the row and the workflow.
Stage ==
  /\ Status \in {"none", "pending", "active", "closed"}
  /\ handler \in {"idle", "valid"} => Status = "none"
  /\ handler \in {"inserted", "replied"} =>
       Status # "none" /\ period.start # Omitted
  /\ handler # "replied" => wf = "none"
  /\ wf = "none" => items = {}
  /\ wf \in {"none", "queued", "sleeping", "invalid"} => Status # "active"
  /\ terminating \/ wf \in {"completed", "terminated"} => Status = "closed"

\* What has come by the time the workflow, or the row, has got somewhere.
Clock ==
  /\ wf \in {"invalid", "activating", "open", "totaling", "closing"} =>
       now >= period.start
  /\ wf \in {"activating", "open", "totaling", "closing"} => due >= period.end
  /\ wf = "invalid" => period.end <= period.start
  /\ Status = "active" => now >= period.start
  /\ Reason = "auto_close" => now >= period.end

\* The activity is that of the place the workflow is at, or one that has
\* outlived its workflow.
Acting ==
  act # NoAct =>
    /\ wf \in {"invalid", "activating", "totaling", "closing", "terminated"}
    /\ now >= period.start
    /\ wf = "activating" => act.kind = "activate"
    /\ act.kind = "activate" => wf \in {"activating", "terminated"}
    /\ wf \in {"invalid", "closing"} => act.kind = "close"
    /\ act.kind = "close" /\ act.phase = "ok" => Status = "closed"
    /\ act.reason = "auto_close" => now >= period.end

\* The attempts that have failed.
Failed == IF act.phase \in {"error", "lost"} THEN act.n ELSE act.n - 1

\* The bill waits because every attempt so far has met a fault.
Waiting == Status = "pending" /\ act.phase # "ok" /\ faults >= Failed

Excused ==
  /\ act # NoAct /\ wf = "activating" =>
       \/ Status = "closed"
       \/ Status = "active" /\ act.phase = "ok"
       \/ Status = "active" /\ faults > 0 /\ "activate" \in Forgetful
       \/ Waiting
  /\ act # NoAct /\ wf = "invalid" => Status = "closed" \/ Waiting
  /\ GivesUpOnlyAfterFaults

IInv == Typed /\ Stage /\ Clock /\ Acting /\ Excused

-----------------------------------------------------------------------------
(* The transactions, by what they do to the status and the reason.          *)
LEMMA SameRow ==
  ASSUME UNCHANGED row
  PROVE  Status' = Status /\ Reason' = Reason
BY DEF Status, Reason

LEMMA SumIsKeys ==
  ASSUME Typed
  PROVE  DB!SumOf(items, Bill) \in SUBSET Keys
BY DEF Typed, DB!SumOf, DB!Item

LEMMA CreateRow ==
  ASSUME Typed, DB!Create(Bill)
  PROVE  /\ row' \in [{Bill} -> DB!Row] /\ items' = items
         /\ Status = "none" /\ Status' = "pending" /\ Reason' = "null"
BY DEF Typed, DB!Create, DB!NewRow, DB!Row, DB!Statuses, Status, Reason

LEMMA ActivateRow ==
  ASSUME Typed, DB!Activate(Bill)
  PROVE  /\ row' \in [{Bill} -> DB!Row] /\ items' = items
         /\ Status = "pending" /\ Status' = "active" /\ Reason' = Reason
BY DEF Typed, DB!Activate, DB!Row, DB!Statuses, Status, Reason

LEMMA RecalculateRow ==
  ASSUME Typed, DB!Recalculate(Bill)
  PROVE  /\ row' \in [{Bill} -> DB!Row] /\ items' = items
         /\ Status' = Status /\ Reason' = Reason
BY SumIsKeys DEF Typed, DB!Recalculate, DB!Row, Status, Reason

LEMMA CloseRow ==
  ASSUME Typed, NEW r \in Reasons \cup {"null"}, Close(r)
  PROVE  /\ row' \in [{Bill} -> DB!Row] /\ items' = items
         /\ Status \in {"pending", "active", "closed"} /\ Status' = "closed"
         /\ Reason' \in {Reason, r}
<1>1. CASE DB!CloseUnstarted(Bill, r)
  BY <1>1 DEF Typed, DB!CloseUnstarted, DB!Row, DB!Statuses, Status, Reason
<1>2. CASE Fits /\ DB!CloseStarted(Bill, r)
  BY <1>2, SumIsKeys DEF Typed, DB!CloseStarted, DB!Row, DB!Statuses, Status, Reason
<1>3. CASE Status = "closed" /\ UNCHANGED database
  BY <1>3 DEF Typed, database, Status, Reason
<1>4. QED
  BY <1>1, <1>2, <1>3 DEF Close

(* What an activity's call does, by its kind.                               *)
LEMMA EffectRow ==
  ASSUME Typed, act \in Activity, NEW outcome \in {"ok", "error"},
         Effect(outcome)
  PROVE  /\ row' \in [{Bill} -> DB!Row] /\ items' = items
         /\ \/ /\ outcome = "error" /\ act.kind = "activate"
               /\ Status # "pending" /\ Status' = Status /\ Reason' = Reason
            \/ /\ outcome = "ok" /\ act.kind = "activate"
               /\ Status = "pending" /\ Status' = "active" /\ Reason' = Reason
            \/ /\ act.kind = "total"
               /\ Status' = Status /\ Reason' = Reason
            \/ /\ outcome = "error" /\ act.kind = "close"
               /\ Status = "active" /\ Status' = Status /\ Reason' = Reason
            \/ /\ outcome = "ok" /\ act.kind = "close"
               /\ Status \in {"pending", "active", "closed"}
               /\ Status' = "closed" /\ Reason' \in {Reason, act.reason}
<1>1. act.reason \in Reasons \cup {"null"}
  BY DEF Activity
<1>2. CASE act.kind = "activate" /\ outcome = "ok" /\ DB!Activate(Bill)
  BY <1>2, ActivateRow
<1>3. CASE /\ act.kind = "activate" /\ outcome = "error"
           /\ Status # "pending" /\ UNCHANGED database
  BY <1>3, SameRow DEF database, Typed
<1>4. CASE act.kind = "total" /\ outcome = "ok" /\ DB!Recalculate(Bill)
  BY <1>4, RecalculateRow
<1>5. CASE act.kind = "close" /\ outcome = "ok" /\ Close(act.reason)
  BY <1>1, <1>5, CloseRow
<1>6. CASE act.kind = "total" /\ outcome = "error" /\ UNCHANGED database
  BY <1>6, SameRow DEF database, Typed
<1>7. CASE /\ act.kind = "close" /\ outcome = "error"
           /\ Unclosable /\ UNCHANGED database
  BY <1>7, SameRow DEF database, Typed, Unclosable
<1>8. QED
  BY <1>2, <1>3, <1>4, <1>5, <1>6, <1>7 DEF Effect

-----------------------------------------------------------------------------
LEMMA Initially == Init => IInv
<1> SUFFICES ASSUME Init
             PROVE  IInv
  OBVIOUS
<1>1. row \in [{Bill} -> DB!Row] /\ Status = "none" /\ Reason = "null"
  BY DEF Init, DB!NewRow, DB!Row, DB!Statuses, Status, Reason
<1>2. Typed
  BY <1>1, BoundsAssumption, PeriodsAssumption DEF Init, Typed, Running
<1>3. QED
  BY <1>1, <1>2 DEF Init, IInv, Stage, Clock, Acting, Excused,
                    GivesUpOnlyAfterFaults

(* The steps that leave the database, the workflow and the clock alone.     *)
LEMMA QuietStep ==
  ASSUME IInv, UNCHANGED <<row, items, now, period, wf, due, act>>,
         handler' = handler \/ (handler = "idle" /\ handler' = "valid"),
         faults' \in Nat, faults' >= faults, terminating' => terminating
  PROVE  IInv'
<1>1. Status' = Status /\ Reason' = Reason /\ Failed' = Failed
  BY SameRow DEF Failed
<1>2. Typed'
  BY DEF IInv, Typed
<1>3. faults \in Nat /\ faults' \in Nat
        /\ MaxAttempts["activate"] \in Nat /\ MaxAttempts["close"] \in Nat
  BY AttemptsAssumption DEF IInv, Typed, Kinds
<1>4. act # NoAct => Failed \in Int
  BY DEF IInv, Typed, Activity, Failed
<1>5. Stage' /\ Clock' /\ Acting'
  BY <1>1 DEF IInv, Stage, Clock, Acting
<1>6. Waiting /\ act # NoAct => Waiting'
  BY <1>1, <1>3, <1>4 DEF Waiting
<1>7. GivesUpOnlyAfterFaults'
  BY <1>1, <1>3 DEF IInv, Excused, GivesUpOnlyAfterFaults
<1>8. Excused'
  BY <1>1, <1>3, <1>6, <1>7 DEF IInv, Excused
<1>9. QED
  BY <1>2, <1>5, <1>8 DEF IInv

(* The handlers.                                                            *)
LEMMA HandlerStep ==
  ASSUME IInv, Validate \/ CreateBill \/ CloseBill \/ StartWorkflow
                 \/ \E k \in Keys : AddLineItem(k)
  PROVE  IInv'
<1>1. /\ Typed /\ Stage /\ Clock /\ Acting /\ Excused
      /\ Horizon \in Nat
      /\ now \in Nat /\ period.start \in Int /\ period.end \in Int
      /\ faults \in Nat
      /\ act # NoAct => act \in Activity
  BY BoundsAssumption DEF IInv, Typed, Omitted
<1>2. CASE Validate
  BY <1>1, <1>2, QuietStep DEF Validate, database, temporal, async
<1>3. CASE CreateBill
  <2>1. /\ row' \in [{Bill} -> DB!Row] /\ items' = items
        /\ Status = "none" /\ Status' = "pending" /\ Reason' = "null"
    BY <1>1, <1>3, CreateRow DEF CreateBill
  <2>2. /\ period' \in [start: 0..Horizon, end: 0..Horizon]
        /\ period'.start # Omitted
    <3>1. CASE period.start = Omitted
      BY <1>1, <1>3, <3>1 DEF CreateBill, Typed, Omitted
    <3>2. CASE period.start # Omitted
      BY <1>1, <1>3, <3>2 DEF CreateBill, Typed
    <3>3. QED
      BY <3>1, <3>2
  <2>3. /\ wf = "none" /\ act = NoAct /\ items = {} /\ handler' = "inserted"
        /\ UNCHANGED <<now, wf, due, act, terminating, faults>>
    BY <1>1, <1>3 DEF CreateBill, Stage, Acting, temporal, async
  <2>4. Typed'
    BY <1>1, <2>1, <2>2, <2>3 DEF Typed
  <2>5. ~ terminating
    BY <1>1, <2>1 DEF Stage
  <2>6. QED
    BY <2>1, <2>2, <2>3, <2>4, <2>5
       DEF IInv, Stage, Clock, Acting, Excused, GivesUpOnlyAfterFaults
<1>4. CASE CloseBill
  <2>1. /\ row' \in [{Bill} -> DB!Row] /\ items' = items
        /\ Status \in {"pending", "active", "closed"} /\ Status' = "closed"
        /\ Reason' \in {Reason, "api"}
    BY <1>1, <1>4, CloseRow DEF CloseBill, Reasons
  <2>2. UNCHANGED <<now, handler, period, wf, due, act, faults>>
    BY <1>4 DEF CloseBill, temporal
  <2>3. Typed'
    BY <1>1, <2>1, <2>2 DEF Typed
  <2>4. Stage' /\ Clock' /\ Acting'
    BY <1>1, <2>1, <2>2 DEF Stage, Clock, Acting
  <2>5. Excused'
    BY <2>1, <2>2, <1>1 DEF Excused, GivesUpOnlyAfterFaults
  <2>6. QED
    BY <2>3, <2>4, <2>5 DEF IInv
<1>5. CASE StartWorkflow
  <2>1. /\ UNCHANGED <<row, items, now, period, due, act, terminating>>
        /\ handler = "inserted" /\ handler' = "replied"
        /\ faults' \in Nat /\ wf = "none" /\ wf' \in {"none", "queued"}
    BY <1>1, <1>5 DEF StartWorkflow, Fault, database, async, Stage
  <2>2. Status' = Status /\ Reason' = Reason
    BY <2>1, SameRow
  <2>3. Typed'
    BY <1>1, <2>1 DEF Typed, Running
  <2>4. act = NoAct /\ Status # "active"
    BY <1>1, <2>1 DEF Acting, Stage
  <2>5. Stage' /\ Clock' /\ Acting' /\ Excused'
    BY <1>1, <2>1, <2>2, <2>4
       DEF Stage, Clock, Acting, Excused, GivesUpOnlyAfterFaults
  <2>6. QED
    BY <2>3, <2>5 DEF IInv
<1>6. ASSUME NEW k \in Keys, AddLineItem(k)
      PROVE  IInv'
  <2>1. /\ UNCHANGED <<row, now, handler, period, wf, due, act, terminating,
                       faults>>
        /\ Status = "active" /\ items' = items \cup {[key |-> k, bill |-> Bill]}
    BY <1>6 DEF AddLineItem, DB!AddItem, Status, temporal
  <2>2. Status' = Status /\ Reason' = Reason
    BY <2>1, SameRow
  <2>3. Typed'
    BY <1>1, <2>1 DEF Typed, DB!Item
  <2>4. Failed' = Failed
    BY <2>1 DEF Failed
  <2>5. Stage' /\ Clock' /\ Acting' /\ Excused'
    BY <1>1, <2>1, <2>2, <2>4
       DEF Stage, Clock, Acting, Excused, GivesUpOnlyAfterFaults, Waiting
  <2>6. QED
    BY <2>3, <2>5 DEF IInv
<1>7. QED
  BY <1>2, <1>3, <1>4, <1>5, <1>6

(* The workflow begins its period, or selects what to do next.              *)
LEMMA WorkflowStep ==
  ASSUME IInv, Workflow
  PROVE  IInv'
<1>1. /\ Typed /\ Stage /\ Clock /\ Acting /\ Excused
      /\ Horizon \in Nat /\ due \in Nat
      /\ now \in 0..Horizon /\ period.start \in Int /\ period.end \in 0..Horizon
      /\ faults \in Nat
  BY BoundsAssumption DEF IInv, Typed, Omitted
<1>2. /\ UNCHANGED <<row, items, now, handler, period, terminating, faults>>
      /\ Status' = Status /\ Reason' = Reason
  BY SameRow DEF Workflow, BeginWorkflow, Wake, SelectAddLineItem,
                 SelectCloseBill, SelectTimer, database, async
<1>3. \A kind \in Kinds, reason \in Reasons \cup {"null"} :
        /\ Schedule(kind, reason) \in Activity
        /\ Schedule(kind, reason).kind = kind
        /\ Schedule(kind, reason).reason = reason
        /\ Schedule(kind, reason).n = 1
        /\ Schedule(kind, reason).phase = "scheduled"
  BY DEF Schedule, Activity
<1>4. ASSUME wf \in {"queued", "sleeping"}, period.start <= now, Enter
      PROVE  IInv'
  <2>1. Status \in {"pending", "closed"}
    BY <1>1, <1>4 DEF Stage
  <2>2. CASE period.end - period.start <= 0
    <3>1. /\ wf' = "invalid" /\ act' = Schedule("close", "invalid_period")
          /\ due' = due /\ period.end <= period.start
      BY <1>1, <1>4, <2>2 DEF Enter
    <3>2. /\ act' \in Activity /\ act'.kind = "close" /\ act'.n = 1
          /\ act'.reason = "invalid_period" /\ act'.phase = "scheduled"
      BY <1>3, <3>1 DEF Kinds, Reasons
    <3>3. Typed'
      BY <1>1, <1>2, <3>1, <3>2 DEF Typed, Running
    <3>4. Failed' = 0
      BY <3>2 DEF Failed
    <3>5. QED
      BY <1>1, <1>2, <1>4, <2>1, <3>1, <3>2, <3>3, <3>4
         DEF IInv, Stage, Clock, Acting, Excused, Waiting,
             GivesUpOnlyAfterFaults
  <2>3. CASE ~ (period.end - period.start <= 0)
    <3>1. /\ wf' = "activating" /\ act' = Schedule("activate", "null")
          /\ due' \in Nat /\ due' >= period.end
      BY <1>1, <1>4, <2>3 DEF Enter
    <3>2. /\ act' \in Activity /\ act'.kind = "activate" /\ act'.n = 1
          /\ act'.reason = "null" /\ act'.phase = "scheduled"
      BY <1>3, <3>1 DEF Kinds
    <3>3. Typed'
      BY <1>1, <1>2, <3>1, <3>2 DEF Typed, Running
    <3>4. Failed' = 0
      BY <3>2 DEF Failed
    <3>5. QED
      BY <1>1, <1>2, <1>4, <2>1, <3>1, <3>2, <3>3, <3>4
         DEF IInv, Stage, Clock, Acting, Excused, Waiting,
             GivesUpOnlyAfterFaults
  <2>4. QED
    BY <2>2, <2>3
<1>5. CASE BeginWorkflow /\ period.start > now
  <2>1. wf = "queued" /\ wf' = "sleeping" /\ due' = due /\ act' = act
    BY <1>5 DEF BeginWorkflow
  <2>2. act = NoAct
    BY <1>1, <2>1 DEF Acting
  <2>3. Typed'
    BY <1>1, <1>2, <2>1 DEF Typed, Running
  <2>4. QED
    BY <1>1, <1>2, <2>1, <2>2, <2>3
       DEF IInv, Stage, Clock, Acting, Excused, GivesUpOnlyAfterFaults
<1>6. CASE (BeginWorkflow /\ ~ (period.start > now)) \/ Wake
  <2>1. wf \in {"queued", "sleeping"} /\ period.start <= now /\ Enter
    BY <1>1, <1>6 DEF BeginWorkflow, Wake
  <2>2. QED
    BY <1>4, <2>1
<1>7. ASSUME NEW kind \in {"total", "close"},
             NEW reason \in {"null", "signal", "auto_close"},
             reason = "auto_close" => now >= due,
             wf = "open", due' = due,
             wf' = IF kind = "total" THEN "totaling" ELSE "closing",
             act' = Schedule(kind, reason)
      PROVE  IInv'
  <2>1. /\ act' \in Activity /\ act'.kind = kind /\ act'.reason = reason
        /\ act'.phase = "scheduled"
    BY <1>3, <1>7 DEF Kinds, Reasons
  <2>2. Typed'
    BY <1>1, <1>2, <1>7, <2>1 DEF Typed, Running
  <2>3. reason = "auto_close" => now >= period.end
    BY <1>1, <1>7 DEF Clock
  <2>4. QED
    BY <1>1, <1>2, <1>7, <2>1, <2>2, <2>3
       DEF IInv, Stage, Clock, Acting, Excused, GivesUpOnlyAfterFaults
<1>8. CASE SelectAddLineItem
  BY <1>7, <1>8 DEF SelectAddLineItem
<1>9. CASE SelectCloseBill
  BY <1>7, <1>9 DEF SelectCloseBill
<1>10. CASE SelectTimer
  BY <1>7, <1>10 DEF SelectTimer
<1>11. QED
  BY <1>5, <1>6, <1>8, <1>9, <1>10 DEF Workflow

(* An attempt starts, has its effect, or has failed.                        *)
LEMMA AttemptStep ==
  ASSUME IInv, StartAttempt \/ Attempt \/ AttemptFails \/ AttemptForgotten
  PROVE  IInv'
<1>1. /\ Typed /\ Stage /\ Clock /\ Acting /\ Excused
      /\ faults \in Nat /\ act \in Activity /\ act # NoAct
      /\ UNCHANGED <<now, handler, period, wf, due, terminating>>
  BY DEF IInv, Typed, StartAttempt, Attempt, AttemptFails, AttemptForgotten,
         In, database, async
<1>2. PICK phase \in {"started", "ok", "error", "lost"} :
        /\ act' = [act EXCEPT !.phase = phase]
        /\ faults' = faults \/ faults' = faults + 1
        /\ phase = "started" =>
             act.phase = "scheduled" /\ UNCHANGED <<row, items, faults>>
        /\ phase # "started" => act.phase = "started"
        /\ phase = "ok" => Effect("ok") /\ faults' = faults
        /\ phase \in {"error", "lost"} =>
             \/ faults' = faults /\ Effect("error")
             \/ faults' = faults + 1 /\ UNCHANGED <<row, items>>
             \/ faults' = faults + 1 /\ act.kind \in Forgetful /\ Effect("ok")
  BY DEF StartAttempt, Attempt, AttemptFails, AttemptForgotten, In, Fault,
         database
<1>3. /\ act' \in Activity /\ act'.kind = act.kind /\ act'.n = act.n
      /\ act'.reason = act.reason /\ act'.phase = phase /\ act.n \in Nat
  BY <1>1, <1>2 DEF Activity
<1>4. /\ wf \notin {"none", "queued", "sleeping", "failed"}
      /\ handler = "replied" /\ Status # "none"
      /\ faults' \in Nat
  BY <1>1, <1>2 DEF Acting, Stage
<1>5. /\ phase = "started" => Failed' = Failed
      /\ phase \in {"error", "lost"} => Failed' = Failed + 1
      /\ Failed \in Int
  BY <1>2, <1>3 DEF Failed
<1>6. CASE phase = "started"
  <2>1. /\ row' = row /\ items' = items /\ faults' = faults
        /\ Status' = Status /\ Reason' = Reason
    BY <1>2, <1>6, SameRow
  <2>2. Typed'
    BY <1>1, <1>3, <2>1 DEF Typed
  <2>3. Waiting => Waiting'
    BY <1>2, <1>3, <1>5, <1>6, <2>1 DEF Waiting
  <2>4. QED
    BY <1>1, <1>2, <1>3, <1>4, <1>6, <2>1, <2>2, <2>3
       DEF IInv, Stage, Clock, Acting, Excused, GivesUpOnlyAfterFaults
<1>7. CASE /\ phase # "started" /\ Effect("ok")
           /\ \/ phase = "ok" /\ faults' = faults
              \/ faults' = faults + 1 /\ act.kind \in Forgetful
  <2>1. act.phase = "started" /\ (faults > 0 => faults' > 0)
    BY <1>1, <1>2, <1>7
  <2>2. row' \in [{Bill} -> DB!Row] /\ items' = items
    BY <1>1, <1>7, EffectRow
  <2>3. Typed'
    BY <1>1, <1>3, <1>4, <2>2 DEF Typed
  <2>4. CASE act.kind = "activate"
    <3>1. Status = "pending" /\ Status' = "active" /\ Reason' = Reason
      BY <1>1, <1>7, <2>4, EffectRow
    <3>2. wf = "activating"
      BY <1>1, <2>4, <3>1 DEF Acting, Stage
    <3>3. phase # "ok" => faults' > 0 /\ "activate" \in Forgetful
      BY <1>1, <1>7, <2>4
    <3>4. QED
      BY <1>1, <1>3, <1>4, <2>1, <2>2, <2>3, <2>4, <3>1, <3>2, <3>3
         DEF IInv, Stage, Clock, Acting, Excused, GivesUpOnlyAfterFaults
  <2>5. CASE act.kind = "total"
    <3>1. Status' = Status /\ Reason' = Reason
      BY <1>1, <1>7, <2>5, EffectRow
    <3>2. wf \notin {"activating", "invalid"}
      BY <1>1, <2>5 DEF Acting
    <3>3. QED
      BY <1>1, <1>3, <1>4, <2>1, <2>2, <2>3, <2>5, <3>1, <3>2
         DEF IInv, Stage, Clock, Acting, Excused, GivesUpOnlyAfterFaults
  <2>6. CASE act.kind = "close"
    <3>1. Status' = "closed" /\ Reason' \in {Reason, act.reason}
      BY <1>1, <1>7, <2>6, EffectRow
    <3>2. QED
      BY <1>1, <1>3, <1>4, <2>1, <2>2, <2>3, <2>6, <3>1
         DEF IInv, Stage, Clock, Acting, Excused, GivesUpOnlyAfterFaults
  <2>7. QED
    BY <1>1, <2>4, <2>5, <2>6 DEF Activity, Kinds
<1>8. CASE phase \in {"error", "lost"} /\ faults' = faults /\ Effect("error")
  <2>1. /\ act.kind \in {"activate", "total", "close"}
        /\ act.kind \in {"activate", "close"} => Status # "pending"
        /\ Status' = Status /\ Reason' = Reason
        /\ items' = items /\ row' \in [{Bill} -> DB!Row]
    BY <1>1, <1>8, EffectRow
  <2>2. Typed'
    BY <1>1, <1>3, <1>8, <2>1 DEF Typed
  <2>3. act.phase = "started"
    BY <1>2, <1>8
  <2>4. wf \in {"activating", "invalid"} => Status # "pending"
    BY <1>1, <2>1 DEF Acting
  <2>5. QED
    BY <1>1, <1>3, <1>4, <1>8, <2>1, <2>2, <2>3, <2>4
       DEF IInv, Stage, Clock, Acting, Excused, Waiting, GivesUpOnlyAfterFaults
<1>9. CASE /\ phase \in {"error", "lost"} /\ faults' = faults + 1
           /\ UNCHANGED <<row, items>>
  <2>1. /\ row' = row /\ items' = items
        /\ Status' = Status /\ Reason' = Reason
    BY <1>9, SameRow
  <2>2. Typed'
    BY <1>1, <1>3, <1>4, <2>1 DEF Typed
  <2>3. Waiting => Waiting'
    BY <1>1, <1>3, <1>5, <1>9, <2>1 DEF Waiting
  <2>4. act.phase = "started" /\ faults' > 0
    BY <1>1, <1>2, <1>9
  <2>5. QED
    BY <1>1, <1>3, <1>4, <1>9, <2>1, <2>2, <2>3, <2>4
       DEF IInv, Stage, Clock, Acting, Excused, GivesUpOnlyAfterFaults
<1>10. QED
  BY <1>2, <1>6, <1>7, <1>8, <1>9

(* An activity is retried, or its outcome reaches the workflow.             *)
LEMMA ReturnStep ==
  ASSUME IInv, ActivityReturns
  PROVE  IInv'
<1>1. /\ Typed /\ Stage /\ Clock /\ Acting /\ Excused
      /\ faults \in Nat /\ act \in Activity /\ act # NoAct
      /\ UNCHANGED <<row, items, now, handler, period, due, terminating,
                     faults>>
      /\ act.phase \in {"ok", "error", "lost"}
      /\ act.n \in Nat
      /\ Status' = Status /\ Reason' = Reason
      /\ MaxAttempts["activate"] \in Nat /\ MaxAttempts["close"] \in Nat
  BY SameRow, AttemptsAssumption
     DEF IInv, Typed, ActivityReturns, In, database, async, Activity, Kinds
<1>2. Failed \in Int /\ (act.phase \in {"error", "lost"} => Failed = act.n)
  BY <1>1 DEF Failed
<1>3. CASE /\ wf' = wf /\ Retry
           /\ act' = [act EXCEPT !.n = @ + 1, !.phase = "scheduled"]
  <2>1. /\ act' \in Activity /\ act'.kind = act.kind /\ act'.n = act.n + 1
        /\ act'.reason = act.reason /\ act'.phase = "scheduled"
    <3>1. act' = [kind |-> act.kind, reason |-> act.reason, n |-> act.n + 1,
                  phase |-> "scheduled"]
      BY <1>1, <1>3 DEF Activity
    <3>2. /\ act.kind \in Kinds /\ act.reason \in Reasons \cup {"null"}
          /\ act.n + 1 \in Nat
      BY <1>1 DEF Activity
    <3>3. QED
      BY <3>1, <3>2 DEF Activity
  <2>2. act.phase \in {"error", "lost"}
    BY <1>3 DEF Retry, In
  <2>3. Failed' = Failed
    BY <1>1, <1>2, <2>1, <2>2 DEF Failed
  <2>4. Typed'
    BY <1>1, <1>3, <2>1 DEF Typed
  <2>5. Waiting => Waiting'
    BY <1>1, <2>1, <2>3 DEF Waiting
  <2>6. QED
    BY <1>1, <1>3, <2>1, <2>2, <2>4, <2>5
       DEF IInv, Stage, Clock, Acting, Excused, GivesUpOnlyAfterFaults
<1>4. CASE /\ act' = NoAct /\ wf' = Continue(In("ok"))
           /\ wf \in Running /\ Retry => act.n >= MaxAttempts[act.kind]
  <2>1. In("ok") <=> act.phase = "ok"
    BY <1>1 DEF In
  <2>2. /\ wf = "activating" =>
             wf' = IF act.phase = "ok" THEN "open" ELSE "failed"
        /\ wf = "totaling" => wf' = "open"
        /\ wf = "closing" =>
             wf' = IF act.phase = "ok" THEN "completed" ELSE "open"
        /\ wf = "invalid" =>
             wf' = IF act.phase = "ok" THEN "completed" ELSE "failed"
        /\ wf = "terminated" => wf' = wf
    BY <1>4, <2>1 DEF Continue
  <2>3. wf \in {"invalid", "activating", "totaling", "closing", "terminated"}
    BY <1>1 DEF Acting
  <2>4. Typed'
    BY <1>1, <1>4, <2>2, <2>3 DEF Typed, Running
  <2>5. wf' = "completed" => Status = "closed"
    BY <1>1, <2>2, <2>3 DEF Acting
  <2>6. wf' = "failed" => /\ wf \in {"activating", "invalid"}
                          /\ act.phase \in {"error", "lost"}
    BY <1>1, <2>2, <2>3
  <2>7. wf' = "failed" /\ Waiting =>
          \/ wf = "activating" /\ faults >= MaxAttempts["activate"]
          \/ wf = "invalid" /\ faults >= MaxAttempts["close"]
    <3>1. wf' = "failed" =>
            Retry /\ wf \in Running /\ Failed >= MaxAttempts[act.kind]
      BY <1>1, <1>2, <1>4, <2>6 DEF Acting, Retry, In, Running
    <3>2. QED
      BY <1>1, <1>2, <2>6, <3>1 DEF Acting, Waiting
  <2>8. GivesUpOnlyAfterFaults'
    <3>1. wf' = "failed" =>
            \/ Status = "closed"
            \/ Status = "active" /\ faults > 0 /\ "activate" \in Forgetful
            \/ Waiting
      BY <1>1, <2>6 DEF Excused
    <3>2. wf = "invalid" => period.end <= period.start
      BY <1>1 DEF Clock
    <3>3. QED
      BY <1>1, <2>6, <2>7, <3>1, <3>2 DEF GivesUpOnlyAfterFaults, Waiting
  <2>9. Stage' /\ Clock' /\ Acting'
    BY <1>1, <1>4, <2>2, <2>3, <2>5 DEF Stage, Clock, Acting
  <2>10. QED
    BY <1>4, <2>4, <2>8, <2>9 DEF IInv, Excused
<1>5. QED
  <2>1. CASE wf \in Running /\ Retry /\ act.n < MaxAttempts[act.kind]
    BY <1>3, <2>1 DEF ActivityReturns
  <2>2. CASE ~ (wf \in Running /\ Retry /\ act.n < MaxAttempts[act.kind])
    <3>1. act.kind \in Kinds /\ MaxAttempts[act.kind] \in Nat
      BY <1>1, AttemptsAssumption DEF Activity
    <3>2. QED
      BY <1>1, <1>4, <2>2, <3>1 DEF ActivityReturns
  <2>3. QED
    BY <2>1, <2>2

(* The goroutine that ends the workflow does so after the bill is closed.   *)
LEMMA TerminateStep ==
  ASSUME IInv, TerminateWorkflow
  PROVE  IInv'
<1>1. /\ Typed /\ Stage /\ Clock /\ Acting /\ Excused
      /\ UNCHANGED <<row, items, now, handler, period, due>>
      /\ terminating /\ ~ terminating' /\ faults' \in Nat /\ faults \in Nat
      /\ faults' >= faults
      /\ Status' = Status /\ Reason' = Reason /\ Status = "closed"
  BY SameRow DEF IInv, Typed, Stage, TerminateWorkflow, Fault, database
<1>2. CASE UNCHANGED <<wf, act>>
  BY <1>1, <1>2, QuietStep
<1>3. CASE wf \in Running /\ wf' = "terminated" /\ act' \in {act, NoAct}
  <2>1. Typed'
    BY <1>1, <1>3 DEF Typed
  <2>2. handler = "replied"
    BY <1>1, <1>3 DEF Stage, Running
  <2>3. wf # "none" /\ (act' # NoAct => act' = act)
    BY <1>3 DEF Running
  <2>4. QED
    BY <1>1, <1>3, <2>1, <2>2, <2>3
       DEF IInv, Stage, Clock, Acting, Excused, GivesUpOnlyAfterFaults
<1>4. QED
  BY <1>2, <1>3 DEF TerminateWorkflow

LEMMA TickStep ==
  ASSUME IInv, Tick
  PROVE  IInv'
<1>1. /\ Typed /\ Stage /\ Clock /\ Acting /\ Excused
      /\ UNCHANGED <<row, items, handler, period, wf, due, act, terminating,
                     faults>>
      /\ now \in 0..Horizon /\ Horizon \in Nat /\ now < Horizon
      /\ now' = now + 1
      /\ period.start \in Int /\ period.end \in Int /\ due \in Nat
      /\ Status' = Status /\ Reason' = Reason
  BY SameRow, BoundsAssumption
     DEF IInv, Typed, Tick, database, temporal, async, Omitted
<1>2. Typed'
  BY <1>1 DEF Typed
<1>3. Failed' = Failed
  BY <1>1 DEF Failed
<1>4. Stage' /\ Clock' /\ Acting' /\ Excused'
  BY <1>1, <1>3
     DEF Stage, Clock, Acting, Excused, Waiting, GivesUpOnlyAfterFaults
<1>5. QED
  BY <1>2, <1>4 DEF IInv

LEMMA Step == IInv /\ [Next]_vars => IInv'
<1> SUFFICES ASSUME IInv, [Next]_vars
             PROVE  IInv'
  OBVIOUS
<1>1. faults \in Nat
  BY DEF IInv, Typed
<1>2. CASE SignalWorkflow \/ SendCloseSignal
  <2>1. /\ UNCHANGED <<row, items, now, period, wf, due, act, handler,
                       terminating>>
        /\ faults' \in Nat /\ faults' >= faults
    BY <1>1, <1>2 DEF SignalWorkflow, SendCloseSignal, Fault, database, async
  <2>2. QED
    BY <2>1, QuietStep
<1>3. CASE UNCHANGED vars
  BY <1>1, <1>3, QuietStep DEF vars
<1>4. QED
  BY <1>2, <1>3, HandlerStep, WorkflowStep, AttemptStep, ReturnStep,
     TerminateStep, TickStep
     DEF Next, Handlers, Worker, Goroutines, Failures

LEMMA Invariant == Spec => []IInv
BY Initially, Step, PTL DEF Spec

(* A bill is active only from its start time on, and closes by itself only  *)
(* at its end time or later.                                                *)
THEOREM OnTimeCorrect == Spec => []OnTime
<1>1. IInv => OnTime
  BY DEF IInv, Clock, OnTime, Reason
<1>2. QED
  BY <1>1, Invariant, PTL

(* A bill whose workflow was never started takes no line items, and one     *)
(* whose workflow has completed or was terminated is closed.                *)
THEOREM UnwatchedCorrect == Spec => []UnwatchedTakesNoItems
<1>1. IInv => UnwatchedTakesNoItems
  BY DEF IInv, Stage, UnwatchedTakesNoItems
<1>2. QED
  BY <1>1, Invariant, PTL

(* A workflow that fails has met as many faults as an activity has          *)
(* attempts, or an activation that was not reported.                        *)
THEOREM GivesUpCorrect == Spec => []GivesUpOnlyAfterFaults
<1>1. IInv => GivesUpOnlyAfterFaults
  BY DEF IInv, Excused
<1>2. QED
  BY <1>1, Invariant, PTL

-----------------------------------------------------------------------------
(* Each line item is announced by one signal at most, on its way or in the  *)
(* queue of the workflow; what is counted stays within its bounds.          *)
Counted ==
  /\ added \in Nat /\ signalling \in Nat
  /\ added + signalling <= Cardinality(DB!SumOf(items, Bill))
  /\ closes \in Nat /\ sent \in Nat
  /\ closes <= sent /\ sent <= MaxCloses
  /\ faults <= MaxFaults

LEMMA FewKeys ==
  ASSUME Typed
  PROVE  /\ IsFiniteSet(DB!SumOf(items, Bill))
         /\ Cardinality(DB!SumOf(items, Bill)) \in Nat
         /\ Cardinality(Keys) \in Nat
         /\ Cardinality(DB!SumOf(items, Bill)) <= Cardinality(Keys)
BY SumIsKeys, KeysAssumption, FS_Subset, FS_CardinalityType

LEMMA InitCounted == Init => Counted
<1> SUFFICES ASSUME Init
             PROVE  Counted
  OBVIOUS
<1>1. DB!SumOf(items, Bill) = {}
  BY DEF Init, DB!SumOf
<1>2. Cardinality(DB!SumOf(items, Bill)) = 0
  BY <1>1, FS_EmptySet
<1>3. QED
  BY <1>2, BoundsAssumption DEF Init, Counted

LEMMA AtMost ==
  ASSUME NEW a \in Nat, NEW b \in Nat, NEW c \in Nat, NEW d \in Nat,
         NEW n \in Nat, a + b <= c + d, c + d <= n
  PROVE  a + b <= n
OBVIOUS

LEMMA CountedStep ==
  ASSUME Typed, Counted, [Next]_vars
  PROVE  Counted'
<1>1. /\ Cardinality(DB!SumOf(items, Bill)) \in Nat
      /\ MaxFaults \in Nat /\ MaxCloses \in Nat /\ faults \in Nat
  BY FewKeys, BoundsAssumption DEF Typed
<1>2. ASSUME NEW k \in Keys, AddLineItem(k)
      PROVE  Counted'
  <2>1. /\ \A i \in items : i.key # k
        /\ items' = items \cup {[key |-> k, bill |-> Bill]}
        /\ signalling' = signalling + 1
        /\ UNCHANGED <<added, closes, sent, faults>>
    BY <1>2 DEF AddLineItem, DB!AddItem, temporal
  <2>2. /\ DB!SumOf(items', Bill) = DB!SumOf(items, Bill) \cup {k}
        /\ k \notin DB!SumOf(items, Bill)
    <3> DEFINE i == [key |-> k, bill |-> Bill]
    <3>1. i.key = k /\ i.bill = Bill /\ items' = items \cup {i}
      BY <2>1
    <3> HIDE DEF i
    <3>2. QED
      BY <2>1, <3>1 DEF DB!SumOf
  <2>3. Cardinality(DB!SumOf(items', Bill))
          = Cardinality(DB!SumOf(items, Bill)) + 1
    BY <2>2, FewKeys, FS_AddElement
  <2>4. QED
    BY <1>1, <2>1, <2>3 DEF Counted
<1>3. ASSUME items' = items,
             added' \in Nat /\ signalling' \in Nat,
             added' + signalling' <= added + signalling,
             closes' \in Nat /\ sent' \in Nat /\ closes' <= sent',
             sent' <= MaxCloses /\ faults' <= MaxFaults
      PROVE  Counted'
  <2>1. DB!SumOf(items', Bill) = DB!SumOf(items, Bill)
    BY <1>3
  <2>2. added' \in Nat /\ signalling' \in Nat
    BY <1>3
  <2>3. added' + signalling' <= added + signalling
    BY <1>3
  <2>4. /\ added \in Nat /\ signalling \in Nat
        /\ added + signalling <= Cardinality(DB!SumOf(items, Bill))
    BY DEF Counted
  <2>5. added' + signalling' <= Cardinality(DB!SumOf(items, Bill))
    BY <1>1, <2>2, <2>3, <2>4, AtMost
  <2>6. QED
    BY <1>3, <2>1, <2>2, <2>5 DEF Counted
<1>4. CASE Attempt \/ AttemptForgotten
  <2>1. act \in Activity
    BY <1>4 DEF Attempt, AttemptForgotten, In, Typed
  <2>2. items' = items
    BY <1>4, <2>1, EffectRow DEF Attempt, AttemptForgotten
  <2>3. /\ UNCHANGED <<added, signalling, closes, sent>>
        /\ faults' <= MaxFaults
    BY <1>1, <1>4 DEF Attempt, AttemptForgotten, Fault, async, Counted
  <2>4. QED
    BY <1>3, <2>2, <2>3 DEF Counted
<1>5. CASE CloseBill
  <2>1. items' = items
    BY <1>5, CloseRow DEF CloseBill, Reasons
  <2>2. QED
    BY <1>3, <1>5, <2>1 DEF CloseBill, temporal, Counted
<1>6. CASE Validate \/ CreateBill \/ StartWorkflow \/ Tick
  BY <1>1, <1>3, <1>6 DEF Validate, CreateBill, StartWorkflow, Tick, DB!Create,
                         Fault, database, temporal, async, Counted
<1>7. CASE SignalWorkflow \/ TerminateWorkflow \/ SendCloseSignal
  BY <1>1, <1>3, <1>7 DEF SignalWorkflow, TerminateWorkflow, SendCloseSignal,
                         Fault, database, async, Counted
<1>8. CASE Workflow
  BY <1>1, <1>3, <1>8 DEF Workflow, BeginWorkflow, Wake, SelectAddLineItem,
                         SelectCloseBill, SelectTimer, database, async, Counted
<1>9. CASE StartAttempt \/ ActivityReturns \/ AttemptFails
  BY <1>1, <1>3, <1>9 DEF StartAttempt, ActivityReturns, AttemptFails, Fault,
                         database, async, Counted
<1>10. CASE UNCHANGED vars
  BY <1>3, <1>10 DEF vars, Counted
<1>11. QED
  BY <1>2, <1>4, <1>5, <1>6, <1>7, <1>8, <1>9, <1>10
     DEF Next, Handlers, Worker, Goroutines, Failures

Flag == terminating \in BOOLEAN

LEMMA FlagStep ==
  ASSUME Flag, [Next]_vars
  PROVE  Flag'
<1>1. \/ terminating' = terminating
      \/ terminating' = TRUE
      \/ terminating' = FALSE
  BY DEF Next, Handlers, Workflow, Worker, Goroutines, Failures, vars, async,
         Validate, CreateBill, AddLineItem, CloseBill, SendCloseSignal,
         BeginWorkflow, Wake, SelectAddLineItem, SelectCloseBill, SelectTimer,
         StartAttempt, Attempt, ActivityReturns, StartWorkflow, SignalWorkflow,
         TerminateWorkflow, AttemptFails, AttemptForgotten, Tick
<1>2. QED
  BY <1>1 DEF Flag

(* All of the workflow's state keeps its type; in particular there are      *)
(* never more signals than line items they announce.                        *)
THEOREM TypeCorrect == Spec => []TypeOK
<1>1. IInv => Typed
  BY DEF IInv
<1>2. Typed /\ Counted /\ Flag => TypeOK
  <2> SUFFICES ASSUME Typed, Counted, Flag
               PROVE  TypeOK
    OBVIOUS
  <2>1. DB!TypeOK
    BY DEF Typed, DB!TypeOK
  <2>2. added <= Cardinality(Keys) /\ signalling <= Cardinality(Keys)
    BY FewKeys DEF Counted
  <2>3. QED
    BY <2>1, <2>2, FewKeys, BoundsAssumption
       DEF Typed, Counted, Flag, TypeOK
<1>3. Init => Flag
  BY DEF Init, Flag
<1>4. QED
  BY <1>1, <1>2, <1>3, InitCounted, CountedStep, FlagStep, Invariant, PTL
     DEF Spec

-----------------------------------------------------------------------------
(* The bill as a row of the database.                                       *)

\* Every close has a reason, from where it is scheduled on.
CloseReason == act # NoAct /\ act.kind = "close" => act.reason \in Reasons

LEMMA CloseReasonStep ==
  ASSUME Typed, CloseReason, [Next]_vars
  PROVE  CloseReason'
<1>1. ASSUME NEW kind \in Kinds, NEW reason \in Reasons \cup {"null"},
             kind = "close" => reason \in Reasons,
             act' = Schedule(kind, reason)
      PROVE  CloseReason'
  BY <1>1 DEF CloseReason, Schedule
<1>2. CASE BeginWorkflow \/ Wake \/ SelectAddLineItem \/ SelectCloseBill
             \/ SelectTimer
  <2>1. \/ act' = act
        \/ act' = Schedule("close", "invalid_period")
        \/ act' = Schedule("activate", "null")
        \/ act' = Schedule("total", "null")
        \/ act' = Schedule("close", "signal")
        \/ act' = Schedule("close", "auto_close")
    BY <1>2 DEF BeginWorkflow, Wake, SelectAddLineItem, SelectCloseBill,
                SelectTimer, Enter
  <2>2. QED
    BY <1>1, <2>1 DEF Reasons, Kinds, CloseReason
<1>3. CASE StartAttempt \/ Attempt \/ ActivityReturns \/ AttemptFails
             \/ AttemptForgotten
  <2>1. act \in Activity
    BY <1>3 DEF StartAttempt, Attempt, ActivityReturns, AttemptFails,
                AttemptForgotten, In, Typed
  <2>2. \/ act' = NoAct
        \/ act'.kind = act.kind /\ act'.reason = act.reason
    BY <1>3, <2>1 DEF StartAttempt, Attempt, ActivityReturns, AttemptFails,
                      AttemptForgotten, Activity
  <2>3. act # NoAct
    BY <1>3 DEF StartAttempt, Attempt, ActivityReturns, AttemptFails,
                AttemptForgotten, In
  <2>4. QED
    BY <2>2, <2>3 DEF CloseReason
<1>4. CASE Handlers \/ Goroutines \/ Tick \/ UNCHANGED vars
  <2>1. act' = act \/ act' = NoAct
    BY <1>4 DEF Handlers, Goroutines, Tick, vars, temporal, Validate, CreateBill,
                CloseBill, SendCloseSignal, AddLineItem, StartWorkflow,
                SignalWorkflow, TerminateWorkflow
  <2>2. QED
    BY <2>1 DEF CloseReason
<1>5. QED
  BY <1>2, <1>3, <1>4 DEF Next, Workflow, Worker, Failures

LEMMA CloseIsStep ==
  ASSUME NEW r \in Reasons, Close(r)
  PROVE  [DB!Next]_<<row, items>>
BY DEF Close, database, DB!Next

(* A step commits one transaction of the bill's row, or none.               *)
LEMMA RowStep ==
  ASSUME Typed, CloseReason, [Next]_vars
  PROVE  [DB!Next]_<<row, items>>
<1>1. CASE CreateBill
  BY <1>1 DEF CreateBill, DB!Next
<1>2. ASSUME NEW k \in Keys, AddLineItem(k)
      PROVE  [DB!Next]_<<row, items>>
  BY <1>2 DEF AddLineItem, DB!Next
<1>3. CASE CloseBill
  BY <1>3, CloseIsStep DEF CloseBill, Reasons
<1>4. CASE Attempt \/ AttemptForgotten
  <2>1. PICK outcome \in {"ok", "error"} : Effect(outcome)
    BY <1>4 DEF Attempt, AttemptForgotten
  <2>2. CASE \/ DB!Activate(Bill) \/ DB!Recalculate(Bill)
    BY <2>2 DEF DB!Next
  <2>3. CASE UNCHANGED database
    BY <2>3 DEF database
  <2>4. CASE act.kind = "close" /\ Close(act.reason)
    <3>1. act.reason \in Reasons
      BY <1>4, <2>4 DEF Attempt, AttemptForgotten, In, CloseReason
    <3>2. QED
      BY <2>4, <3>1, CloseIsStep
  <2>5. QED
    BY <2>1, <2>2, <2>3, <2>4 DEF Effect
<1>5. CASE \/ Validate \/ SendCloseSignal \/ Workflow \/ StartAttempt
           \/ ActivityReturns \/ AttemptFails \/ Goroutines \/ Tick
           \/ UNCHANGED vars
  <2>1. UNCHANGED <<row, items>>
    BY <1>5 DEF Validate, SendCloseSignal, Workflow, BeginWorkflow, Wake,
                SelectAddLineItem, SelectCloseBill, SelectTimer, StartAttempt,
                ActivityReturns, AttemptFails, Goroutines, StartWorkflow,
                SignalWorkflow, TerminateWorkflow, Tick, vars, database
  <2>2. QED
    BY <2>1
<1>6. QED
  BY <1>1, <1>2, <1>3, <1>4, <1>5 DEF Next, Handlers, Worker, Failures

Lifecycle == DB!Spec

(* The bill's row lives the life of BillLifecycle, since the transactions   *)
(* here are its own.                                                        *)
LEMMA LivesTheLife == Spec => Lifecycle
<1>1. Init => DB!Init /\ CloseReason
  BY DEF Init, DB!Init, DB!NewRow, CloseReason
<1>2. IInv => Typed
  BY DEF IInv
<1>3. Typed /\ CloseReason /\ [Next]_vars
        => CloseReason' /\ [DB!Next]_<<row, items>>
  BY CloseReasonStep, RowStep
<1>4. QED
  BY <1>1, <1>2, <1>3, Invariant, PTL DEF Spec, Lifecycle, DB!Spec, DB!vars

Rows == INSTANCE BillLifecycleProofs WITH Bills <- {Bill}, NoReason <- "null"

(* What is proved of BillLifecycle may be used of the bill here.            *)
LEMMA LifecycleIsRows == Lifecycle => Rows!Spec
<1>1. DB!Init <=> Rows!Init
  BY DEF DB!Init, Rows!Init, DB!NewRow, Rows!NewRow
<1>2. [DB!Next]_DB!vars <=> [Rows!Next]_Rows!vars
  BY DEF DB!Next, Rows!Next, DB!vars, Rows!vars, DB!Create, Rows!Create,
         DB!Activate, Rows!Activate, DB!Recalculate, Rows!Recalculate,
         DB!AddItem, Rows!AddItem, DB!CloseUnstarted, Rows!CloseUnstarted,
         DB!CloseStarted, Rows!CloseStarted, DB!SumOf, Rows!SumOf,
         DB!NewRow, Rows!NewRow
<1>3. QED
  BY <1>1, <1>2, PTL DEF Lifecycle, DB!Spec, Rows!Spec

(* Once it is closed, by the API, by a signal or by its timer, the bill     *)
(* keeps its reason and a total that sums all of its items: an activity     *)
(* that is repeated, or runs on after its workflow was terminated, changes  *)
(* nothing any more.                                                        *)
THEOREM ClosedForGood ==
  Spec => []Rows!ClosedTotalIsFinal /\ Rows!ClosedIsTerminal
<1>1. "null" \notin Reasons
  BY DEF Reasons
<1>2. Rows!Spec => []Rows!ClosedTotalIsFinal
  BY <1>1, Rows!ClosedTotalCorrect, NoTotalAssumption
<1>3. Rows!Spec => Rows!ClosedIsTerminal
  BY <1>1, Rows!ClosedIsTerminalCorrect, NoTotalAssumption
<1>4. QED
  BY <1>2, <1>3, LivesTheLife, LifecycleIsRows, PTL
=============================================================================
