------------------------------ MODULE AgentRuns ------------------------------
(***************************************************************************)
(* The agent runtime: the job pool (internal/job), the run engine with its *)
(* tool loop and approval gate (internal/agentrt), and the approval.decide *)
(* action (internal/action) that wakes a parked run.                       *)
(*                                                                         *)
(* The database rows (jobs, runs, approvals, notifications) survive a      *)
(* crash; the state of the pool's workers and of the loops that call       *)
(* EnqueueRun does not.  Each SQL statement is one step, because each runs *)
(* in a transaction of its own; approval.decide is one step, because       *)
(* Dispatch runs its two statements in one transaction.                    *)
(*                                                                         *)
(* The job of a run has the run's id (EnqueueRun), so jobs and runs share  *)
(* the set Runs.  EnqueueResume, whose only caller waits for an event that *)
(* no action emits, is not part of this module.                            *)
(***************************************************************************)
EXTENDS Integers, Sequences, FiniteSets, SequencesExt

CONSTANTS
    Workers,      \* goroutines of the pool
    Runs,         \* ids for runs and their jobs
    Loops,        \* goroutines that call EnqueueRun, each one call at a time
    Calls,        \* what the call sites of EnqueueRun pass
    NoTask,       \* a run without task_id
    NoProject,    \* a run without project_id
    NoCall,       \* the columns of a run that does not exist
    NoRun,        \* the job of an idle worker, the run of an idle loop
    Actions,      \* tool calls (action and input) the model may ask for
    Policy,       \* approval policy of each action: auto, require or forbid
    MaxAttempts,  \* jobs.max_attempts
    MaxSteps,     \* MaxStepsPerRun
    MaxCalls,     \* bound: tool calls in one model turn
    MaxFaults,    \* bound: database errors
    MaxCrashes    \* bound: stops and crashes of the process

\* Who a run's initiated_by column names: a row of users, nobody, or a text
\* that is no user id ("schedule", an API key id).
Initiators == {"user", "none", "other"}

(***************************************************************************)
(* A call site passes a task, a project and an initiator.  Only the        *)
(* trigger loop passes a task, and it passes the task's own project.       *)
(***************************************************************************)
ASSUME CallsAssumption ==
    /\ \A c \in Calls :
         /\ DOMAIN c = {"loop", "task", "project", "initiator"}
         /\ c.loop \in Loops
         /\ c.initiator \in Initiators
    /\ \A c, d \in Calls :
         c.task # NoTask /\ c.task = d.task => c.loop = d.loop
    /\ NoCall \notin Calls
    /\ NoRun \notin Runs

ASSUME PolicyAssumption == Policy \in [Actions -> {"auto", "require", "forbid"}]

ASSUME BoundsAssumption ==
    /\ MaxAttempts \in Nat \ {0}
    /\ MaxSteps \in Nat \ {0}
    /\ MaxCalls \in Nat
    /\ MaxFaults \in Nat
    /\ MaxCrashes \in Nat

VARIABLES
    jobStatus,   \* jobs.status
    attempts,    \* jobs.attempts
    due,         \* jobs.run_at <= now
    runStatus,   \* runs.status
    runCall,     \* runs.task_id, project_id, initiated_by
    approvals,   \* approvals rows of a run and action, oldest first
    notified,    \* runs whose initiator has a run.failed notification
    loopPc,      \* progress of a loop through EnqueueRun
    loopCall,    \* its arguments
    loopRun,     \* the run it created
    pc,          \* progress of a worker
    job,         \* the job it claimed
    tries,       \* attempts of that job when it was claimed
    batch,       \* jobs it listed and has not tried yet
    steps,       \* steps of the tool loop
    calls,       \* tool calls of the current turn still to dispatch
    faults,
    crashes

jobVars    == <<jobStatus, attempts, due>>
runVars    == <<runStatus, runCall, notified>>
loopVars   == <<loopPc, loopCall, loopRun>>
claimVars  == <<job, tries, batch>>
toolVars   == <<steps, calls>>
workerVars == <<pc, claimVars, toolVars>>
vars == <<jobVars, runVars, approvals, loopVars, workerVars, faults, crashes>>

JobStatuses == {"none", "queued", "running", "succeeded", "failed", "dead"}
RunStatuses == {"none", "queued", "running", "awaiting_approval",
                "succeeded", "failed"}
ApprovalStatuses == {"pending", "approved", "rejected"}

\* Where a worker is: polling; in the handler before the tool loop; in the
\* tool loop; ending the handler; back in the pool with its result.
LoopPcs   == {"model", "tool", "ask", "exec", "park", "finish"}
WorkerPcs == {"idle", "start"} \cup LoopPcs
               \cup {"complete", "failjob", "failrun", "herr", "done"}

\* What the Count queries take for an active run.
ActiveStatuses == {"queued", "running", "awaiting_approval"}
Active(r) == runStatus[r] \in ActiveStatuses

\* A statement on the database may fail while errors are left.
Fault == faults < MaxFaults /\ faults' = faults + 1

Goto(w, label) == pc' = [pc EXCEPT ![w] = label]

\* A worker is done with its job, a loop with its call.
Release(w) ==
    /\ Goto(w, "idle")
    /\ job' = [job EXCEPT ![w] = NoRun]
    /\ tries' = [tries EXCEPT ![w] = 0]
    /\ steps' = [steps EXCEPT ![w] = 0]
    /\ calls' = [calls EXCEPT ![w] = <<>>]

ReleaseLoop(l) ==
    /\ loopPc' = [loopPc EXCEPT ![l] = "idle"]
    /\ loopCall' = [loopCall EXCEPT ![l] = NoCall]
    /\ loopRun' = [loopRun EXCEPT ![l] = NoRun]

-----------------------------------------------------------------------------
(* EnqueueRun: check the caps, insert the run, insert its job.             *)

\* Mutant: the caps count queued runs only.
WithinQueuedCaps(c) ==
    ~ \E r \in Runs : /\ runStatus[r] = "queued"
                      /\ \/ c.task # NoTask /\ runCall[r].task = c.task
                         \/ c.project # NoProject /\ runCall[r].project = c.project

\* The per-task and per-project caps.  A skipped call changes nothing, and
\* neither does one refused for a budget.
WithinCaps(c) ==
    /\ c.task # NoTask => ~ \E r \in Runs : Active(r) /\ runCall[r].task = c.task
    /\ c.project # NoProject =>
         ~ \E r \in Runs : Active(r) /\ runCall[r].project = c.project

EnqueueCheck(c) ==
    /\ loopPc[c.loop] = "idle"
    /\ WithinCaps(c)
    /\ loopPc' = [loopPc EXCEPT ![c.loop] = "checked"]
    /\ loopCall' = [loopCall EXCEPT ![c.loop] = c]
    /\ UNCHANGED <<jobVars, runVars, approvals, loopRun, workerVars, faults, crashes>>

CreateRun(l) ==
    /\ loopPc[l] = "checked"
    /\ \/ \E r \in Runs :
            /\ runStatus[r] = "none"
            /\ runStatus' = [runStatus EXCEPT ![r] = "queued"]
            /\ runCall' = [runCall EXCEPT ![r] = loopCall[l]]
            /\ loopRun' = [loopRun EXCEPT ![l] = r]
            /\ loopPc' = [loopPc EXCEPT ![l] = "created"]
            /\ UNCHANGED <<loopCall, faults>>
       \/ /\ Fault
          /\ ReleaseLoop(l)
          /\ UNCHANGED <<runStatus, runCall>>
    /\ UNCHANGED <<jobVars, notified, approvals, workerVars, crashes>>

\* An error here leaves a queued run that has no job.
EnqueueJob(l) ==
    /\ loopPc[l] = "created"
    /\ \/ /\ jobStatus' = [jobStatus EXCEPT ![loopRun[l]] = "queued"]
          /\ attempts' = [attempts EXCEPT ![loopRun[l]] = 0]
          /\ due' = [due EXCEPT ![loopRun[l]] = TRUE]
          /\ UNCHANGED faults
       \/ Fault /\ UNCHANGED jobVars
    /\ ReleaseLoop(l)
    /\ UNCHANGED <<runVars, approvals, workerVars, crashes>>

-----------------------------------------------------------------------------
(* The pool: poll, claim, call the handler, record its result.             *)

ListQueued == {j \in Runs : jobStatus[j] = "queued" /\ due[j]}

Poll(w) ==
    /\ pc[w] = "idle"
    /\ batch[w] = {}
    /\ batch' = [batch EXCEPT ![w] = ListQueued]
    /\ UNCHANGED <<jobVars, runVars, approvals, loopVars, pc, job, tries, toolVars,
                   faults, crashes>>

\* Mutant: a running job can be claimed again.
ReclaimableToo(j) == jobStatus[j] \in {"queued", "running"} /\ due[j]

\* The condition of the UPDATE that claims a job.
Claimable(j) == jobStatus[j] = "queued" /\ due[j]

\* A job that cannot be claimed is skipped; a later poll may list it again.
Claim(w, j) ==
    /\ pc[w] = "idle"
    /\ j \in batch[w]
    /\ batch' = [batch EXCEPT ![w] = @ \ {j}]
    /\ \/ /\ Claimable(j)
          /\ jobStatus' = [jobStatus EXCEPT ![j] = "running"]
          /\ job' = [job EXCEPT ![w] = j]
          /\ tries' = [tries EXCEPT ![w] = attempts[j]]
          /\ Goto(w, "start")
          /\ UNCHANGED faults
       \/ /\ (~ Claimable(j) /\ UNCHANGED faults) \/ Fault
          /\ UNCHANGED <<jobStatus, job, tries, pc>>
    /\ UNCHANGED <<attempts, due, runVars, approvals, loopVars, toolVars, crashes>>

\* The handler returned nil; an error of Complete is only logged.
PoolComplete(w) ==
    /\ pc[w] = "done"
    /\ \/ /\ jobStatus' = [jobStatus EXCEPT ![job[w]] = "succeeded"]
          /\ UNCHANGED faults
       \/ Fault /\ UNCHANGED jobStatus
    /\ Release(w)
    /\ UNCHANGED <<attempts, due, runVars, approvals, loopVars, batch, crashes>>

\* Mutant: one attempt too many.
OneMoreAttempt(w) == tries[w] + 1 <= MaxAttempts

\* Shared by the pool's retry and by failAndRetry.
AttemptsLeft(w) == tries[w] + 1 < MaxAttempts

\* The handler returned an error: requeue with a delay, or give up.
PoolFail(w) ==
    /\ pc[w] = "herr"
    /\ \/ /\ IF AttemptsLeft(w)
             THEN /\ jobStatus' = [jobStatus EXCEPT ![job[w]] = "queued"]
                  /\ attempts' = [attempts EXCEPT ![job[w]] = tries[w] + 1]
                  /\ due' = [due EXCEPT ![job[w]] = FALSE]
             ELSE /\ jobStatus' = [jobStatus EXCEPT ![job[w]] = "dead"]
                  /\ UNCHANGED <<attempts, due>>
          /\ UNCHANGED faults
       \/ Fault /\ UNCHANGED jobVars
    /\ Release(w)
    /\ UNCHANGED <<runVars, approvals, loopVars, batch, crashes>>

\* The delay of a requeued job passes.
BecomeDue(j) ==
    /\ jobStatus[j] = "queued"
    /\ ~ due[j]
    /\ due' = [due EXCEPT ![j] = TRUE]
    /\ UNCHANGED <<jobStatus, attempts, runVars, approvals, loopVars, workerVars,
                   faults, crashes>>

-----------------------------------------------------------------------------
(* The handler: start the run, drive the tool loop, end the run and job.   *)

\* A run that is not queued cannot start; that is an error like any other.
StartRun(w) ==
    /\ pc[w] = "start"
    /\ \/ /\ runStatus[job[w]] = "queued"
          /\ runStatus' = [runStatus EXCEPT ![job[w]] = "running"]
          /\ steps' = [steps EXCEPT ![w] = 0]
          /\ Goto(w, "model")
          /\ UNCHANGED faults
       \/ /\ runStatus[job[w]] # "queued"
          /\ Goto(w, "failjob")
          /\ UNCHANGED <<runStatus, steps, faults>>
       \/ /\ Fault                \* the run or its agent cannot be read
          /\ Goto(w, "herr")
          /\ UNCHANGED <<runStatus, steps>>
       \/ /\ Fault                \* the update itself fails
          /\ Goto(w, "failjob")
          /\ UNCHANGED <<runStatus, steps>>
    /\ UNCHANGED <<jobVars, runCall, notified, approvals, loopVars, claimVars, calls, crashes>>

\* One iteration of the loop: the step cap, then the model's answer, which is
\* an error, the end of the run, or tool calls to dispatch in order.
ModelTurn(w) ==
    /\ pc[w] = "model"
    /\ IF steps[w] >= MaxSteps
       THEN /\ Goto(w, "finish")
            /\ UNCHANGED toolVars
       ELSE /\ steps' = [steps EXCEPT ![w] = @ + 1]
            /\ \/ /\ Goto(w, "failjob")
                  /\ UNCHANGED calls
               \/ \E cs \in BoundedSeq(Actions, MaxCalls) :
                    /\ calls' = [calls EXCEPT ![w] = cs]
                    /\ Goto(w, IF cs = <<>> THEN "finish" ELSE "tool")
    /\ UNCHANGED <<jobVars, runVars, approvals, loopVars, claimVars, faults, crashes>>

\* Mutant: the call is dispatched again.
RepeatCall(w) == Goto(w, "tool") /\ UNCHANGED calls

\* The tool call is over, answered or refused; the loop takes the next one.
NextCall(w) ==
    /\ calls' = [calls EXCEPT ![w] = Tail(@)]
    /\ Goto(w, IF Len(calls[w]) = 1 THEN "model" ELSE "tool")

\* The decision in force for an action of a run: that of its latest row.
Decision(r, a) ==
    IF approvals[r][a] = <<>> THEN "pending" ELSE Last(approvals[r][a])

\* Mutant: any row of the run and action lets it pass.
GateByAnyRow(r, a) ==
    CASE Policy[a] = "auto"   -> "proceed"
      [] Policy[a] = "forbid" -> "forbid"
      [] OTHER -> IF approvals[r][a] = <<>> THEN "park" ELSE "proceed"

\* What the gate answers: proceed, forbid or park.
GateDecision(r, a) ==
    CASE Policy[a] = "auto"   -> "proceed"
      [] Policy[a] = "forbid" -> "forbid"
      [] OTHER -> CASE Decision(r, a) = "approved" -> "proceed"
                    [] Decision(r, a) = "rejected" -> "forbid"
                    [] OTHER -> "park"

\* The permission check or the gate refuses the call; the model is told.
ToolRefused(w) ==
    /\ pc[w] = "tool"
    /\ NextCall(w)
    /\ UNCHANGED <<jobVars, runVars, approvals, loopVars, claimVars, steps, faults, crashes>>

ToolProceeds(w) ==
    /\ pc[w] = "tool"
    /\ GateDecision(job[w], Head(calls[w])) = "proceed"
    /\ Goto(w, "exec")
    /\ UNCHANGED <<jobVars, runVars, approvals, loopVars, claimVars, toolVars, faults, crashes>>

\* The policy requires an approval and none is decided.  A decision that
\* cannot be read counts as none.
ToolNeedsApproval(w) ==
    /\ pc[w] = "tool"
    /\ Policy[Head(calls[w])] = "require"
    /\ \/ GateDecision(job[w], Head(calls[w])) = "park" /\ UNCHANGED faults
       \/ Fault
    /\ Goto(w, "ask")
    /\ UNCHANGED <<jobVars, runVars, approvals, loopVars, claimVars, toolVars, crashes>>

\* The gate inserts a pending row and notifies the run's initiator.  When that
\* notification cannot be stored (its user_id must be a row of users) the gate
\* returns an error, which the loop reports to the model like a refusal.  A run
\* that cannot be read is not notified and parks.
RequestApproval(w) ==
    LET r == job[w]
        a == Head(calls[w])
        Parks == Goto(w, "park") /\ UNCHANGED calls
    IN  /\ pc[w] = "ask"
        /\ \/ /\ approvals' = [approvals EXCEPT ![r][a] = Append(@, "pending")]
              /\ \/ runCall[r].initiator # "other" /\ Parks /\ UNCHANGED faults
                 \/ runCall[r].initiator = "other" /\ NextCall(w) /\ UNCHANGED faults
                 \/ runCall[r].initiator # "none" /\ Fault /\ (Parks \/ NextCall(w))
           \/ Fault /\ NextCall(w) /\ UNCHANGED approvals
        /\ UNCHANGED <<jobVars, runVars, loopVars, claimVars, steps, crashes>>

\* Dispatch executes the action; an error is reported to the model.
ToolExecutes(w) ==
    /\ pc[w] = "exec"
    /\ NextCall(w)
    /\ UNCHANGED <<jobVars, runVars, approvals, loopVars, claimVars, steps, faults, crashes>>

\* The write that ends the loop is unconditional and its error is ignored.
EndLoop(w, label, status) ==
    /\ pc[w] = label
    /\ \/ /\ runStatus' = [runStatus EXCEPT ![job[w]] = status]
          /\ UNCHANGED faults
       \/ Fault /\ UNCHANGED runStatus
    /\ Goto(w, "complete")
    /\ UNCHANGED <<jobVars, runCall, notified, approvals, loopVars, claimVars, toolVars, crashes>>

ParkRun(w)   == EndLoop(w, "park", "awaiting_approval")
FinishRun(w) == EndLoop(w, "finish", "succeeded")

\* The handler completes the job itself, and returns the error if it cannot.
HandlerComplete(w) ==
    /\ pc[w] = "complete"
    /\ \/ /\ jobStatus' = [jobStatus EXCEPT ![job[w]] = "succeeded"]
          /\ Goto(w, "done")
          /\ UNCHANGED faults
       \/ /\ Fault
          /\ Goto(w, "herr")
          /\ UNCHANGED jobStatus
    /\ UNCHANGED <<attempts, due, runVars, approvals, loopVars, claimVars, toolVars, crashes>>

\* failAndRetry, first statement: the job is failed with a later run_at, or
\* dead when no attempt is left.
FailJob(w) ==
    /\ pc[w] = "failjob"
    /\ \/ /\ IF AttemptsLeft(w)
             THEN /\ jobStatus' = [jobStatus EXCEPT ![job[w]] = "failed"]
                  /\ attempts' = [attempts EXCEPT ![job[w]] = tries[w] + 1]
                  /\ due' = [due EXCEPT ![job[w]] = FALSE]
             ELSE /\ jobStatus' = [jobStatus EXCEPT ![job[w]] = "dead"]
                  /\ UNCHANGED <<attempts, due>>
          /\ Goto(w, "failrun")
          /\ UNCHANGED faults
       \/ /\ Fault
          /\ Goto(w, "herr")
          /\ UNCHANGED jobVars
    /\ UNCHANGED <<runVars, approvals, loopVars, claimVars, toolVars, crashes>>

\* Its second statement, and the notification once no attempt is left.
FailRun(w) ==
    /\ pc[w] = "failrun"
    /\ \/ /\ runStatus' = [runStatus EXCEPT ![job[w]] = "failed"]
          /\ \/ /\ \/ AttemptsLeft(w)
                   \/ runCall[job[w]].initiator = "none"
                /\ Goto(w, "done")
                /\ UNCHANGED <<notified, faults>>
             \/ /\ ~ AttemptsLeft(w)
                /\ runCall[job[w]].initiator = "user"
                /\ notified' = notified \cup {job[w]}
                /\ Goto(w, "done")
                /\ UNCHANGED faults
             \/ /\ ~ AttemptsLeft(w)
                /\ \/ runCall[job[w]].initiator = "other" /\ UNCHANGED faults
                   \/ runCall[job[w]].initiator = "user" /\ Fault
                /\ Goto(w, "herr")
                /\ UNCHANGED notified
       \/ /\ Fault
          /\ Goto(w, "herr")
          /\ UNCHANGED <<runStatus, notified>>
    /\ UNCHANGED <<jobVars, runCall, approvals, loopVars, claimVars, toolVars, crashes>>

-----------------------------------------------------------------------------
(* A person decides an approval; the process stops.                        *)

\* Mutant: the run is left parked.
DecideOnly(r, a, i, verdict) ==
    /\ runStatus[r] = "awaiting_approval"
    /\ approvals' = [approvals EXCEPT ![r][a][i] = verdict]
    /\ UNCHANGED <<jobVars, runVars, loopVars, workerVars, faults, crashes>>

\* Mutant: the run is requeued whatever its status.
DecideAnyRun(r, a, i, verdict) ==
    /\ approvals' = [approvals EXCEPT ![r][a][i] = verdict]
    /\ runStatus' = [runStatus EXCEPT ![r] = "queued"]
    /\ UNCHANGED <<jobVars, runCall, notified, loopVars, workerVars, faults, crashes>>

\* Any row of the run may be decided, a decided one too.  A run that is not
\* awaiting approval makes the transaction roll back: nothing changes.
Decide(r, a, i, verdict) ==
    /\ runStatus[r] = "awaiting_approval"
    /\ approvals' = [approvals EXCEPT ![r][a][i] = verdict]
    /\ runStatus' = [runStatus EXCEPT ![r] = "queued"]
    /\ UNCHANGED <<jobVars, runCall, notified, loopVars, workerVars, faults, crashes>>

\* A crash, and equally Stop: it cancels the context that the in-flight
\* handlers write through.  The rows stay as they are; nothing puts a
\* running job back when the process starts again.
Crash ==
    /\ crashes < MaxCrashes
    /\ crashes' = crashes + 1
    /\ loopPc' = [l \in Loops |-> "idle"]
    /\ loopCall' = [l \in Loops |-> NoCall]
    /\ loopRun' = [l \in Loops |-> NoRun]
    /\ pc' = [w \in Workers |-> "idle"]
    /\ job' = [w \in Workers |-> NoRun]
    /\ tries' = [w \in Workers |-> 0]
    /\ batch' = [w \in Workers |-> {}]
    /\ steps' = [w \in Workers |-> 0]
    /\ calls' = [w \in Workers |-> <<>>]
    /\ UNCHANGED <<jobVars, runVars, approvals, faults>>

-----------------------------------------------------------------------------
Init ==
    /\ jobStatus = [r \in Runs |-> "none"]
    /\ attempts = [r \in Runs |-> 0]
    /\ due = [r \in Runs |-> FALSE]
    /\ runStatus = [r \in Runs |-> "none"]
    /\ runCall = [r \in Runs |-> NoCall]
    /\ approvals = [r \in Runs |-> [a \in Actions |-> <<>>]]
    /\ notified = {}
    /\ loopPc = [l \in Loops |-> "idle"]
    /\ loopCall = [l \in Loops |-> NoCall]
    /\ loopRun = [l \in Loops |-> NoRun]
    /\ pc = [w \in Workers |-> "idle"]
    /\ job = [w \in Workers |-> NoRun]
    /\ tries = [w \in Workers |-> 0]
    /\ batch = [w \in Workers |-> {}]
    /\ steps = [w \in Workers |-> 0]
    /\ calls = [w \in Workers |-> <<>>]
    /\ faults = 0
    /\ crashes = 0

Loop(l) == CreateRun(l) \/ EnqueueJob(l)

Tool(w) ==
    \/ ToolRefused(w) \/ ToolProceeds(w) \/ ToolNeedsApproval(w)
    \/ RequestApproval(w) \/ ToolExecutes(w)

Worker(w) ==
    \/ Poll(w) \/ (\E j \in Runs : Claim(w, j)) \/ PoolComplete(w) \/ PoolFail(w)
    \/ StartRun(w) \/ ModelTurn(w) \/ Tool(w)
    \/ ParkRun(w) \/ FinishRun(w) \/ HandlerComplete(w) \/ FailJob(w) \/ FailRun(w)

Next ==
    \/ \E c \in Calls : EnqueueCheck(c)
    \/ \E l \in Loops : Loop(l)
    \/ \E w \in Workers : Worker(w)
    \/ \E j \in Runs : BecomeDue(j)
    \/ \E r \in Runs, a \in Actions, v \in {"approved", "rejected"} :
         \E i \in 1 .. Len(approvals[r][a]) : Decide(r, a, i, v)
    \/ Crash

Spec == Init /\ [][Next]_vars

(***************************************************************************)
(* Fairness.  A goroutine that can run does run: the statements are local  *)
(* SQLite writes, and the model client has a five-minute timeout, so every *)
(* turn is answered or fails.  A delay passes.  Nothing makes a trigger    *)
(* fire, a person decide, a statement fail or the process stop.            *)
(***************************************************************************)
FairSpec ==
    /\ Spec
    /\ \A l \in Loops : WF_vars(Loop(l))
    /\ \A w \in Workers : WF_vars(Worker(w))
    /\ \A j \in Runs : WF_vars(BecomeDue(j))

-----------------------------------------------------------------------------
(* Properties                                                              *)

\* The variables range over the values the code stores in them.
JobsTypeOK ==
    /\ jobStatus \in [Runs -> JobStatuses]
    /\ attempts \in [Runs -> 0 .. MaxAttempts - 1]
    /\ due \in [Runs -> BOOLEAN]

RunsTypeOK ==
    /\ runStatus \in [Runs -> RunStatuses]
    /\ runCall \in [Runs -> Calls \cup {NoCall}]
    /\ notified \in SUBSET Runs
    /\ approvals \in [Runs -> [Actions -> Seq(ApprovalStatuses)]]

LoopsTypeOK ==
    /\ loopPc \in [Loops -> {"idle", "checked", "created"}]
    /\ loopCall \in [Loops -> Calls \cup {NoCall}]
    /\ loopRun \in [Loops -> Runs \cup {NoRun}]

WorkersTypeOK ==
    /\ pc \in [Workers -> WorkerPcs]
    /\ job \in [Workers -> Runs \cup {NoRun}]
    /\ tries \in [Workers -> 0 .. MaxAttempts - 1]
    /\ batch \in [Workers -> SUBSET Runs]
    /\ steps \in [Workers -> 0 .. MaxSteps]
    /\ calls \in [Workers -> Seq(Actions)]

TypeOK ==
    /\ JobsTypeOK
    /\ RunsTypeOK
    /\ LoopsTypeOK
    /\ WorkersTypeOK
    /\ faults \in 0 .. MaxFaults
    /\ crashes \in 0 .. MaxCrashes

InLoop(w) == pc[w] \in LoopPcs

\* While a worker drives the tool loop of a run, the run is 'running' and its
\* job is 'running': no other worker, retry, decision or trigger moves either
\* row under it, although every write but StartRun's and Claim's is
\* unconditional.
LoopOwnsItsRun ==
    \A w \in Workers : InLoop(w) =>
        runStatus[job[w]] = "running" /\ jobStatus[job[w]] = "running"

\* Two workers never drive tool loops for the same task: neither for one run
\* (a job listed by both, a job retried while it is worked on) nor for two
\* runs of the task (EnqueueRun's count and insert are separate statements).
OneWorkerPerTask ==
    \A v, w \in Workers :
        /\ v # w /\ InLoop(v) /\ InLoop(w)
        => /\ job[v] # job[w]
           /\ runCall[job[v]].task # NoTask => runCall[job[v]].task # runCall[job[w]].task

\* The per-task cap of EnqueueRun: a task has at most one active run.
OneActiveRunPerTask ==
    \A r, s \in Runs :
        /\ r # s /\ Active(r) /\ Active(s)
        /\ runCall[r].task # NoTask
        => runCall[r].task # runCall[s].task

\* The per-project cap as far as it goes: one loop never has two active runs
\* in a project.  Runs of two loops may overlap.
OverlapOnlyBetweenLoops ==
    \A r, s \in Runs :
        /\ r # s /\ Active(r) /\ Active(s)
        /\ runCall[r].project # NoProject
        /\ runCall[r].project = runCall[s].project
        => runCall[r].loop # runCall[s].loop

\* When a gated action executes, an approval for this run and action is still
\* in force, although the gate read it in an earlier transaction.
ApprovalStillInForce ==
    \A w \in Workers :
        pc[w] = "exec" /\ Policy[Head(calls[w])] # "auto"
        => /\ Policy[Head(calls[w])] = "require"
           /\ Decision(job[w], Head(calls[w])) = "approved"

HasPendingApproval(r) ==
    \E a \in Actions : \E i \in 1 .. Len(approvals[r][a]) : approvals[r][a][i] = "pending"

\* A parked run can be woken: one of its approvals is pending, so a person
\* finds it in the list of pending approvals.
ParkedRunHasPendingApproval ==
    \A r \in Runs : runStatus[r] = "awaiting_approval" => HasPendingApproval(r)

\* A run that has ended is never queued, running or parked again.
EndedRunsStayEnded ==
    [][\A r \in Runs : runStatus[r] \in {"succeeded", "failed"} =>
                        runStatus'[r] \in {"succeeded", "failed"}]_vars

\* A new run settles: it succeeds, fails or parks.  (Faults and crashes can
\* leave it 'queued' or 'running' for good.)
NewRunSettles ==
    \A r \in Runs :
        /\ runStatus[r] = "queued"
        /\ \A a \in Actions : approvals[r][a] = <<>>
        ~> runStatus[r] \in {"succeeded", "failed", "awaiting_approval"}

-----------------------------------------------------------------------------
(* What the documentation says and the code does not do.                   *)

\* "Failure: retry per policy": a job put in 'failed' with a next run_at is
\* run again, until its attempts are used up.
FailedJobIsRetried ==
    \A j \in Runs : jobStatus[j] = "failed" ~> jobStatus[j] \in {"running", "dead"}

\* "queued -> running -> (succeeded|failed|cancelled)": a succeeded run stays
\* succeeded.
SucceededRunsStay ==
    [][\A r \in Runs : runStatus[r] = "succeeded" => runStatus'[r] = "succeeded"]_vars

\* "ErrApprovalPending -> persist state, set run awaiting_approval, stop": a
\* run that asked for an approval does not end without it.
RunWaitsForItsApproval ==
    \A r \in Runs : runStatus[r] = "succeeded" => ~ HasPendingApproval(r)

-----------------------------------------------------------------------------
(* The inductive invariant behind the safety properties.                   *)

Busy(w) == pc[w] # "idle"

\* What a goroutine holds while it is at work.
GoroutinesOK ==
    /\ \A w \in Workers : Busy(w) => job[w] \in Runs
    /\ \A w \in Workers : pc[w] \in {"tool", "ask", "exec"} => calls[w] # <<>>
    /\ \A l \in Loops : loopPc[l] # "idle" =>
         loopCall[l] \in Calls /\ loopCall[l].loop = l
    /\ \A l \in Loops : loopPc[l] = "created" => loopRun[l] \in Runs

\* A run that exists has the columns of a call; a job's run exists.
RowsOK ==
    \A r \in Runs :
        /\ runStatus[r] # "none" => runCall[r] \in Calls
        /\ jobStatus[r] # "none" => runStatus[r] # "none"

\* Between CreateRun and EnqueueJob a loop alone knows of the run.
CreatedRunHasNoJob ==
    /\ \A l \in Loops : loopPc[l] = "created" =>
         jobStatus[loopRun[l]] = "none" /\ runStatus[loopRun[l]] # "none"
    /\ \A l, m \in Loops :
         l # m /\ loopPc[l] = "created" /\ loopPc[m] = "created" => loopRun[l] # loopRun[m]

\* A claimed job belongs to one worker, and nobody can claim it meanwhile.
ClaimIsExclusive ==
    /\ \A w \in Workers : Busy(w) => jobStatus[job[w]] \notin {"none", "queued"}
    /\ \A w \in Workers : pc[w] \in {"start"} \cup LoopPcs => jobStatus[job[w]] = "running"
    /\ \A v, w \in Workers : v # w /\ Busy(v) /\ Busy(w) => job[v] # job[w]

Ownership == RowsOK /\ CreatedRunHasNoJob /\ ClaimIsExclusive /\ LoopOwnsItsRun

\* What EnqueueRun counted stays true until it inserts the run.
CapsStillHold ==
    \A l \in Loops : loopPc[l] = "checked" =>
        \A r \in Runs : Active(r) =>
            /\ loopCall[l].task # NoTask => runCall[r].task # loopCall[l].task
            /\ loopCall[l].project # NoProject /\ runCall[r].loop = l =>
                 runCall[r].project # loopCall[l].project

Caps == CapsStillHold /\ OneActiveRunPerTask /\ OverlapOnlyBetweenLoops

ParkingRunHasPendingApproval ==
    \A w \in Workers : pc[w] = "park" => HasPendingApproval(job[w])

Approvals ==
    ApprovalStillInForce /\ ParkingRunHasPendingApproval /\ ParkedRunHasPendingApproval
=============================================================================
