--------------------------- MODULE AgentRunsProofs ---------------------------
(***************************************************************************)
(* Proofs that the safety properties of AgentRuns hold for any number of   *)
(* workers, runs, loops and call sites, any approval policy, and any       *)
(* number of database errors and crashes.                                  *)
(***************************************************************************)
EXTENDS AgentRuns, SequenceTheorems, TLAPS

\* The rest of a turn's tool calls: what NextCall leaves in calls.
LEMMA TailOfSeq ==
    ASSUME NEW S, NEW s \in Seq(S), s # <<>>
    PROVE  /\ Tail(s) \in Seq(S)
           /\ Len(s) # 1 => Tail(s) # <<>>
           /\ Head(s) \in S
  <1>1. /\ Head(s) \in S
        /\ Tail(s) \in Seq(S)
        /\ Len(Tail(s)) = Len(s) - 1
    BY HeadTailProperties
  <1>2. Len(s) \in Nat
    BY LenProperties
  <1>3. Len(<<>>) = 0
    BY EmptySeq
  <1> QED
    BY <1>1, <1>2, <1>3

\* The tool calls of a model turn are a sequence of actions.
LEMMA BoundedSeqIsSeq ==
    ASSUME NEW S, NEW n \in Nat, NEW s \in BoundedSeq(S, n)
    PROVE  s \in Seq(S)
  BY DEF BoundedSeq, SeqOf

TypesAndGoroutines == TypeOK /\ GoroutinesOK

\* The types hold initially.
LEMMA InitTypes == Init => TypesAndGoroutines
  BY CallsAssumption, PolicyAssumption, BoundsAssumption
     DEF Init, TypesAndGoroutines, TypeOK, JobsTypeOK, RunsTypeOK, LoopsTypeOK, WorkersTypeOK,
         GoroutinesOK, Busy, JobStatuses, RunStatuses,
         WorkerPcs, LoopPcs

\* The attempts a retry stores stay below the maximum.
LEMMA RetryCount ==
    ASSUME WorkersTypeOK, NEW w \in Workers, AttemptsLeft(w)
    PROVE  tries[w] + 1 \in 0 .. MaxAttempts - 1
  BY BoundsAssumption DEF WorkersTypeOK, AttemptsLeft

\* A new status of one run keeps the types of the rows.
LEMMA RunStatusTypes ==
    ASSUME RunsTypeOK, NEW r, NEW st \in RunStatuses,
           \/ runStatus' = runStatus
           \/ runStatus' = [runStatus EXCEPT ![r] = st],
           runCall' = runCall, approvals' = approvals, notified' \in SUBSET Runs
    PROVE  RunsTypeOK'
  BY DEF RunsTypeOK

\* New rows for one run and action keep the type of the approvals.
LEMMA ApprovalRowTypes ==
    ASSUME NEW table \in [Runs -> [Actions -> Seq(ApprovalStatuses)]],
           NEW r \in Runs, NEW a \in Actions, NEW rows \in Seq(ApprovalStatuses)
    PROVE  [table EXCEPT ![r][a] = rows] \in [Runs -> [Actions -> Seq(ApprovalStatuses)]]
  OBVIOUS

\* Moving on to the next tool call keeps the worker's types.
LEMMA NextCallTypes ==
    ASSUME TypesAndGoroutines, NEW w \in Workers, pc[w] \in {"tool", "ask", "exec"}, NextCall(w)
    PROVE  /\ pc' \in [Workers -> WorkerPcs]
           /\ calls' \in [Workers -> Seq(Actions)]
           /\ \A x \in Workers : pc'[x] \in {"tool", "ask", "exec"} => calls'[x] # <<>>
  <1> USE DEF TypesAndGoroutines, TypeOK, WorkersTypeOK, GoroutinesOK, NextCall, Goto
  <1>1. calls[w] \in Seq(Actions) /\ calls[w] # <<>>
    OBVIOUS
  <1>2. /\ Tail(calls[w]) \in Seq(Actions)
        /\ Len(calls[w]) # 1 => Tail(calls[w]) # <<>>
    BY <1>1, TailOfSeq
  <1>3. pc' \in [Workers -> WorkerPcs]
    BY DEF WorkerPcs, LoopPcs
  <1>4. calls' \in [Workers -> Seq(Actions)]
    BY <1>2
  <1>5. ASSUME NEW x \in Workers, pc'[x] \in {"tool", "ask", "exec"}
        PROVE  calls'[x] # <<>>
    <2>1. CASE x = w
      BY <1>2, <1>5, <2>1
    <2>2. CASE x # w
      BY <1>5, <2>2
    <2> QED
      BY <2>1, <2>2
  <1> QED
    BY <1>3, <1>4, <1>5

\* Every step keeps the types.
LEMMA NextTypes == TypesAndGoroutines /\ [Next]_vars => TypesAndGoroutines'
  <1> SUFFICES ASSUME TypesAndGoroutines, [Next]_vars
               PROVE  TypesAndGoroutines'
    OBVIOUS
  <1> USE DEF TypesAndGoroutines, TypeOK, GoroutinesOK, Goto, jobVars, runVars, loopVars,
              workerVars, claimVars, toolVars
  <1>1. ASSUME NEW c \in Calls, EnqueueCheck(c)
        PROVE  TypesAndGoroutines'
    <2>1. LoopsTypeOK'
      BY <1>1 DEF EnqueueCheck, LoopsTypeOK
    <2>2. GoroutinesOK'
      BY <1>1, CallsAssumption DEF EnqueueCheck, Busy, WorkersTypeOK, LoopsTypeOK
    <2> QED
      BY <1>1, <2>1, <2>2 DEF EnqueueCheck, JobsTypeOK, RunsTypeOK, WorkersTypeOK
  <1>2. ASSUME NEW l \in Loops, CreateRun(l)
        PROVE  TypesAndGoroutines'
    <2>1. RunsTypeOK'
      <3>1. runStatus' \in [Runs -> RunStatuses]
        BY <1>2 DEF CreateRun, ReleaseLoop, RunsTypeOK, RunStatuses
      <3>2. runCall' \in [Runs -> Calls \cup {NoCall}]
        BY <1>2 DEF CreateRun, ReleaseLoop, RunsTypeOK, LoopsTypeOK
      <3> QED
        BY <1>2, <3>1, <3>2 DEF CreateRun, ReleaseLoop, RunsTypeOK
    <2>2. LoopsTypeOK'
      <3>1. \/ ReleaseLoop(l)
            \/ \E r \in Runs : /\ loopPc' = [loopPc EXCEPT ![l] = "created"]
                               /\ loopRun' = [loopRun EXCEPT ![l] = r]
                               /\ loopCall' = loopCall
        BY <1>2 DEF CreateRun
      <3> QED
        BY <3>1 DEF ReleaseLoop, LoopsTypeOK
    <2>3. faults' \in 0 .. MaxFaults
      BY <1>2, BoundsAssumption DEF CreateRun, ReleaseLoop, Fault
    <2>4. GoroutinesOK'
      <3>1. UNCHANGED <<pc, job, calls>>
        BY <1>2 DEF CreateRun
      <3>2. \/ ReleaseLoop(l)
            \/ \E r \in Runs : /\ loopPc[l] = "checked"
                               /\ loopPc' = [loopPc EXCEPT ![l] = "created"]
                               /\ loopRun' = [loopRun EXCEPT ![l] = r]
                               /\ loopCall' = loopCall
        BY <1>2 DEF CreateRun
      <3>3. \A m \in Loops : loopPc'[m] # "idle" =>
              loopCall'[m] \in Calls /\ loopCall'[m].loop = m
        BY <3>2 DEF ReleaseLoop, LoopsTypeOK
      <3>4. \A m \in Loops : loopPc'[m] = "created" => loopRun'[m] \in Runs
        BY <3>2 DEF ReleaseLoop, LoopsTypeOK
      <3> QED
        BY <3>1, <3>3, <3>4 DEF Busy
    <2> QED
      BY <1>2, <2>1, <2>2, <2>3, <2>4 DEF CreateRun, ReleaseLoop, JobsTypeOK, WorkersTypeOK
  <1>3. ASSUME NEW l \in Loops, EnqueueJob(l)
        PROVE  TypesAndGoroutines'
    <2>1. JobsTypeOK'
      <3>1. jobStatus' \in [Runs -> JobStatuses]
        BY <1>3 DEF EnqueueJob, ReleaseLoop, JobsTypeOK, JobStatuses
      <3>2. attempts' \in [Runs -> 0 .. MaxAttempts - 1]
        BY <1>3, BoundsAssumption DEF EnqueueJob, ReleaseLoop, JobsTypeOK
      <3>3. due' \in [Runs -> BOOLEAN]
        BY <1>3 DEF EnqueueJob, ReleaseLoop, JobsTypeOK
      <3> QED
        BY <1>3, <3>1, <3>2, <3>3 DEF EnqueueJob, ReleaseLoop, JobsTypeOK
    <2>2. LoopsTypeOK'
      BY <1>3 DEF EnqueueJob, ReleaseLoop, LoopsTypeOK
    <2>3. faults' \in 0 .. MaxFaults
      BY <1>3, BoundsAssumption DEF EnqueueJob, ReleaseLoop, Fault
    <2>4. GoroutinesOK'
      BY <1>3 DEF EnqueueJob, ReleaseLoop, Busy, WorkersTypeOK, LoopsTypeOK
    <2> QED
      BY <1>3, <2>1, <2>2, <2>3, <2>4 DEF EnqueueJob, ReleaseLoop, RunsTypeOK, WorkersTypeOK
  <1>4. ASSUME NEW w \in Workers, Poll(w)
        PROVE  TypesAndGoroutines'
    <2>1. WorkersTypeOK'
      BY <1>4 DEF Poll, ListQueued, WorkersTypeOK, WorkerPcs, LoopPcs
    <2>2. GoroutinesOK'
      BY <1>4 DEF Poll, ListQueued, Busy, WorkersTypeOK, LoopsTypeOK
    <2> QED
      BY <1>4, <2>1, <2>2 DEF Poll, ListQueued, JobsTypeOK, RunsTypeOK, LoopsTypeOK
  <1>5. ASSUME NEW w \in Workers, NEW j \in Runs, Claim(w, j)
        PROVE  TypesAndGoroutines'
    <2>1. JobsTypeOK'
      BY <1>5, BoundsAssumption DEF Claim, JobsTypeOK, WorkersTypeOK, JobStatuses
    <2>2. WorkersTypeOK'
      <3>1. pc' \in [Workers -> WorkerPcs]
        <4>1. pc' = pc \/ Goto(w, "start")
          BY <1>5 DEF Claim
        <4> QED
          BY <4>1 DEF WorkersTypeOK, WorkerPcs
      <3>2. job' \in [Workers -> Runs \cup {NoRun}]
        BY <1>5 DEF Claim, WorkersTypeOK
      <3>3. tries' \in [Workers -> 0 .. MaxAttempts - 1]
        <4>1. tries' = tries \/ tries' = [tries EXCEPT ![w] = attempts[j]]
          BY <1>5 DEF Claim
        <4>2. /\ tries \in [Workers -> 0 .. MaxAttempts - 1]
              /\ attempts[j] \in 0 .. MaxAttempts - 1
          BY DEF WorkersTypeOK, JobsTypeOK
        <4> QED
          BY <4>1, <4>2
      <3>4. batch' \in [Workers -> SUBSET Runs]
        BY <1>5 DEF Claim, WorkersTypeOK
      <3> QED
        BY <1>5, <3>1, <3>2, <3>3, <3>4 DEF Claim, WorkersTypeOK
    <2>3. GoroutinesOK'
      <3>1. \/ UNCHANGED <<pc, job>>
            \/ pc' = [pc EXCEPT ![w] = "start"] /\ job' = [job EXCEPT ![w] = j]
        BY <1>5 DEF Claim
      <3>2. UNCHANGED <<calls, loopPc, loopCall, loopRun>>
        BY <1>5 DEF Claim
      <3>3. \A x \in Workers : Busy(x)' => job'[x] \in Runs
        BY <3>1 DEF Busy, WorkersTypeOK
      <3>4. \A x \in Workers : pc'[x] \in {"tool", "ask", "exec"} => calls'[x] # <<>>
        BY <3>1, <3>2 DEF WorkersTypeOK
      <3> QED
        BY <3>2, <3>3, <3>4
    <2>4. faults' \in 0 .. MaxFaults
      BY <1>5, BoundsAssumption DEF Claim, Fault
    <2> QED
      BY <1>5, <2>1, <2>2, <2>3, <2>4 DEF Claim, RunsTypeOK, LoopsTypeOK
  <1>6. ASSUME NEW w \in Workers, PoolComplete(w)
        PROVE  TypesAndGoroutines'
    <2>1. JobsTypeOK'
      <3>1. /\ \/ jobStatus' = jobStatus
               \/ jobStatus' = [jobStatus EXCEPT ![job[w]] = "succeeded"]
            /\ attempts' = attempts /\ due' = due
        BY <1>6 DEF PoolComplete
      <3> QED
        BY <3>1 DEF JobsTypeOK, JobStatuses
    <2>2. WorkersTypeOK'
      BY <1>6, BoundsAssumption DEF PoolComplete, Release, WorkersTypeOK, WorkerPcs, LoopPcs
    <2>3. faults' \in 0 .. MaxFaults
      BY <1>6, BoundsAssumption DEF PoolComplete, Release, Fault
    <2>4. GoroutinesOK'
      BY <1>6 DEF PoolComplete, Release, Busy, WorkersTypeOK, LoopsTypeOK
    <2> QED
      BY <1>6, <2>1, <2>2, <2>3, <2>4 DEF PoolComplete, Release, RunsTypeOK, LoopsTypeOK
  <1>7. ASSUME NEW w \in Workers, PoolFail(w)
        PROVE  TypesAndGoroutines'
    <2>1. JobsTypeOK'
      <3>1. jobStatus' \in [Runs -> JobStatuses]
        BY <1>7 DEF PoolFail, Release, JobsTypeOK, JobStatuses
      <3>2. attempts' \in [Runs -> 0 .. MaxAttempts - 1]
        BY <1>7, RetryCount DEF PoolFail, Release, JobsTypeOK
      <3>3. due' \in [Runs -> BOOLEAN]
        BY <1>7 DEF PoolFail, Release, JobsTypeOK
      <3> QED
        BY <1>7, <3>1, <3>2, <3>3 DEF PoolFail, Release, JobsTypeOK
    <2>2. WorkersTypeOK'
      BY <1>7, BoundsAssumption DEF PoolFail, Release, WorkersTypeOK, WorkerPcs, LoopPcs
    <2>3. faults' \in 0 .. MaxFaults
      BY <1>7, BoundsAssumption DEF PoolFail, Release, Fault
    <2>4. GoroutinesOK'
      BY <1>7 DEF PoolFail, Release, Busy, WorkersTypeOK, LoopsTypeOK
    <2> QED
      BY <1>7, <2>1, <2>2, <2>3, <2>4 DEF PoolFail, Release, RunsTypeOK, LoopsTypeOK
  <1>8. ASSUME NEW w \in Workers, StartRun(w)
        PROVE  TypesAndGoroutines'
    <2>1. RunsTypeOK'
      <3>1. /\ \/ runStatus' = runStatus
               \/ runStatus' = [runStatus EXCEPT ![job[w]] = "running"]
            /\ runCall' = runCall /\ approvals' = approvals /\ notified' = notified
        BY <1>8 DEF StartRun
      <3>2. "running" \in RunStatuses /\ RunsTypeOK /\ notified \in SUBSET Runs
        BY DEF RunStatuses, RunsTypeOK
      <3> QED
        BY <3>1, <3>2, RunStatusTypes
    <2>2. WorkersTypeOK'
      <3>1. pc' \in [Workers -> WorkerPcs]
        <4>1. \E x \in {"model", "failjob", "herr"} : Goto(w, x)
          BY <1>8 DEF StartRun
        <4> QED
          BY <4>1 DEF WorkersTypeOK, WorkerPcs, LoopPcs
      <3>2. steps' \in [Workers -> 0 .. MaxSteps]
        <4>1. steps' = steps \/ steps' = [steps EXCEPT ![w] = 0]
          BY <1>8 DEF StartRun
        <4>2. 0 \in 0 .. MaxSteps
          BY BoundsAssumption
        <4>3. steps \in [Workers -> 0 .. MaxSteps]
          BY TypesAndGoroutines DEF WorkersTypeOK
        <4> QED
          BY <4>1, <4>2, <4>3
      <3> QED
        BY <1>8, <3>1, <3>2 DEF StartRun, WorkersTypeOK
    <2>3. faults' \in 0 .. MaxFaults
      BY <1>8, BoundsAssumption DEF StartRun, Fault
    <2>4. GoroutinesOK'
      BY <1>8 DEF StartRun, Busy, WorkersTypeOK, LoopsTypeOK
    <2> QED
      BY <1>8, <2>1, <2>2, <2>3, <2>4 DEF StartRun, JobsTypeOK, LoopsTypeOK
  <1>9. ASSUME NEW w \in Workers, ModelTurn(w)
        PROVE  TypesAndGoroutines'
    <2>1. WorkersTypeOK'
      <3>1. pc' \in [Workers -> WorkerPcs]
        <4>1. \E x \in {"finish", "failjob", "tool"} : Goto(w, x)
          BY <1>9 DEF ModelTurn
        <4> QED
          BY <4>1 DEF WorkersTypeOK, WorkerPcs, LoopPcs
      <3>2. steps' \in [Workers -> 0 .. MaxSteps]
        <4>1. steps \in [Workers -> 0 .. MaxSteps]
          BY TypesAndGoroutines DEF WorkersTypeOK
        <4>2. \/ steps' = steps
              \/ ~ (steps[w] >= MaxSteps) /\ steps' = [steps EXCEPT ![w] = steps[w] + 1]
          BY <1>9 DEF ModelTurn
        <4>3. ~ (steps[w] >= MaxSteps) => steps[w] + 1 \in 0 .. MaxSteps
          BY <4>1, BoundsAssumption
        <4> QED
          BY <4>1, <4>2, <4>3
      <3>3. calls' \in [Workers -> Seq(Actions)]
        <4>1. \/ calls' = calls
              \/ \E cs \in BoundedSeq(Actions, MaxCalls) : calls' = [calls EXCEPT ![w] = cs]
          BY <1>9 DEF ModelTurn
        <4>2. \A cs \in BoundedSeq(Actions, MaxCalls) : cs \in Seq(Actions)
          BY BoundsAssumption, BoundedSeqIsSeq
        <4>3. calls \in [Workers -> Seq(Actions)]
          BY DEF WorkersTypeOK
        <4> QED
          BY <4>1, <4>2, <4>3
      <3> QED
        BY <1>9, <3>1, <3>2, <3>3 DEF ModelTurn, WorkersTypeOK
    <2>2. GoroutinesOK'
      <3>1. UNCHANGED <<job, loopPc, loopCall, loopRun>> /\ Busy(w)
        BY <1>9 DEF ModelTurn, Busy
      <3>2. \/ \E x \in {"finish", "failjob"} : pc' = [pc EXCEPT ![w] = x] /\ calls' = calls
            \/ \E cs \in BoundedSeq(Actions, MaxCalls) :
                 /\ calls' = [calls EXCEPT ![w] = cs]
                 /\ pc' = [pc EXCEPT ![w] = IF cs = <<>> THEN "finish" ELSE "tool"]
        BY <1>9 DEF ModelTurn
      <3>3. \A x \in Workers : Busy(x)' => Busy(x)
        BY <3>1, <3>2 DEF Busy, WorkersTypeOK
      <3>4. \A x \in Workers : pc'[x] \in {"tool", "ask", "exec"} => calls'[x] # <<>>
        BY <3>2 DEF WorkersTypeOK
      <3> QED
        BY <3>1, <3>3, <3>4
    <2> QED
      BY <1>9, <2>1, <2>2 DEF ModelTurn, JobsTypeOK, RunsTypeOK, LoopsTypeOK
  <1>10. ASSUME NEW w \in Workers, ToolRefused(w)
        PROVE  TypesAndGoroutines'
    <2>1. WorkersTypeOK'
      BY <1>10, TailOfSeq DEF ToolRefused, NextCall, WorkersTypeOK, WorkerPcs, LoopPcs
    <2>2. GoroutinesOK'
      BY <1>10, TailOfSeq DEF ToolRefused, NextCall, Busy, WorkersTypeOK, LoopsTypeOK
    <2> QED
      BY <1>10, <2>1, <2>2 DEF ToolRefused, NextCall, JobsTypeOK, RunsTypeOK, LoopsTypeOK
  <1>11. ASSUME NEW w \in Workers, ToolProceeds(w)
        PROVE  TypesAndGoroutines'
    <2>1. WorkersTypeOK'
      BY <1>11 DEF ToolProceeds, WorkersTypeOK, WorkerPcs, LoopPcs
    <2>2. GoroutinesOK'
      BY <1>11 DEF ToolProceeds, Busy, WorkersTypeOK, LoopsTypeOK
    <2> QED
      BY <1>11, <2>1, <2>2 DEF ToolProceeds, JobsTypeOK, RunsTypeOK, LoopsTypeOK
  <1>12. ASSUME NEW w \in Workers, ToolNeedsApproval(w)
        PROVE  TypesAndGoroutines'
    <2>1. WorkersTypeOK'
      BY <1>12 DEF ToolNeedsApproval, WorkersTypeOK, WorkerPcs, LoopPcs
    <2>2. GoroutinesOK'
      BY <1>12 DEF ToolNeedsApproval, Busy, WorkersTypeOK, LoopsTypeOK
    <2>3. faults' \in 0 .. MaxFaults
      BY <1>12, BoundsAssumption DEF ToolNeedsApproval, Fault
    <2> QED
      BY <1>12, <2>1, <2>2, <2>3 DEF ToolNeedsApproval, JobsTypeOK, RunsTypeOK, LoopsTypeOK
  <1>13. ASSUME NEW w \in Workers, RequestApproval(w)
        PROVE  TypesAndGoroutines'
    <2>1. pc[w] = "ask" /\ job[w] \in Runs /\ Head(calls[w]) \in Actions
      BY <1>13, TailOfSeq DEF RequestApproval, WorkersTypeOK, Busy
    <2>2. RunsTypeOK'
      <3>1. /\ \/ approvals' = approvals
               \/ approvals' = [approvals EXCEPT ![job[w]][Head(calls[w])] = Append(@, "pending")]
            /\ runStatus' = runStatus /\ runCall' = runCall /\ notified' = notified
        BY <1>13 DEF RequestApproval
      <3>2. approvals' \in [Runs -> [Actions -> Seq(ApprovalStatuses)]]
        <4>1. approvals \in [Runs -> [Actions -> Seq(ApprovalStatuses)]]
          BY DEF RunsTypeOK
        <4> DEFINE rows == Append(approvals[job[w]][Head(calls[w])], "pending")
        <4>2. rows \in Seq(ApprovalStatuses)
          BY <2>1, <4>1, AppendProperties DEF ApprovalStatuses
        <4>3. [approvals EXCEPT ![job[w]][Head(calls[w])] = rows]
                \in [Runs -> [Actions -> Seq(ApprovalStatuses)]]
          <5> HIDE DEF rows
          <5> QED
            BY <2>1, <4>1, <4>2, ApprovalRowTypes
        <4> QED
          BY <3>1, <4>1, <4>3
      <3> QED
        BY <3>1, <3>2 DEF RunsTypeOK
    <2>3. \/ Goto(w, "park") /\ UNCHANGED calls
          \/ NextCall(w)
      BY <1>13 DEF RequestApproval
    <2>4. UNCHANGED <<job, tries, batch, steps, jobVars, loopVars, crashes>>
      BY <1>13 DEF RequestApproval
    <2>5. /\ pc' \in [Workers -> WorkerPcs]
          /\ calls' \in [Workers -> Seq(Actions)]
          /\ \A x \in Workers : pc'[x] \in {"tool", "ask", "exec"} => calls'[x] # <<>>
      BY <2>1, <2>3, NextCallTypes DEF WorkersTypeOK, WorkerPcs, LoopPcs
    <2>6. WorkersTypeOK'
      BY <2>4, <2>5 DEF WorkersTypeOK
    <2>7. faults' \in 0 .. MaxFaults
      BY <1>13, BoundsAssumption DEF RequestApproval, Fault
    <2>8. \A x \in Workers : Busy(x)' => Busy(x)
      BY <2>1, <2>3 DEF NextCall, Busy, WorkersTypeOK
    <2>9. GoroutinesOK'
      BY <2>4, <2>5, <2>8
    <2> QED
      BY <2>2, <2>4, <2>6, <2>7, <2>9 DEF JobsTypeOK, LoopsTypeOK
  <1>14. ASSUME NEW w \in Workers, ToolExecutes(w)
        PROVE  TypesAndGoroutines'
    <2>1. WorkersTypeOK'
      BY <1>14, TailOfSeq DEF ToolExecutes, NextCall, WorkersTypeOK, WorkerPcs, LoopPcs
    <2>2. GoroutinesOK'
      BY <1>14, TailOfSeq DEF ToolExecutes, NextCall, Busy, WorkersTypeOK, LoopsTypeOK
    <2> QED
      BY <1>14, <2>1, <2>2 DEF ToolExecutes, NextCall, JobsTypeOK, RunsTypeOK, LoopsTypeOK
  <1>15. ASSUME NEW w \in Workers, ParkRun(w) \/ FinishRun(w)
        PROVE  TypesAndGoroutines'
    <2>1. RunsTypeOK'
      <3>1. /\ \E st \in {"awaiting_approval", "succeeded"} :
                  \/ runStatus' = runStatus
                  \/ runStatus' = [runStatus EXCEPT ![job[w]] = st]
            /\ runCall' = runCall /\ approvals' = approvals /\ notified' = notified
        BY <1>15 DEF ParkRun, FinishRun, EndLoop
      <3>2. /\ {"awaiting_approval", "succeeded"} \subseteq RunStatuses
            /\ RunsTypeOK /\ notified \in SUBSET Runs
        BY DEF RunStatuses, RunsTypeOK
      <3> QED
        BY <3>1, <3>2, RunStatusTypes
    <2>2. WorkersTypeOK'
      BY <1>15 DEF ParkRun, FinishRun, EndLoop, WorkersTypeOK, WorkerPcs, LoopPcs
    <2>3. faults' \in 0 .. MaxFaults
      BY <1>15, BoundsAssumption DEF ParkRun, FinishRun, EndLoop, Fault
    <2>4. GoroutinesOK'
      BY <1>15 DEF ParkRun, FinishRun, EndLoop, Busy, WorkersTypeOK, LoopsTypeOK
    <2> QED
      BY <1>15, <2>1, <2>2, <2>3, <2>4 DEF ParkRun, FinishRun, EndLoop, JobsTypeOK, LoopsTypeOK
  <1>16. ASSUME NEW w \in Workers, HandlerComplete(w)
        PROVE  TypesAndGoroutines'
    <2>1. JobsTypeOK'
      BY <1>16, BoundsAssumption DEF HandlerComplete, JobsTypeOK, WorkersTypeOK, JobStatuses
    <2>2. WorkersTypeOK'
      BY <1>16 DEF HandlerComplete, WorkersTypeOK, WorkerPcs, LoopPcs
    <2>3. faults' \in 0 .. MaxFaults
      BY <1>16, BoundsAssumption DEF HandlerComplete, Fault
    <2>4. GoroutinesOK'
      BY <1>16 DEF HandlerComplete, Busy, WorkersTypeOK, LoopsTypeOK
    <2> QED
      BY <1>16, <2>1, <2>2, <2>3, <2>4 DEF HandlerComplete, RunsTypeOK, LoopsTypeOK
  <1>17. ASSUME NEW w \in Workers, FailJob(w)
        PROVE  TypesAndGoroutines'
    <2>1. JobsTypeOK'
      <3>1. jobStatus' \in [Runs -> JobStatuses]
        BY <1>17 DEF FailJob, JobsTypeOK, JobStatuses
      <3>2. attempts' \in [Runs -> 0 .. MaxAttempts - 1]
        BY <1>17, RetryCount DEF FailJob, JobsTypeOK
      <3>3. due' \in [Runs -> BOOLEAN]
        BY <1>17 DEF FailJob, JobsTypeOK
      <3> QED
        BY <1>17, <3>1, <3>2, <3>3 DEF FailJob, JobsTypeOK
    <2>2. WorkersTypeOK'
      BY <1>17 DEF FailJob, WorkersTypeOK, WorkerPcs, LoopPcs
    <2>3. faults' \in 0 .. MaxFaults
      BY <1>17, BoundsAssumption DEF FailJob, Fault
    <2>4. GoroutinesOK'
      BY <1>17 DEF FailJob, Busy, WorkersTypeOK, LoopsTypeOK
    <2> QED
      BY <1>17, <2>1, <2>2, <2>3, <2>4 DEF FailJob, RunsTypeOK, LoopsTypeOK
  <1>18. ASSUME NEW w \in Workers, FailRun(w)
        PROVE  TypesAndGoroutines'
    <2>1. RunsTypeOK'
      <3>1. /\ \/ runStatus' = runStatus
               \/ runStatus' = [runStatus EXCEPT ![job[w]] = "failed"]
            /\ runCall' = runCall /\ approvals' = approvals
            /\ notified' = notified \/ notified' = notified \cup {job[w]}
        BY <1>18 DEF FailRun
      <3>2. job[w] \in Runs
        BY <1>18 DEF FailRun, Busy
      <3>3. "failed" \in RunStatuses /\ RunsTypeOK /\ notified \in SUBSET Runs
        BY DEF RunStatuses, RunsTypeOK
      <3> QED
        BY <3>1, <3>2, <3>3, RunStatusTypes
    <2>2. WorkersTypeOK'
      BY <1>18 DEF FailRun, WorkersTypeOK, WorkerPcs, LoopPcs
    <2>3. faults' \in 0 .. MaxFaults
      BY <1>18, BoundsAssumption DEF FailRun, Fault
    <2>4. GoroutinesOK'
      BY <1>18 DEF FailRun, Busy, WorkersTypeOK, LoopsTypeOK
    <2> QED
      BY <1>18, <2>1, <2>2, <2>3, <2>4 DEF FailRun, JobsTypeOK, LoopsTypeOK
  <1>19. ASSUME NEW j \in Runs, BecomeDue(j)
        PROVE  TypesAndGoroutines'
    <2>1. JobsTypeOK'
      BY <1>19, BoundsAssumption DEF BecomeDue, JobsTypeOK, WorkersTypeOK, JobStatuses
    <2>2. GoroutinesOK'
      BY <1>19 DEF BecomeDue, Busy, WorkersTypeOK, LoopsTypeOK
    <2> QED
      BY <1>19, <2>1, <2>2 DEF BecomeDue, RunsTypeOK, LoopsTypeOK, WorkersTypeOK
  <1>20. ASSUME NEW r \in Runs, NEW a \in Actions, NEW i \in 1 .. Len(approvals[r][a]),
                NEW v \in {"approved", "rejected"}, Decide(r, a, i, v)
        PROVE  TypesAndGoroutines'
    <2>1. RunsTypeOK'
      BY <1>20, ExceptSeq
         DEF Decide, RunsTypeOK, RunStatuses, LoopsTypeOK, WorkersTypeOK, Busy, ApprovalStatuses
    <2>2. GoroutinesOK'
      BY <1>20 DEF Decide, Busy, WorkersTypeOK, LoopsTypeOK
    <2> QED
      BY <1>20, <2>1, <2>2 DEF Decide, JobsTypeOK, LoopsTypeOK, WorkersTypeOK
  <1>21. ASSUME Crash
        PROVE  TypesAndGoroutines'
    <2>1. LoopsTypeOK'
      BY <1>21 DEF Crash, LoopsTypeOK
    <2>2. WorkersTypeOK'
      BY <1>21, BoundsAssumption DEF Crash, WorkersTypeOK, WorkerPcs, LoopPcs
    <2>3. crashes' \in 0 .. MaxCrashes
      BY <1>21, BoundsAssumption DEF Crash
    <2>4. GoroutinesOK'
      BY <1>21 DEF Crash, Busy, WorkersTypeOK, LoopsTypeOK
    <2> QED
      BY <1>21, <2>1, <2>2, <2>3, <2>4 DEF Crash, JobsTypeOK, RunsTypeOK
  <1>22. CASE UNCHANGED vars
    BY <1>22 DEF vars, JobsTypeOK, RunsTypeOK, LoopsTypeOK, WorkersTypeOK, Busy
  <1> QED
    BY <1>1, <1>2, <1>3, <1>4, <1>5, <1>6, <1>7, <1>8, <1>9, <1>10, <1>11,
       <1>12, <1>13, <1>14, <1>15, <1>16, <1>17, <1>18, <1>19, <1>20, <1>21, <1>22
       DEF Next, Loop, Worker, Tool

\* A step that claims nothing leaves every busy worker with a job of its own.
LEMMA NoNewClaim ==
    ASSUME ClaimIsExclusive, job' = job,
           \A x \in Workers : Busy(x)' => Busy(x)
    PROVE  \A x, y \in Workers : x # y /\ Busy(x)' /\ Busy(y)' => job'[x] # job'[y]
  BY DEF ClaimIsExclusive

\* A worker that is not, or no longer, in a tool loop may change the rows of
\* its job: it disturbs no other worker.
LEMMA OthersUndisturbed ==
    ASSUME TypesAndGoroutines, Ownership, NEW w \in Workers, Busy(w),
           \A x \in Workers \ {w} : pc'[x] = pc[x] /\ job'[x] = job[x],
           \A r \in Runs \ {job[w]} : jobStatus'[r] = jobStatus[r] /\ runStatus'[r] = runStatus[r],
           pc'[w] \notin {"start"} \cup LoopPcs,
           pc'[w] # "idle" => job'[w] = job[w] /\ jobStatus'[job[w]] \notin {"none", "queued"}
    PROVE  ClaimIsExclusive' /\ LoopOwnsItsRun'
  <1>1. \A x \in Workers \ {w} : Busy(x) => job[x] \in Runs \ {job[w]}
    BY DEF TypesAndGoroutines, GoroutinesOK, Ownership, ClaimIsExclusive
  <1>2. \A x \in Workers \ {w} : Busy(x)' => Busy(x) /\ jobStatus'[job'[x]] = jobStatus[job[x]]
                                             /\ runStatus'[job'[x]] = runStatus[job[x]]
    BY <1>1 DEF Busy
  <1>3. \A x \in Workers : Busy(x)' => jobStatus'[job'[x]] \notin {"none", "queued"}
    BY <1>2 DEF Ownership, ClaimIsExclusive, Busy
  <1>4. \A x \in Workers : pc'[x] \in {"start"} \cup LoopPcs => jobStatus'[job'[x]] = "running"
    BY <1>2 DEF Ownership, ClaimIsExclusive, Busy, LoopPcs
  <1>5. \A x, y \in Workers : x # y /\ Busy(x)' /\ Busy(y)' => job'[x] # job'[y]
    BY <1>1, <1>2 DEF Ownership, ClaimIsExclusive, Busy
  <1>6. LoopOwnsItsRun'
    BY <1>2 DEF Ownership, LoopOwnsItsRun, InLoop, Busy, LoopPcs
  <1> QED
    BY <1>3, <1>4, <1>5, <1>6 DEF ClaimIsExclusive

\* Every step keeps a claimed job and its run with one worker.
LEMMA NextOwnership == TypesAndGoroutines /\ Ownership /\ [Next]_vars => Ownership'
  <1> SUFFICES ASSUME TypesAndGoroutines, Ownership, [Next]_vars
               PROVE  Ownership'
    OBVIOUS
  <1> USE DEF TypesAndGoroutines, TypeOK, JobsTypeOK, RunsTypeOK, LoopsTypeOK, WorkersTypeOK, GoroutinesOK,
              Ownership, RowsOK, CreatedRunHasNoJob, ClaimIsExclusive, LoopOwnsItsRun, InLoop, LoopPcs, Busy,
              Goto, jobVars, runVars, loopVars, workerVars, claimVars, toolVars
  <1>1. ASSUME NEW c \in Calls, EnqueueCheck(c)
        PROVE  Ownership'
    <2>1. RowsOK'
      BY <1>1 DEF EnqueueCheck
    <2>2. CreatedRunHasNoJob'
      BY <1>1 DEF EnqueueCheck
    <2>3. ClaimIsExclusive'
      BY <1>1 DEF EnqueueCheck
    <2>4. LoopOwnsItsRun'
      BY <1>1 DEF EnqueueCheck
    <2> QED
      BY <2>1, <2>2, <2>3, <2>4
  <1>2. ASSUME NEW l \in Loops, CreateRun(l)
        PROVE  Ownership'
    <2>1. CASE Fault /\ ReleaseLoop(l) /\ UNCHANGED <<runStatus, runCall>>
      <3>1. RowsOK' /\ CreatedRunHasNoJob'
        BY <1>2, <2>1 DEF CreateRun, ReleaseLoop
      <3>2. ClaimIsExclusive' /\ LoopOwnsItsRun'
        BY <1>2, <2>1 DEF CreateRun
      <3> QED
        BY <3>1, <3>2
    <2>2. ASSUME NEW r \in Runs, runStatus[r] = "none",
                 runStatus' = [runStatus EXCEPT ![r] = "queued"],
                 runCall' = [runCall EXCEPT ![r] = loopCall[l]],
                 loopRun' = [loopRun EXCEPT ![l] = r],
                 loopPc' = [loopPc EXCEPT ![l] = "created"]
          PROVE  Ownership'
      <3>1. UNCHANGED <<jobVars, workerVars>> /\ loopCall[l] \in Calls
        BY <1>2 DEF CreateRun
      <3>2. jobStatus[r] = "none"
        BY <2>2
      <3>3. \A m \in Loops : loopPc[m] = "created" => loopRun[m] # r
        BY <2>2
      <3>4. RowsOK'
        BY <2>2, <3>1, <3>2
      <3>5. CreatedRunHasNoJob'
        BY <2>2, <3>1, <3>2, <3>3
      <3>6. ClaimIsExclusive' /\ LoopOwnsItsRun'
        BY <2>2, <3>1
      <3> QED
        BY <3>4, <3>5, <3>6
    <2> QED
      BY <1>2, <2>1, <2>2 DEF CreateRun
  <1>3. ASSUME NEW l \in Loops, EnqueueJob(l)
        PROVE  Ownership'
    <2>1. RowsOK'
      BY <1>3 DEF EnqueueJob, ReleaseLoop
    <2>2. CreatedRunHasNoJob'
      BY <1>3 DEF EnqueueJob, ReleaseLoop
    <2>3. ClaimIsExclusive'
      BY <1>3 DEF EnqueueJob, ReleaseLoop
    <2>4. LoopOwnsItsRun'
      BY <1>3 DEF EnqueueJob, ReleaseLoop
    <2> QED
      BY <2>1, <2>2, <2>3, <2>4
  <1>4. ASSUME NEW w \in Workers, Poll(w)
        PROVE  Ownership'
    <2>1. RowsOK'
      BY <1>4 DEF Poll
    <2>2. CreatedRunHasNoJob'
      BY <1>4 DEF Poll
    <2>3. ClaimIsExclusive'
      BY <1>4 DEF Poll
    <2>4. LoopOwnsItsRun'
      BY <1>4 DEF Poll
    <2> QED
      BY <2>1, <2>2, <2>3, <2>4
  <1>5. ASSUME NEW w \in Workers, NEW j \in Runs, Claim(w, j)
        PROVE  Ownership'
    <2>1. CASE UNCHANGED <<jobStatus, job, pc>>
      BY <1>5, <2>1 DEF Claim
    <2>2. CASE /\ Claimable(j)
               /\ jobStatus' = [jobStatus EXCEPT ![j] = "running"]
               /\ job' = [job EXCEPT ![w] = j]
               /\ Goto(w, "start")
      <3>1. /\ jobStatus' = [jobStatus EXCEPT ![j] = "running"]
            /\ job' = [job EXCEPT ![w] = j]
            /\ pc' = [pc EXCEPT ![w] = "start"]
            /\ UNCHANGED <<runVars, loopVars>>
        BY <1>5, <2>2 DEF Claim
      <3>2. jobStatus[j] = "queued" /\ ~ Busy(w)
        BY <1>5, <2>2 DEF Claim, Claimable
      <3>3. \A x \in Workers : Busy(x) => x # w /\ job[x] # j
        BY <3>2
      <3>4. \A l \in Loops : loopPc[l] = "created" => loopRun[l] # j
        BY <3>2
      <3>5. RowsOK' /\ CreatedRunHasNoJob'
        BY <3>1, <3>2, <3>4
      <3>6. \A x \in Workers : Busy(x)' => jobStatus'[job'[x]] \notin {"none", "queued"}
        BY <3>1, <3>3
      <3>7. \A x \in Workers :
               pc'[x] \in {"start"} \cup LoopPcs => jobStatus'[job'[x]] = "running"
        BY <3>1, <3>3
      <3>8. \A x, y \in Workers : x # y /\ Busy(x)' /\ Busy(y)' => job'[x] # job'[y]
        BY <3>1, <3>3
      <3>9. LoopOwnsItsRun'
        BY <3>1, <3>3
      <3> QED
        BY <3>5, <3>6, <3>7, <3>8, <3>9
    <2> QED
      BY <1>5, <2>1, <2>2 DEF Claim
  <1>6. ASSUME NEW w \in Workers, PoolComplete(w)
        PROVE  Ownership'
    <2>1. RowsOK'
      BY <1>6 DEF PoolComplete, Release
    <2>2. CreatedRunHasNoJob'
      BY <1>6 DEF PoolComplete, Release
    <2>3. /\ Busy(w)
          /\ \A x \in Workers \ {w} : pc'[x] = pc[x] /\ job'[x] = job[x]
          /\ pc'[w] \notin {"start"} \cup LoopPcs
          /\ pc'[w] # "idle" => job'[w] = job[w]
      BY <1>6 DEF PoolComplete, Release
    <2>4. \A r \in Runs \ {job[w]} : jobStatus'[r] = jobStatus[r] /\ runStatus'[r] = runStatus[r]
      BY <1>6 DEF PoolComplete, Release
    <2>5. pc'[w] # "idle" => jobStatus'[job[w]] \notin {"none", "queued"}
      BY <1>6 DEF PoolComplete, Release
    <2>6. ClaimIsExclusive' /\ LoopOwnsItsRun'
      BY <2>3, <2>4, <2>5, OthersUndisturbed
    <2> QED
      BY <2>1, <2>2, <2>6
  <1>7. ASSUME NEW w \in Workers, PoolFail(w)
        PROVE  Ownership'
    <2>1. RowsOK'
      BY <1>7 DEF PoolFail, Release
    <2>2. CreatedRunHasNoJob'
      BY <1>7 DEF PoolFail, Release
    <2>3. /\ Busy(w)
          /\ \A x \in Workers \ {w} : pc'[x] = pc[x] /\ job'[x] = job[x]
          /\ pc'[w] \notin {"start"} \cup LoopPcs
          /\ pc'[w] # "idle" => job'[w] = job[w]
      BY <1>7 DEF PoolFail, Release
    <2>4. \A r \in Runs \ {job[w]} : jobStatus'[r] = jobStatus[r] /\ runStatus'[r] = runStatus[r]
      BY <1>7 DEF PoolFail, Release
    <2>5. pc'[w] # "idle" => jobStatus'[job[w]] \notin {"none", "queued"}
      BY <1>7 DEF PoolFail, Release
    <2>6. ClaimIsExclusive' /\ LoopOwnsItsRun'
      BY <2>3, <2>4, <2>5, OthersUndisturbed
    <2> QED
      BY <2>1, <2>2, <2>6
  <1>8. ASSUME NEW w \in Workers, StartRun(w)
        PROVE  Ownership'
    <2>1. RowsOK'
      BY <1>8 DEF StartRun
    <2>2. CreatedRunHasNoJob'
      BY <1>8 DEF StartRun
    <2>3. ClaimIsExclusive'
      <3>1. \A x \in Workers : Busy(x)' => jobStatus'[job'[x]] \notin {"none", "queued"}
        BY <1>8 DEF StartRun
      <3>2. \A x \in Workers : pc'[x] \in {"start"} \cup LoopPcs => jobStatus'[job'[x]] = "running"
        BY <1>8 DEF StartRun
      <3>3. job' = job /\ \A x \in Workers : Busy(x)' => Busy(x)
        BY <1>8 DEF StartRun
      <3> QED
        BY <3>1, <3>2, <3>3, NoNewClaim
    <2>4. LoopOwnsItsRun'
      BY <1>8 DEF StartRun
    <2> QED
      BY <2>1, <2>2, <2>3, <2>4
  <1>9. ASSUME NEW w \in Workers, ModelTurn(w)
        PROVE  Ownership'
    <2>1. RowsOK'
      BY <1>9 DEF ModelTurn
    <2>2. CreatedRunHasNoJob'
      BY <1>9 DEF ModelTurn
    <2>3. ClaimIsExclusive'
      <3>1. \A x \in Workers : Busy(x)' => jobStatus'[job'[x]] \notin {"none", "queued"}
        BY <1>9 DEF ModelTurn
      <3>2. \A x \in Workers : pc'[x] \in {"start"} \cup LoopPcs => jobStatus'[job'[x]] = "running"
        BY <1>9 DEF ModelTurn
      <3>3. job' = job /\ \A x \in Workers : Busy(x)' => Busy(x)
        BY <1>9 DEF ModelTurn
      <3> QED
        BY <3>1, <3>2, <3>3, NoNewClaim
    <2>4. LoopOwnsItsRun'
      BY <1>9 DEF ModelTurn
    <2> QED
      BY <2>1, <2>2, <2>3, <2>4
  <1>10. ASSUME NEW w \in Workers, ToolRefused(w)
        PROVE  Ownership'
    <2>1. RowsOK'
      BY <1>10 DEF ToolRefused, NextCall
    <2>2. CreatedRunHasNoJob'
      BY <1>10 DEF ToolRefused, NextCall
    <2>3. ClaimIsExclusive'
      BY <1>10 DEF ToolRefused, NextCall
    <2>4. LoopOwnsItsRun'
      BY <1>10 DEF ToolRefused, NextCall
    <2> QED
      BY <2>1, <2>2, <2>3, <2>4
  <1>11. ASSUME NEW w \in Workers, ToolProceeds(w)
        PROVE  Ownership'
    <2>1. RowsOK'
      BY <1>11 DEF ToolProceeds
    <2>2. CreatedRunHasNoJob'
      BY <1>11 DEF ToolProceeds
    <2>3. ClaimIsExclusive'
      BY <1>11 DEF ToolProceeds
    <2>4. LoopOwnsItsRun'
      BY <1>11 DEF ToolProceeds
    <2> QED
      BY <2>1, <2>2, <2>3, <2>4
  <1>12. ASSUME NEW w \in Workers, ToolNeedsApproval(w)
        PROVE  Ownership'
    <2>1. RowsOK'
      BY <1>12 DEF ToolNeedsApproval
    <2>2. CreatedRunHasNoJob'
      BY <1>12 DEF ToolNeedsApproval
    <2>3. ClaimIsExclusive'
      BY <1>12 DEF ToolNeedsApproval
    <2>4. LoopOwnsItsRun'
      BY <1>12 DEF ToolNeedsApproval
    <2> QED
      BY <2>1, <2>2, <2>3, <2>4
  <1>13. ASSUME NEW w \in Workers, RequestApproval(w)
        PROVE  Ownership'
    <2>1. RowsOK'
      BY <1>13 DEF RequestApproval, NextCall
    <2>2. CreatedRunHasNoJob'
      BY <1>13 DEF RequestApproval, NextCall
    <2>3. pc[w] = "ask" /\ UNCHANGED <<job, jobStatus, runStatus>>
      BY <1>13 DEF RequestApproval
    <2>4. \E x \in {"park", "tool", "model"} : pc' = [pc EXCEPT ![w] = x]
      BY <1>13 DEF RequestApproval, NextCall
    <2>5. \A x \in Workers : pc'[x] \in LoopPcs <=> pc[x] \in LoopPcs
      BY <2>3, <2>4
    <2>6. \A x \in Workers : /\ Busy(x)' <=> Busy(x)
                             /\ pc'[x] = "start" <=> pc[x] = "start"
      BY <2>3, <2>4
    <2>7. ClaimIsExclusive' /\ LoopOwnsItsRun'
      BY <2>3, <2>5, <2>6
    <2> QED
      BY <2>1, <2>2, <2>7
  <1>14. ASSUME NEW w \in Workers, ToolExecutes(w)
        PROVE  Ownership'
    <2>1. RowsOK'
      BY <1>14 DEF ToolExecutes, NextCall
    <2>2. CreatedRunHasNoJob'
      BY <1>14 DEF ToolExecutes, NextCall
    <2>3. ClaimIsExclusive'
      BY <1>14 DEF ToolExecutes, NextCall
    <2>4. LoopOwnsItsRun'
      BY <1>14 DEF ToolExecutes, NextCall
    <2> QED
      BY <2>1, <2>2, <2>3, <2>4
  <1>15. ASSUME NEW w \in Workers, (ParkRun(w) \/ FinishRun(w))
        PROVE  Ownership'
    <2>1. RowsOK'
      BY <1>15 DEF ParkRun, FinishRun, EndLoop
    <2>2. CreatedRunHasNoJob'
      BY <1>15 DEF ParkRun, FinishRun, EndLoop
    <2>3. /\ Busy(w)
          /\ \A x \in Workers \ {w} : pc'[x] = pc[x] /\ job'[x] = job[x]
          /\ pc'[w] \notin {"start"} \cup LoopPcs
          /\ pc'[w] # "idle" => job'[w] = job[w]
      BY <1>15 DEF ParkRun, FinishRun, EndLoop
    <2>4. \A r \in Runs \ {job[w]} : jobStatus'[r] = jobStatus[r] /\ runStatus'[r] = runStatus[r]
      BY <1>15 DEF ParkRun, FinishRun, EndLoop
    <2>5. pc'[w] # "idle" => jobStatus'[job[w]] \notin {"none", "queued"}
      BY <1>15 DEF ParkRun, FinishRun, EndLoop
    <2>6. ClaimIsExclusive' /\ LoopOwnsItsRun'
      BY <2>3, <2>4, <2>5, OthersUndisturbed
    <2> QED
      BY <2>1, <2>2, <2>6
  <1>16. ASSUME NEW w \in Workers, HandlerComplete(w)
        PROVE  Ownership'
    <2>1. RowsOK'
      BY <1>16 DEF HandlerComplete
    <2>2. CreatedRunHasNoJob'
      BY <1>16 DEF HandlerComplete
    <2>3. /\ Busy(w)
          /\ \A x \in Workers \ {w} : pc'[x] = pc[x] /\ job'[x] = job[x]
          /\ pc'[w] \notin {"start"} \cup LoopPcs
          /\ pc'[w] # "idle" => job'[w] = job[w]
      BY <1>16 DEF HandlerComplete
    <2>4. \A r \in Runs \ {job[w]} : jobStatus'[r] = jobStatus[r] /\ runStatus'[r] = runStatus[r]
      BY <1>16 DEF HandlerComplete
    <2>5. pc'[w] # "idle" => jobStatus'[job[w]] \notin {"none", "queued"}
      BY <1>16 DEF HandlerComplete
    <2>6. ClaimIsExclusive' /\ LoopOwnsItsRun'
      BY <2>3, <2>4, <2>5, OthersUndisturbed
    <2> QED
      BY <2>1, <2>2, <2>6
  <1>17. ASSUME NEW w \in Workers, FailJob(w)
        PROVE  Ownership'
    <2>1. RowsOK'
      BY <1>17 DEF FailJob
    <2>2. CreatedRunHasNoJob'
      BY <1>17 DEF FailJob
    <2>3. /\ Busy(w)
          /\ \A x \in Workers \ {w} : pc'[x] = pc[x] /\ job'[x] = job[x]
          /\ pc'[w] \notin {"start"} \cup LoopPcs
          /\ pc'[w] # "idle" => job'[w] = job[w]
      BY <1>17 DEF FailJob
    <2>4. \A r \in Runs \ {job[w]} : jobStatus'[r] = jobStatus[r] /\ runStatus'[r] = runStatus[r]
      BY <1>17 DEF FailJob
    <2>5. pc'[w] # "idle" => jobStatus'[job[w]] \notin {"none", "queued"}
      BY <1>17 DEF FailJob
    <2>6. ClaimIsExclusive' /\ LoopOwnsItsRun'
      BY <2>3, <2>4, <2>5, OthersUndisturbed
    <2> QED
      BY <2>1, <2>2, <2>6
  <1>18. ASSUME NEW w \in Workers, FailRun(w)
        PROVE  Ownership'
    <2>1. RowsOK'
      BY <1>18 DEF FailRun
    <2>2. CreatedRunHasNoJob'
      BY <1>18 DEF FailRun
    <2>3. /\ Busy(w)
          /\ \A x \in Workers \ {w} : pc'[x] = pc[x] /\ job'[x] = job[x]
          /\ pc'[w] \notin {"start"} \cup LoopPcs
          /\ pc'[w] # "idle" => job'[w] = job[w]
      BY <1>18 DEF FailRun
    <2>4. \A r \in Runs \ {job[w]} : jobStatus'[r] = jobStatus[r] /\ runStatus'[r] = runStatus[r]
      BY <1>18 DEF FailRun
    <2>5. pc'[w] # "idle" => jobStatus'[job[w]] \notin {"none", "queued"}
      BY <1>18 DEF FailRun
    <2>6. ClaimIsExclusive' /\ LoopOwnsItsRun'
      BY <2>3, <2>4, <2>5, OthersUndisturbed
    <2> QED
      BY <2>1, <2>2, <2>6
  <1>19. ASSUME NEW j \in Runs, BecomeDue(j)
        PROVE  Ownership'
    <2>1. RowsOK'
      BY <1>19 DEF BecomeDue
    <2>2. CreatedRunHasNoJob'
      BY <1>19 DEF BecomeDue
    <2>3. ClaimIsExclusive'
      BY <1>19 DEF BecomeDue
    <2>4. LoopOwnsItsRun'
      BY <1>19 DEF BecomeDue
    <2> QED
      BY <2>1, <2>2, <2>3, <2>4
  <1>20. ASSUME NEW r \in Runs, NEW a \in Actions, NEW i \in 1 .. Len(approvals[r][a]),
                NEW v \in {"approved", "rejected"}, Decide(r, a, i, v)
        PROVE  Ownership'
    <2>1. RowsOK'
      BY <1>20 DEF Decide
    <2>2. CreatedRunHasNoJob'
      BY <1>20 DEF Decide
    <2>3. ClaimIsExclusive'
      BY <1>20 DEF Decide
    <2>4. LoopOwnsItsRun'
      BY <1>20 DEF Decide
    <2> QED
      BY <2>1, <2>2, <2>3, <2>4
  <1>21. ASSUME Crash
        PROVE  Ownership'
    <2>1. RowsOK'
      BY <1>21 DEF Crash
    <2>2. CreatedRunHasNoJob'
      BY <1>21 DEF Crash
    <2>3. ClaimIsExclusive'
      BY <1>21 DEF Crash
    <2>4. LoopOwnsItsRun'
      BY <1>21 DEF Crash
    <2> QED
      BY <2>1, <2>2, <2>3, <2>4
  <1>22. CASE UNCHANGED vars
    BY <1>22 DEF vars
  <1> HIDE DEF TypesAndGoroutines, Ownership
  <1> QED
    BY <1>1, <1>2, <1>3, <1>4, <1>5, <1>6, <1>7, <1>8, <1>9, <1>10, <1>11,
       <1>12, <1>13, <1>14, <1>15, <1>16, <1>17, <1>18, <1>19, <1>20, <1>21, <1>22
       DEF Next, Loop, Worker, Tool

\* The claims hold initially.
LEMMA InitOwnership == Init => Ownership
  BY DEF Init, Ownership, RowsOK, CreatedRunHasNoJob, ClaimIsExclusive, LoopOwnsItsRun,
         InLoop, LoopPcs, Busy

-----------------------------------------------------------------------------
(* The caps of EnqueueRun.                                                 *)

\* A step that activates no run, lets no loop past the caps and changes no
\* run's columns keeps the caps.
LEMMA NoNewActiveRun ==
    ASSUME Caps, runCall' = runCall,
           \A r \in Runs : Active(r)' => Active(r),
           \A l \in Loops : loopPc'[l] = "checked" =>
               loopPc[l] = "checked" /\ loopCall'[l] = loopCall[l]
    PROVE  Caps'
  BY DEF Caps, CapsStillHold, OneActiveRunPerTask, OverlapOnlyBetweenLoops

\* The caps hold initially.
LEMMA InitCaps == Init => Caps
  BY DEF Init, Caps, CapsStillHold, OneActiveRunPerTask, OverlapOnlyBetweenLoops,
         Active, ActiveStatuses

\* Every step keeps the caps.
LEMMA NextCaps == TypesAndGoroutines /\ Ownership /\ Caps /\ [Next]_vars => Caps'
  <1> SUFFICES ASSUME TypesAndGoroutines, Ownership, Caps, [Next]_vars
               PROVE  Caps'
    OBVIOUS
  <1> USE DEF jobVars, runVars, loopVars, workerVars, claimVars, toolVars
  <1>a. /\ runStatus \in [Runs -> RunStatuses]
        /\ runCall \in [Runs -> Calls \cup {NoCall}]
        /\ loopPc \in [Loops -> {"idle", "checked", "created"}]
        /\ loopCall \in [Loops -> Calls \cup {NoCall}]
        /\ \A l \in Loops : loopPc[l] # "idle" =>
             loopCall[l] \in Calls /\ loopCall[l].loop = l
        /\ \A w \in Workers : InLoop(w) => runStatus[job[w]] = "running"
    BY DEF TypesAndGoroutines, TypeOK, RunsTypeOK, LoopsTypeOK, GoroutinesOK, Ownership,
           LoopOwnsItsRun
  <1>1. ASSUME NEW c \in Calls, EnqueueCheck(c)
        PROVE  Caps'
    <2>1. /\ loopPc[c.loop] = "idle" /\ c.loop \in Loops
          /\ loopPc' = [loopPc EXCEPT ![c.loop] = "checked"]
          /\ loopCall' = [loopCall EXCEPT ![c.loop] = c]
          /\ runStatus' = runStatus /\ runCall' = runCall
      BY <1>1, CallsAssumption DEF EnqueueCheck
    <2>2. ASSUME NEW r \in Runs, Active(r)
          PROVE  /\ c.task # NoTask => runCall[r].task # c.task
                 /\ c.project # NoProject => runCall[r].project # c.project
      BY <1>1, <2>2 DEF EnqueueCheck, WithinCaps
    <2>3. \A r \in Runs : Active(r)' <=> Active(r)
      BY <2>1 DEF Active
    <2>4. CapsStillHold'
      <3> SUFFICES ASSUME NEW l \in Loops, loopPc'[l] = "checked", NEW r \in Runs, Active(r)
                   PROVE  /\ loopCall'[l].task # NoTask => runCall[r].task # loopCall'[l].task
                          /\ loopCall'[l].project # NoProject /\ runCall[r].loop = l =>
                               runCall[r].project # loopCall'[l].project
        BY <2>1, <2>3 DEF CapsStillHold
      <3>1. CASE l = c.loop
        BY <1>a, <2>1, <2>2, <3>1
      <3>2. CASE l # c.loop
        BY <1>a, <2>1, <3>2 DEF Caps, CapsStillHold
      <3> QED
        BY <3>1, <3>2
    <2>5. OneActiveRunPerTask' /\ OverlapOnlyBetweenLoops'
      BY <2>1, <2>3 DEF Caps, OneActiveRunPerTask, OverlapOnlyBetweenLoops
    <2> QED
      BY <2>4, <2>5 DEF Caps
  <1>2. ASSUME NEW l \in Loops, CreateRun(l)
        PROVE  Caps'
    <2>1. CASE ReleaseLoop(l) /\ UNCHANGED <<runStatus, runCall>>
      <3>1. \A r \in Runs : Active(r)' => Active(r)
        BY <2>1 DEF Active
      <3>2. \A m \in Loops : loopPc'[m] = "checked" =>
              loopPc[m] = "checked" /\ loopCall'[m] = loopCall[m]
        BY <1>a, <2>1 DEF ReleaseLoop
      <3> QED
        BY <2>1, <3>1, <3>2, NoNewActiveRun
    <2>2. ASSUME NEW r \in Runs, runStatus[r] = "none",
                 runStatus' = [runStatus EXCEPT ![r] = "queued"],
                 runCall' = [runCall EXCEPT ![r] = loopCall[l]],
                 loopPc' = [loopPc EXCEPT ![l] = "created"],
                 loopCall' = loopCall
          PROVE  Caps'
      <3>1. loopPc[l] = "checked" /\ loopCall[l] \in Calls /\ loopCall[l].loop = l
        BY <1>2, <1>a DEF CreateRun
      <3>2. runCall'[r] = loopCall[l] /\ \A s \in Runs \ {r} : runCall'[s] = runCall[s]
        BY <1>a, <2>2
      <3>3. ~ Active(r) /\ \A s \in Runs \ {r} : Active(s)' => Active(s)
        BY <1>a, <2>2 DEF Active, ActiveStatuses
      <3>4. ASSUME NEW s \in Runs \ {r}, Active(s)'
            PROVE  /\ loopCall[l].task # NoTask => runCall[s].task # loopCall[l].task
                   /\ loopCall[l].project # NoProject /\ runCall[s].loop = l =>
                        runCall[s].project # loopCall[l].project
        BY <3>1, <3>3, <3>4 DEF Caps, CapsStillHold
      <3>5. CapsStillHold'
        <4> SUFFICES ASSUME NEW m \in Loops, loopPc'[m] = "checked",
                            NEW s \in Runs, Active(s)'
                     PROVE  /\ loopCall[m].task # NoTask => runCall'[s].task # loopCall[m].task
                            /\ loopCall[m].project # NoProject /\ runCall'[s].loop = m =>
                                 runCall'[s].project # loopCall[m].project
          BY <2>2 DEF CapsStillHold
        <4>1. m # l /\ loopPc[m] = "checked" /\ loopCall[m] \in Calls /\ loopCall[m].loop = m
          BY <1>a, <2>2
        <4>2. CASE s = r
          BY <3>1, <3>2, <4>1, <4>2, CallsAssumption
        <4>3. CASE s # r
          BY <3>2, <3>3, <4>1, <4>3 DEF Caps, CapsStillHold
        <4> QED
          BY <4>2, <4>3
      <3>6. OneActiveRunPerTask'
        BY <3>2, <3>3, <3>4 DEF Caps, OneActiveRunPerTask
      <3>7. OverlapOnlyBetweenLoops'
        BY <3>1, <3>2, <3>3, <3>4 DEF Caps, OverlapOnlyBetweenLoops
      <3> QED
        BY <3>5, <3>6, <3>7 DEF Caps
    <2> QED
      BY <1>2, <2>1, <2>2 DEF CreateRun
  <1>3. ASSUME NEW l \in Loops, EnqueueJob(l)
        PROVE  Caps'
    <2>1. \A s \in Runs : Active(s)' => Active(s)
      BY <1>3 DEF EnqueueJob, ReleaseLoop, Active
    <2>2. \A m \in Loops : loopPc'[m] = "checked" =>
            loopPc[m] = "checked" /\ loopCall'[m] = loopCall[m]
      BY <1>3, <1>a DEF EnqueueJob, ReleaseLoop
    <2>3. runCall' = runCall
      BY <1>3 DEF EnqueueJob, ReleaseLoop
    <2> QED
      BY <2>1, <2>2, <2>3, NoNewActiveRun
  <1>4. ASSUME NEW w \in Workers, Poll(w)
        PROVE  Caps'
    <2>1. \A s \in Runs : Active(s)' => Active(s)
      BY <1>4 DEF Poll, Active
    <2>2. \A m \in Loops : loopPc'[m] = "checked" =>
            loopPc[m] = "checked" /\ loopCall'[m] = loopCall[m]
      BY <1>4, <1>a DEF Poll
    <2>3. runCall' = runCall
      BY <1>4 DEF Poll
    <2> QED
      BY <2>1, <2>2, <2>3, NoNewActiveRun
  <1>5. ASSUME NEW w \in Workers, NEW j \in Runs, Claim(w, j)
        PROVE  Caps'
    <2>1. \A s \in Runs : Active(s)' => Active(s)
      BY <1>5 DEF Claim, Active
    <2>2. \A m \in Loops : loopPc'[m] = "checked" =>
            loopPc[m] = "checked" /\ loopCall'[m] = loopCall[m]
      BY <1>5, <1>a DEF Claim
    <2>3. runCall' = runCall
      BY <1>5 DEF Claim
    <2> QED
      BY <2>1, <2>2, <2>3, NoNewActiveRun
  <1>6. ASSUME NEW w \in Workers, PoolComplete(w)
        PROVE  Caps'
    <2>1. \A s \in Runs : Active(s)' => Active(s)
      BY <1>6 DEF PoolComplete, Release, Active
    <2>2. \A m \in Loops : loopPc'[m] = "checked" =>
            loopPc[m] = "checked" /\ loopCall'[m] = loopCall[m]
      BY <1>6, <1>a DEF PoolComplete, Release
    <2>3. runCall' = runCall
      BY <1>6 DEF PoolComplete, Release
    <2> QED
      BY <2>1, <2>2, <2>3, NoNewActiveRun
  <1>7. ASSUME NEW w \in Workers, PoolFail(w)
        PROVE  Caps'
    <2>1. \A s \in Runs : Active(s)' => Active(s)
      BY <1>7 DEF PoolFail, Release, Active
    <2>2. \A m \in Loops : loopPc'[m] = "checked" =>
            loopPc[m] = "checked" /\ loopCall'[m] = loopCall[m]
      BY <1>7, <1>a DEF PoolFail, Release
    <2>3. runCall' = runCall
      BY <1>7 DEF PoolFail, Release
    <2> QED
      BY <2>1, <2>2, <2>3, NoNewActiveRun
  <1>8. ASSUME NEW w \in Workers, StartRun(w)
        PROVE  Caps'
    <2>1. \A s \in Runs : Active(s)' => Active(s)
      BY <1>8, <1>a DEF StartRun, Active, ActiveStatuses
    <2>2. \A m \in Loops : loopPc'[m] = "checked" =>
            loopPc[m] = "checked" /\ loopCall'[m] = loopCall[m]
      BY <1>8, <1>a DEF StartRun
    <2>3. runCall' = runCall
      BY <1>8 DEF StartRun
    <2> QED
      BY <2>1, <2>2, <2>3, NoNewActiveRun
  <1>9. ASSUME NEW w \in Workers, ModelTurn(w)
        PROVE  Caps'
    <2>1. \A s \in Runs : Active(s)' => Active(s)
      BY <1>9 DEF ModelTurn, Active
    <2>2. \A m \in Loops : loopPc'[m] = "checked" =>
            loopPc[m] = "checked" /\ loopCall'[m] = loopCall[m]
      BY <1>9, <1>a DEF ModelTurn
    <2>3. runCall' = runCall
      BY <1>9 DEF ModelTurn
    <2> QED
      BY <2>1, <2>2, <2>3, NoNewActiveRun
  <1>10. ASSUME NEW w \in Workers, ToolRefused(w)
        PROVE  Caps'
    <2>1. \A s \in Runs : Active(s)' => Active(s)
      BY <1>10 DEF ToolRefused, NextCall, Active
    <2>2. \A m \in Loops : loopPc'[m] = "checked" =>
            loopPc[m] = "checked" /\ loopCall'[m] = loopCall[m]
      BY <1>10, <1>a DEF ToolRefused, NextCall
    <2>3. runCall' = runCall
      BY <1>10 DEF ToolRefused, NextCall
    <2> QED
      BY <2>1, <2>2, <2>3, NoNewActiveRun
  <1>11. ASSUME NEW w \in Workers, ToolProceeds(w)
        PROVE  Caps'
    <2>1. \A s \in Runs : Active(s)' => Active(s)
      BY <1>11 DEF ToolProceeds, Active
    <2>2. \A m \in Loops : loopPc'[m] = "checked" =>
            loopPc[m] = "checked" /\ loopCall'[m] = loopCall[m]
      BY <1>11, <1>a DEF ToolProceeds
    <2>3. runCall' = runCall
      BY <1>11 DEF ToolProceeds
    <2> QED
      BY <2>1, <2>2, <2>3, NoNewActiveRun
  <1>12. ASSUME NEW w \in Workers, ToolNeedsApproval(w)
        PROVE  Caps'
    <2>1. \A s \in Runs : Active(s)' => Active(s)
      BY <1>12 DEF ToolNeedsApproval, Active
    <2>2. \A m \in Loops : loopPc'[m] = "checked" =>
            loopPc[m] = "checked" /\ loopCall'[m] = loopCall[m]
      BY <1>12, <1>a DEF ToolNeedsApproval
    <2>3. runCall' = runCall
      BY <1>12 DEF ToolNeedsApproval
    <2> QED
      BY <2>1, <2>2, <2>3, NoNewActiveRun
  <1>13. ASSUME NEW w \in Workers, RequestApproval(w)
        PROVE  Caps'
    <2>1. \A s \in Runs : Active(s)' => Active(s)
      BY <1>13 DEF RequestApproval, NextCall, Active
    <2>2. \A m \in Loops : loopPc'[m] = "checked" =>
            loopPc[m] = "checked" /\ loopCall'[m] = loopCall[m]
      BY <1>13, <1>a DEF RequestApproval, NextCall
    <2>3. runCall' = runCall
      BY <1>13 DEF RequestApproval, NextCall
    <2> QED
      BY <2>1, <2>2, <2>3, NoNewActiveRun
  <1>14. ASSUME NEW w \in Workers, ToolExecutes(w)
        PROVE  Caps'
    <2>1. \A s \in Runs : Active(s)' => Active(s)
      BY <1>14 DEF ToolExecutes, NextCall, Active
    <2>2. \A m \in Loops : loopPc'[m] = "checked" =>
            loopPc[m] = "checked" /\ loopCall'[m] = loopCall[m]
      BY <1>14, <1>a DEF ToolExecutes, NextCall
    <2>3. runCall' = runCall
      BY <1>14 DEF ToolExecutes, NextCall
    <2> QED
      BY <2>1, <2>2, <2>3, NoNewActiveRun
  <1>15. ASSUME NEW w \in Workers, ParkRun(w) \/ FinishRun(w)
        PROVE  Caps'
    <2>1. \A s \in Runs : Active(s)' => Active(s)
      BY <1>15, <1>a DEF ParkRun, FinishRun, EndLoop, Active, ActiveStatuses, InLoop, LoopPcs
    <2>2. \A m \in Loops : loopPc'[m] = "checked" =>
            loopPc[m] = "checked" /\ loopCall'[m] = loopCall[m]
      BY <1>15, <1>a DEF ParkRun, FinishRun, EndLoop
    <2>3. runCall' = runCall
      BY <1>15 DEF ParkRun, FinishRun, EndLoop
    <2> QED
      BY <2>1, <2>2, <2>3, NoNewActiveRun
  <1>16. ASSUME NEW w \in Workers, HandlerComplete(w)
        PROVE  Caps'
    <2>1. \A s \in Runs : Active(s)' => Active(s)
      BY <1>16 DEF HandlerComplete, Active
    <2>2. \A m \in Loops : loopPc'[m] = "checked" =>
            loopPc[m] = "checked" /\ loopCall'[m] = loopCall[m]
      BY <1>16, <1>a DEF HandlerComplete
    <2>3. runCall' = runCall
      BY <1>16 DEF HandlerComplete
    <2> QED
      BY <2>1, <2>2, <2>3, NoNewActiveRun
  <1>17. ASSUME NEW w \in Workers, FailJob(w)
        PROVE  Caps'
    <2>1. \A s \in Runs : Active(s)' => Active(s)
      BY <1>17 DEF FailJob, Active
    <2>2. \A m \in Loops : loopPc'[m] = "checked" =>
            loopPc[m] = "checked" /\ loopCall'[m] = loopCall[m]
      BY <1>17, <1>a DEF FailJob
    <2>3. runCall' = runCall
      BY <1>17 DEF FailJob
    <2> QED
      BY <2>1, <2>2, <2>3, NoNewActiveRun
  <1>18. ASSUME NEW w \in Workers, FailRun(w)
        PROVE  Caps'
    <2>1. \A s \in Runs : Active(s)' => Active(s)
      BY <1>18, <1>a DEF FailRun, Active, ActiveStatuses
    <2>2. \A m \in Loops : loopPc'[m] = "checked" =>
            loopPc[m] = "checked" /\ loopCall'[m] = loopCall[m]
      BY <1>18, <1>a DEF FailRun
    <2>3. runCall' = runCall
      BY <1>18 DEF FailRun
    <2> QED
      BY <2>1, <2>2, <2>3, NoNewActiveRun
  <1>19. ASSUME NEW j \in Runs, BecomeDue(j)
        PROVE  Caps'
    <2>1. \A s \in Runs : Active(s)' => Active(s)
      BY <1>19 DEF BecomeDue, Active
    <2>2. \A m \in Loops : loopPc'[m] = "checked" =>
            loopPc[m] = "checked" /\ loopCall'[m] = loopCall[m]
      BY <1>19, <1>a DEF BecomeDue
    <2>3. runCall' = runCall
      BY <1>19 DEF BecomeDue
    <2> QED
      BY <2>1, <2>2, <2>3, NoNewActiveRun
  <1>20. ASSUME NEW r \in Runs, NEW a \in Actions, NEW i \in 1 .. Len(approvals[r][a]),
                NEW v \in {"approved", "rejected"}, Decide(r, a, i, v)
        PROVE  Caps'
    <2>1. \A s \in Runs : Active(s)' => Active(s)
      BY <1>20, <1>a DEF Decide, Active, ActiveStatuses
    <2>2. \A m \in Loops : loopPc'[m] = "checked" =>
            loopPc[m] = "checked" /\ loopCall'[m] = loopCall[m]
      BY <1>20, <1>a DEF Decide
    <2>3. runCall' = runCall
      BY <1>20 DEF Decide
    <2> QED
      BY <2>1, <2>2, <2>3, NoNewActiveRun
  <1>21. ASSUME Crash
        PROVE  Caps'
    <2>1. \A s \in Runs : Active(s)' => Active(s)
      BY <1>21 DEF Crash, Active
    <2>2. \A m \in Loops : loopPc'[m] = "checked" =>
            loopPc[m] = "checked" /\ loopCall'[m] = loopCall[m]
      BY <1>21, <1>a DEF Crash
    <2>3. runCall' = runCall
      BY <1>21 DEF Crash
    <2> QED
      BY <2>1, <2>2, <2>3, NoNewActiveRun
  <1>22. CASE UNCHANGED vars
    <2>1. /\ runStatus' = runStatus /\ runCall' = runCall
          /\ loopPc' = loopPc /\ loopCall' = loopCall
      BY <1>22 DEF vars
    <2> QED
      BY <2>1, NoNewActiveRun DEF Active
  <1> QED
    BY <1>1, <1>2, <1>3, <1>4, <1>5, <1>6, <1>7, <1>8, <1>9, <1>10, <1>11,
       <1>12, <1>13, <1>14, <1>15, <1>16, <1>17, <1>18, <1>19, <1>20, <1>21, <1>22
       DEF Next, Loop, Worker, Tool

-----------------------------------------------------------------------------
(* Approvals.                                                              *)

\* A step that lets no worker past the gate, parks no run and leaves the
\* approvals of such runs alone keeps the invariant.
LEMMA NoNewApprovalUse ==
    ASSUME Approvals,
           \A x \in Workers : pc'[x] = "exec" =>
               /\ pc[x] = "exec" /\ job'[x] = job[x] /\ calls'[x] = calls[x]
               /\ approvals'[job[x]] = approvals[job[x]],
           \A x \in Workers : pc'[x] = "park" =>
               /\ pc[x] = "park" /\ job'[x] = job[x]
               /\ approvals'[job[x]] = approvals[job[x]],
           \A r \in Runs : runStatus'[r] = "awaiting_approval" =>
               /\ runStatus[r] = "awaiting_approval"
               /\ approvals'[r] = approvals[r]
    PROVE  Approvals'
  <1>1. ApprovalStillInForce'
    BY DEF Approvals, ApprovalStillInForce, Decision
  <1>2. ParkingRunHasPendingApproval'
    BY DEF Approvals, ParkingRunHasPendingApproval, HasPendingApproval
  <1>3. ParkedRunHasPendingApproval'
    BY DEF Approvals, ParkedRunHasPendingApproval, HasPendingApproval
  <1> QED
    BY <1>1, <1>2, <1>3 DEF Approvals

\* The row the gate inserts is pending.
LEMMA AppendedRow ==
    ASSUME NEW rows \in Seq(ApprovalStatuses)
    PROVE  LET new == Append(rows, "pending")
           IN  Len(new) \in 1 .. Len(new) /\ new[Len(new)] = "pending"
  <1>1. "pending" \in ApprovalStatuses
    BY DEF ApprovalStatuses
  <1>2. /\ Len(Append(rows, "pending")) = Len(rows) + 1
        /\ Append(rows, "pending")[Len(rows) + 1] = "pending"
    BY <1>1, AppendProperties
  <1>3. Len(rows) \in Nat
    BY LenProperties
  <1> QED
    BY <1>2, <1>3

\* No approval is used or awaited initially.
LEMMA InitApprovals == Init => Approvals
  BY DEF Init, Approvals, ApprovalStillInForce, ParkingRunHasPendingApproval,
         ParkedRunHasPendingApproval

\* Every step keeps approvals in force while they are used, and pending while
\* they are awaited.
LEMMA NextApprovals ==
    TypesAndGoroutines /\ Ownership /\ Approvals /\ [Next]_vars => Approvals'
  <1> SUFFICES ASSUME TypesAndGoroutines, Ownership, Approvals, [Next]_vars
               PROVE  Approvals'
    OBVIOUS
  <1> USE DEF jobVars, runVars, loopVars, workerVars, claimVars, toolVars, Goto
  <1>a. /\ runStatus \in [Runs -> RunStatuses]
        /\ approvals \in [Runs -> [Actions -> Seq(ApprovalStatuses)]]
        /\ pc \in [Workers -> WorkerPcs]
        /\ job \in [Workers -> Runs \cup {NoRun}]
        /\ calls \in [Workers -> Seq(Actions)]
    BY DEF TypesAndGoroutines, TypeOK, RunsTypeOK, WorkersTypeOK
  <1>b. /\ \A x \in Workers : pc[x] # "idle" => job[x] \in Runs
        /\ \A x \in Workers : pc[x] \in {"tool", "ask", "exec"} => calls[x] # <<>>
        /\ \A x, y \in Workers :
             x # y /\ pc[x] # "idle" /\ pc[y] # "idle" => job[x] # job[y]
        /\ \A x \in Workers : pc[x] \in LoopPcs => runStatus[job[x]] = "running"
    BY DEF TypesAndGoroutines, GoroutinesOK, Ownership, ClaimIsExclusive, LoopOwnsItsRun,
           InLoop, Busy
  <1>1. ASSUME NEW c \in Calls, EnqueueCheck(c)
        PROVE  Approvals'
    <2>1. \A x \in Workers : pc'[x] = "exec" =>
            /\ pc[x] = "exec" /\ job'[x] = job[x] /\ calls'[x] = calls[x]
            /\ approvals'[job[x]] = approvals[job[x]]
      BY <1>1, <1>a DEF EnqueueCheck
    <2>2. \A x \in Workers : pc'[x] = "park" =>
            /\ pc[x] = "park" /\ job'[x] = job[x]
            /\ approvals'[job[x]] = approvals[job[x]]
      BY <1>1, <1>a DEF EnqueueCheck
    <2>3. \A s \in Runs : runStatus'[s] = "awaiting_approval" =>
            runStatus[s] = "awaiting_approval" /\ approvals'[s] = approvals[s]
      BY <1>1, <1>a DEF EnqueueCheck
    <2> QED
      BY <2>1, <2>2, <2>3, NoNewApprovalUse
  <1>2. ASSUME NEW l \in Loops, CreateRun(l)
        PROVE  Approvals'
    <2>1. \A x \in Workers : pc'[x] = "exec" =>
            /\ pc[x] = "exec" /\ job'[x] = job[x] /\ calls'[x] = calls[x]
            /\ approvals'[job[x]] = approvals[job[x]]
      BY <1>2, <1>a DEF CreateRun, ReleaseLoop
    <2>2. \A x \in Workers : pc'[x] = "park" =>
            /\ pc[x] = "park" /\ job'[x] = job[x]
            /\ approvals'[job[x]] = approvals[job[x]]
      BY <1>2, <1>a DEF CreateRun, ReleaseLoop
    <2>3. \A s \in Runs : runStatus'[s] = "awaiting_approval" =>
            runStatus[s] = "awaiting_approval" /\ approvals'[s] = approvals[s]
      BY <1>2, <1>a DEF CreateRun, ReleaseLoop
    <2> QED
      BY <2>1, <2>2, <2>3, NoNewApprovalUse
  <1>3. ASSUME NEW l \in Loops, EnqueueJob(l)
        PROVE  Approvals'
    <2>1. \A x \in Workers : pc'[x] = "exec" =>
            /\ pc[x] = "exec" /\ job'[x] = job[x] /\ calls'[x] = calls[x]
            /\ approvals'[job[x]] = approvals[job[x]]
      BY <1>3, <1>a DEF EnqueueJob, ReleaseLoop
    <2>2. \A x \in Workers : pc'[x] = "park" =>
            /\ pc[x] = "park" /\ job'[x] = job[x]
            /\ approvals'[job[x]] = approvals[job[x]]
      BY <1>3, <1>a DEF EnqueueJob, ReleaseLoop
    <2>3. \A s \in Runs : runStatus'[s] = "awaiting_approval" =>
            runStatus[s] = "awaiting_approval" /\ approvals'[s] = approvals[s]
      BY <1>3, <1>a DEF EnqueueJob, ReleaseLoop
    <2> QED
      BY <2>1, <2>2, <2>3, NoNewApprovalUse
  <1>4. ASSUME NEW w \in Workers, Poll(w)
        PROVE  Approvals'
    <2>1. \A x \in Workers : pc'[x] = "exec" =>
            /\ pc[x] = "exec" /\ job'[x] = job[x] /\ calls'[x] = calls[x]
            /\ approvals'[job[x]] = approvals[job[x]]
      BY <1>4, <1>a DEF Poll
    <2>2. \A x \in Workers : pc'[x] = "park" =>
            /\ pc[x] = "park" /\ job'[x] = job[x]
            /\ approvals'[job[x]] = approvals[job[x]]
      BY <1>4, <1>a DEF Poll
    <2>3. \A s \in Runs : runStatus'[s] = "awaiting_approval" =>
            runStatus[s] = "awaiting_approval" /\ approvals'[s] = approvals[s]
      BY <1>4, <1>a DEF Poll
    <2> QED
      BY <2>1, <2>2, <2>3, NoNewApprovalUse
  <1>5. ASSUME NEW w \in Workers, NEW j \in Runs, Claim(w, j)
        PROVE  Approvals'
    <2>1. \A x \in Workers : pc'[x] = "exec" =>
            /\ pc[x] = "exec" /\ job'[x] = job[x] /\ calls'[x] = calls[x]
            /\ approvals'[job[x]] = approvals[job[x]]
      BY <1>5, <1>a DEF Claim
    <2>2. \A x \in Workers : pc'[x] = "park" =>
            /\ pc[x] = "park" /\ job'[x] = job[x]
            /\ approvals'[job[x]] = approvals[job[x]]
      BY <1>5, <1>a DEF Claim
    <2>3. \A s \in Runs : runStatus'[s] = "awaiting_approval" =>
            runStatus[s] = "awaiting_approval" /\ approvals'[s] = approvals[s]
      BY <1>5, <1>a DEF Claim
    <2> QED
      BY <2>1, <2>2, <2>3, NoNewApprovalUse
  <1>6. ASSUME NEW w \in Workers, PoolComplete(w)
        PROVE  Approvals'
    <2>1. \A x \in Workers : pc'[x] = "exec" =>
            /\ pc[x] = "exec" /\ job'[x] = job[x] /\ calls'[x] = calls[x]
            /\ approvals'[job[x]] = approvals[job[x]]
      BY <1>6, <1>a DEF PoolComplete, Release
    <2>2. \A x \in Workers : pc'[x] = "park" =>
            /\ pc[x] = "park" /\ job'[x] = job[x]
            /\ approvals'[job[x]] = approvals[job[x]]
      BY <1>6, <1>a DEF PoolComplete, Release
    <2>3. \A s \in Runs : runStatus'[s] = "awaiting_approval" =>
            runStatus[s] = "awaiting_approval" /\ approvals'[s] = approvals[s]
      BY <1>6, <1>a DEF PoolComplete, Release
    <2> QED
      BY <2>1, <2>2, <2>3, NoNewApprovalUse
  <1>7. ASSUME NEW w \in Workers, PoolFail(w)
        PROVE  Approvals'
    <2>1. \A x \in Workers : pc'[x] = "exec" =>
            /\ pc[x] = "exec" /\ job'[x] = job[x] /\ calls'[x] = calls[x]
            /\ approvals'[job[x]] = approvals[job[x]]
      BY <1>7, <1>a DEF PoolFail, Release
    <2>2. \A x \in Workers : pc'[x] = "park" =>
            /\ pc[x] = "park" /\ job'[x] = job[x]
            /\ approvals'[job[x]] = approvals[job[x]]
      BY <1>7, <1>a DEF PoolFail, Release
    <2>3. \A s \in Runs : runStatus'[s] = "awaiting_approval" =>
            runStatus[s] = "awaiting_approval" /\ approvals'[s] = approvals[s]
      BY <1>7, <1>a DEF PoolFail, Release
    <2> QED
      BY <2>1, <2>2, <2>3, NoNewApprovalUse
  <1>8. ASSUME NEW w \in Workers, StartRun(w)
        PROVE  Approvals'
    <2>1. \A x \in Workers : pc'[x] = "exec" =>
            /\ pc[x] = "exec" /\ job'[x] = job[x] /\ calls'[x] = calls[x]
            /\ approvals'[job[x]] = approvals[job[x]]
      BY <1>8, <1>a DEF StartRun
    <2>2. \A x \in Workers : pc'[x] = "park" =>
            /\ pc[x] = "park" /\ job'[x] = job[x]
            /\ approvals'[job[x]] = approvals[job[x]]
      BY <1>8, <1>a DEF StartRun
    <2>3. \A s \in Runs : runStatus'[s] = "awaiting_approval" =>
            runStatus[s] = "awaiting_approval" /\ approvals'[s] = approvals[s]
      BY <1>8, <1>a DEF StartRun
    <2> QED
      BY <2>1, <2>2, <2>3, NoNewApprovalUse
  <1>9. ASSUME NEW w \in Workers, ModelTurn(w)
        PROVE  Approvals'
    <2>1. \A x \in Workers : pc'[x] = "exec" =>
            /\ pc[x] = "exec" /\ job'[x] = job[x] /\ calls'[x] = calls[x]
            /\ approvals'[job[x]] = approvals[job[x]]
      BY <1>9, <1>a DEF ModelTurn
    <2>2. \A x \in Workers : pc'[x] = "park" =>
            /\ pc[x] = "park" /\ job'[x] = job[x]
            /\ approvals'[job[x]] = approvals[job[x]]
      BY <1>9, <1>a DEF ModelTurn
    <2>3. \A s \in Runs : runStatus'[s] = "awaiting_approval" =>
            runStatus[s] = "awaiting_approval" /\ approvals'[s] = approvals[s]
      BY <1>9, <1>a DEF ModelTurn
    <2> QED
      BY <2>1, <2>2, <2>3, NoNewApprovalUse
  <1>10. ASSUME NEW w \in Workers, ToolRefused(w)
        PROVE  Approvals'
    <2>1. \A x \in Workers : pc'[x] = "exec" =>
            /\ pc[x] = "exec" /\ job'[x] = job[x] /\ calls'[x] = calls[x]
            /\ approvals'[job[x]] = approvals[job[x]]
      BY <1>10, <1>a DEF ToolRefused, NextCall
    <2>2. \A x \in Workers : pc'[x] = "park" =>
            /\ pc[x] = "park" /\ job'[x] = job[x]
            /\ approvals'[job[x]] = approvals[job[x]]
      BY <1>10, <1>a DEF ToolRefused, NextCall
    <2>3. \A s \in Runs : runStatus'[s] = "awaiting_approval" =>
            runStatus[s] = "awaiting_approval" /\ approvals'[s] = approvals[s]
      BY <1>10, <1>a DEF ToolRefused, NextCall
    <2> QED
      BY <2>1, <2>2, <2>3, NoNewApprovalUse
  <1>11. ASSUME NEW w \in Workers, ToolProceeds(w)
        PROVE  Approvals'
    <2>1. /\ pc[w] = "tool" /\ pc' = [pc EXCEPT ![w] = "exec"]
          /\ UNCHANGED <<job, calls, approvals, runStatus>>
          /\ GateDecision(job[w], Head(calls[w])) = "proceed"
      BY <1>11 DEF ToolProceeds
    <2>2. Head(calls[w]) \in Actions
      BY <1>a, <1>b, <2>1, TailOfSeq
    <2>3. /\ Policy[Head(calls[w])] \in {"auto", "require", "forbid"}
      BY <2>2, PolicyAssumption
    <2>4. Policy[Head(calls[w])] # "auto" =>
            /\ Policy[Head(calls[w])] = "require"
            /\ Decision(job[w], Head(calls[w])) = "approved"
      BY <2>1, <2>3 DEF GateDecision
    <2>5. ApprovalStillInForce'
      BY <1>a, <2>1, <2>4 DEF Approvals, ApprovalStillInForce, Decision
    <2>6. ParkingRunHasPendingApproval' /\ ParkedRunHasPendingApproval'
      BY <1>a, <2>1
         DEF Approvals, ParkingRunHasPendingApproval, ParkedRunHasPendingApproval,
             HasPendingApproval
    <2> QED
      BY <2>5, <2>6 DEF Approvals
  <1>12. ASSUME NEW w \in Workers, ToolNeedsApproval(w)
        PROVE  Approvals'
    <2>1. \A x \in Workers : pc'[x] = "exec" =>
            /\ pc[x] = "exec" /\ job'[x] = job[x] /\ calls'[x] = calls[x]
            /\ approvals'[job[x]] = approvals[job[x]]
      BY <1>12, <1>a DEF ToolNeedsApproval
    <2>2. \A x \in Workers : pc'[x] = "park" =>
            /\ pc[x] = "park" /\ job'[x] = job[x]
            /\ approvals'[job[x]] = approvals[job[x]]
      BY <1>12, <1>a DEF ToolNeedsApproval
    <2>3. \A s \in Runs : runStatus'[s] = "awaiting_approval" =>
            runStatus[s] = "awaiting_approval" /\ approvals'[s] = approvals[s]
      BY <1>12, <1>a DEF ToolNeedsApproval
    <2> QED
      BY <2>1, <2>2, <2>3, NoNewApprovalUse
  <1>13. ASSUME NEW w \in Workers, RequestApproval(w)
        PROVE  Approvals'
    <2> DEFINE r == job[w]
               a == Head(calls[w])
    <2>1. /\ pc[w] = "ask" /\ r \in Runs /\ a \in Actions /\ runStatus[r] = "running"
          /\ approvals[r][a] \in Seq(ApprovalStatuses)
      <3>1. pc[w] = "ask"
        BY <1>13 DEF RequestApproval
      <3>2. r \in Runs /\ calls[w] # <<>> /\ runStatus[r] = "running"
        BY <1>b, <3>1 DEF LoopPcs
      <3>3. a \in Actions
        BY <1>a, <3>2, TailOfSeq
      <3> QED
        BY <1>a, <3>1, <3>2, <3>3
    <2>2. /\ UNCHANGED <<job, runStatus>>
          /\ \/ /\ pc' = [pc EXCEPT ![w] = "park"] /\ calls' = calls
                /\ approvals' = [approvals EXCEPT ![r][a] = Append(@, "pending")]
             \/ /\ NextCall(w)
                /\ \/ approvals' = [approvals EXCEPT ![r][a] = Append(@, "pending")]
                   \/ approvals' = approvals
      BY <1>13 DEF RequestApproval
    <2>3. \A x \in Workers : x # w /\ pc[x] # "idle" => job[x] # r
      BY <1>b, <2>1
    <2>4. \A s \in Runs : s # r => approvals'[s] = approvals[s]
      BY <1>a, <2>2
    <2>5. /\ pc'[w] \in {"park", "tool", "model"}
          /\ \A x \in Workers : x # w => pc'[x] = pc[x] /\ calls'[x] = calls[x]
      BY <1>a, <2>2 DEF NextCall
    <2>6. ApprovalStillInForce'
      <3> SUFFICES ASSUME NEW x \in Workers, pc'[x] = "exec", Policy[Head(calls'[x])] # "auto"
                   PROVE  /\ Policy[Head(calls'[x])] = "require"
                          /\ Decision(job[x], Head(calls[x]))' = "approved"
        BY <2>2 DEF ApprovalStillInForce, Decision
      <3>1. x # w /\ pc[x] = "exec" /\ calls'[x] = calls[x]
        BY <2>5
      <3>2. approvals'[job[x]] = approvals[job[x]] /\ job' = job
        BY <1>b, <2>2, <2>3, <2>4, <3>1
      <3> QED
        BY <3>1, <3>2 DEF Approvals, ApprovalStillInForce, Decision
    <2>7. ASSUME pc'[w] = "park"
          PROVE  HasPendingApproval(r)'
      <3>1. ~ NextCall(w)
        BY <1>a, <2>7 DEF NextCall
      <3>2. approvals'[r][a] = Append(approvals[r][a], "pending")
        BY <1>a, <2>1, <2>2, <3>1
      <3>3. /\ Len(approvals'[r][a]) \in 1 .. Len(approvals'[r][a])
            /\ approvals'[r][a][Len(approvals'[r][a])] = "pending"
        BY <2>1, <3>2, AppendedRow
      <3> QED
        BY <2>1, <2>2, <3>3 DEF HasPendingApproval
    <2>8. ParkingRunHasPendingApproval'
      <3> SUFFICES ASSUME NEW x \in Workers, pc'[x] = "park"
                   PROVE  HasPendingApproval(job[x])'
        BY DEF ParkingRunHasPendingApproval
      <3>1. CASE x = w
        BY <2>7, <3>1
      <3>2. CASE x # w
        <4>1. pc[x] = "park" /\ approvals'[job[x]] = approvals[job[x]] /\ job' = job
          BY <1>b, <2>2, <2>3, <2>4, <2>5, <3>2
        <4> QED
          BY <4>1 DEF Approvals, ParkingRunHasPendingApproval, HasPendingApproval
      <3> QED
        BY <3>1, <3>2
    <2>9. ParkedRunHasPendingApproval'
      <3> SUFFICES ASSUME NEW s \in Runs, runStatus'[s] = "awaiting_approval"
                   PROVE  HasPendingApproval(s)'
        BY DEF ParkedRunHasPendingApproval
      <3>1. s # r /\ runStatus[s] = "awaiting_approval"
        BY <2>1, <2>2
      <3>2. approvals'[s] = approvals[s]
        BY <2>4, <3>1
      <3> QED
        BY <3>1, <3>2 DEF Approvals, ParkedRunHasPendingApproval, HasPendingApproval
    <2> QED
      BY <2>6, <2>8, <2>9 DEF Approvals
  <1>14. ASSUME NEW w \in Workers, ToolExecutes(w)
        PROVE  Approvals'
    <2>1. \A x \in Workers : pc'[x] = "exec" =>
            /\ pc[x] = "exec" /\ job'[x] = job[x] /\ calls'[x] = calls[x]
            /\ approvals'[job[x]] = approvals[job[x]]
      BY <1>14, <1>a DEF ToolExecutes, NextCall
    <2>2. \A x \in Workers : pc'[x] = "park" =>
            /\ pc[x] = "park" /\ job'[x] = job[x]
            /\ approvals'[job[x]] = approvals[job[x]]
      BY <1>14, <1>a DEF ToolExecutes, NextCall
    <2>3. \A s \in Runs : runStatus'[s] = "awaiting_approval" =>
            runStatus[s] = "awaiting_approval" /\ approvals'[s] = approvals[s]
      BY <1>14, <1>a DEF ToolExecutes, NextCall
    <2> QED
      BY <2>1, <2>2, <2>3, NoNewApprovalUse
  <1>15. ASSUME NEW w \in Workers, ParkRun(w) \/ FinishRun(w)
        PROVE  Approvals'
    <2>1. /\ pc' = [pc EXCEPT ![w] = "complete"]
          /\ UNCHANGED <<job, calls, approvals>>
      BY <1>15 DEF ParkRun, FinishRun, EndLoop
    <2>2. \/ UNCHANGED runStatus
          \/ runStatus' = [runStatus EXCEPT ![job[w]] = "succeeded"]
          \/ pc[w] = "park" /\ runStatus' = [runStatus EXCEPT ![job[w]] = "awaiting_approval"]
      BY <1>15 DEF ParkRun, FinishRun, EndLoop
    <2>3. /\ \A x \in Workers : pc'[x] = "exec" => pc[x] = "exec"
          /\ \A x \in Workers : pc'[x] = "park" => pc[x] = "park"
      BY <1>a, <2>1
    <2>4. ApprovalStillInForce' /\ ParkingRunHasPendingApproval'
      BY <2>1, <2>3
         DEF Approvals, ApprovalStillInForce, ParkingRunHasPendingApproval, Decision,
             HasPendingApproval
    <2>5. \A r \in Runs : HasPendingApproval(r)' <=> HasPendingApproval(r)
      BY <2>1 DEF HasPendingApproval
    <2>6. ParkedRunHasPendingApproval'
      BY <1>a, <2>2, <2>5
         DEF Approvals, ParkingRunHasPendingApproval, ParkedRunHasPendingApproval
    <2> QED
      BY <2>4, <2>6 DEF Approvals
  <1>16. ASSUME NEW w \in Workers, HandlerComplete(w)
        PROVE  Approvals'
    <2>1. \A x \in Workers : pc'[x] = "exec" =>
            /\ pc[x] = "exec" /\ job'[x] = job[x] /\ calls'[x] = calls[x]
            /\ approvals'[job[x]] = approvals[job[x]]
      BY <1>16, <1>a DEF HandlerComplete
    <2>2. \A x \in Workers : pc'[x] = "park" =>
            /\ pc[x] = "park" /\ job'[x] = job[x]
            /\ approvals'[job[x]] = approvals[job[x]]
      BY <1>16, <1>a DEF HandlerComplete
    <2>3. \A s \in Runs : runStatus'[s] = "awaiting_approval" =>
            runStatus[s] = "awaiting_approval" /\ approvals'[s] = approvals[s]
      BY <1>16, <1>a DEF HandlerComplete
    <2> QED
      BY <2>1, <2>2, <2>3, NoNewApprovalUse
  <1>17. ASSUME NEW w \in Workers, FailJob(w)
        PROVE  Approvals'
    <2>1. \A x \in Workers : pc'[x] = "exec" =>
            /\ pc[x] = "exec" /\ job'[x] = job[x] /\ calls'[x] = calls[x]
            /\ approvals'[job[x]] = approvals[job[x]]
      BY <1>17, <1>a DEF FailJob
    <2>2. \A x \in Workers : pc'[x] = "park" =>
            /\ pc[x] = "park" /\ job'[x] = job[x]
            /\ approvals'[job[x]] = approvals[job[x]]
      BY <1>17, <1>a DEF FailJob
    <2>3. \A s \in Runs : runStatus'[s] = "awaiting_approval" =>
            runStatus[s] = "awaiting_approval" /\ approvals'[s] = approvals[s]
      BY <1>17, <1>a DEF FailJob
    <2> QED
      BY <2>1, <2>2, <2>3, NoNewApprovalUse
  <1>18. ASSUME NEW w \in Workers, FailRun(w)
        PROVE  Approvals'
    <2>1. \A x \in Workers : pc'[x] = "exec" =>
            /\ pc[x] = "exec" /\ job'[x] = job[x] /\ calls'[x] = calls[x]
            /\ approvals'[job[x]] = approvals[job[x]]
      BY <1>18, <1>a DEF FailRun
    <2>2. \A x \in Workers : pc'[x] = "park" =>
            /\ pc[x] = "park" /\ job'[x] = job[x]
            /\ approvals'[job[x]] = approvals[job[x]]
      BY <1>18, <1>a DEF FailRun
    <2>3. \A s \in Runs : runStatus'[s] = "awaiting_approval" =>
            runStatus[s] = "awaiting_approval" /\ approvals'[s] = approvals[s]
      BY <1>18, <1>a DEF FailRun
    <2> QED
      BY <2>1, <2>2, <2>3, NoNewApprovalUse
  <1>19. ASSUME NEW j \in Runs, BecomeDue(j)
        PROVE  Approvals'
    <2>1. \A x \in Workers : pc'[x] = "exec" =>
            /\ pc[x] = "exec" /\ job'[x] = job[x] /\ calls'[x] = calls[x]
            /\ approvals'[job[x]] = approvals[job[x]]
      BY <1>19, <1>a DEF BecomeDue
    <2>2. \A x \in Workers : pc'[x] = "park" =>
            /\ pc[x] = "park" /\ job'[x] = job[x]
            /\ approvals'[job[x]] = approvals[job[x]]
      BY <1>19, <1>a DEF BecomeDue
    <2>3. \A s \in Runs : runStatus'[s] = "awaiting_approval" =>
            runStatus[s] = "awaiting_approval" /\ approvals'[s] = approvals[s]
      BY <1>19, <1>a DEF BecomeDue
    <2> QED
      BY <2>1, <2>2, <2>3, NoNewApprovalUse
  <1>20. ASSUME NEW r \in Runs, NEW a \in Actions, NEW i \in 1 .. Len(approvals[r][a]),
                NEW v \in {"approved", "rejected"}, Decide(r, a, i, v)
        PROVE  Approvals'
    <2>1. \A x \in Workers : pc'[x] = "exec" =>
            /\ pc[x] = "exec" /\ job'[x] = job[x] /\ calls'[x] = calls[x]
            /\ approvals'[job[x]] = approvals[job[x]]
      BY <1>20, <1>a, <1>b DEF Decide, LoopPcs
    <2>2. \A x \in Workers : pc'[x] = "park" =>
            /\ pc[x] = "park" /\ job'[x] = job[x]
            /\ approvals'[job[x]] = approvals[job[x]]
      BY <1>20, <1>a, <1>b DEF Decide, LoopPcs
    <2>3. \A s \in Runs : runStatus'[s] = "awaiting_approval" =>
            runStatus[s] = "awaiting_approval" /\ approvals'[s] = approvals[s]
      BY <1>20, <1>a, <1>b DEF Decide, LoopPcs
    <2> QED
      BY <2>1, <2>2, <2>3, NoNewApprovalUse
  <1>21. ASSUME Crash
        PROVE  Approvals'
    <2>1. \A x \in Workers : pc'[x] = "exec" =>
            /\ pc[x] = "exec" /\ job'[x] = job[x] /\ calls'[x] = calls[x]
            /\ approvals'[job[x]] = approvals[job[x]]
      BY <1>21, <1>a DEF Crash
    <2>2. \A x \in Workers : pc'[x] = "park" =>
            /\ pc[x] = "park" /\ job'[x] = job[x]
            /\ approvals'[job[x]] = approvals[job[x]]
      BY <1>21, <1>a DEF Crash
    <2>3. \A s \in Runs : runStatus'[s] = "awaiting_approval" =>
            runStatus[s] = "awaiting_approval" /\ approvals'[s] = approvals[s]
      BY <1>21, <1>a DEF Crash
    <2> QED
      BY <2>1, <2>2, <2>3, NoNewApprovalUse
  <1>22. CASE UNCHANGED vars
    <2>1. UNCHANGED <<pc, job, calls, approvals, runStatus>>
      BY <1>22 DEF vars
    <2> QED
      BY <2>1, NoNewApprovalUse
  <1> QED
    BY <1>1, <1>2, <1>3, <1>4, <1>5, <1>6, <1>7, <1>8, <1>9, <1>10, <1>11,
       <1>12, <1>13, <1>14, <1>15, <1>16, <1>17, <1>18, <1>19, <1>20, <1>21, <1>22
       DEF Next, Loop, Worker, Tool

-----------------------------------------------------------------------------
(* The theorems.                                                           *)

IInv == TypesAndGoroutines /\ Ownership /\ Caps /\ Approvals

\* The inductive invariant holds in every reachable state.
THEOREM Invariance == Spec => []IInv
  <1>1. Init => IInv
    BY InitTypes, InitOwnership, InitCaps, InitApprovals DEF IInv
  <1>2. IInv /\ [Next]_vars => IInv'
    BY NextTypes, NextOwnership, NextCaps, NextApprovals DEF IInv
  <1> QED
    BY <1>1, <1>2, PTL DEF Spec

\* Every variable stays within its type.
THEOREM TypeCorrect == Spec => []TypeOK
  <1>1. IInv => TypeOK
    BY DEF IInv, TypesAndGoroutines
  <1> QED
    BY <1>1, Invariance, PTL

\* No other worker, retry, decision or trigger moves the run or the job of a
\* tool loop.
THEOREM LoopOwnership == Spec => []LoopOwnsItsRun
  <1>1. IInv => LoopOwnsItsRun
    BY DEF IInv, Ownership
  <1> QED
    BY <1>1, Invariance, PTL

\* The per-task cap of EnqueueRun holds although it counts and inserts in
\* separate transactions.
THEOREM TaskCap == Spec => []OneActiveRunPerTask
  <1>1. IInv => OneActiveRunPerTask
    BY DEF IInv, Caps
  <1> QED
    BY <1>1, Invariance, PTL

\* The per-project cap holds among the runs of one loop.
THEOREM ProjectCap == Spec => []OverlapOnlyBetweenLoops
  <1>1. IInv => OverlapOnlyBetweenLoops
    BY DEF IInv, Caps
  <1> QED
    BY <1>1, Invariance, PTL

\* No two workers drive tool loops for one run or for one task.
THEOREM TaskExclusion == Spec => []OneWorkerPerTask
  <1>1. IInv => OneWorkerPerTask
    <2> SUFFICES ASSUME IInv, NEW v \in Workers, NEW w \in Workers,
                        v # w, InLoop(v), InLoop(w)
                 PROVE  /\ job[v] # job[w]
                        /\ runCall[job[v]].task # NoTask =>
                             runCall[job[v]].task # runCall[job[w]].task
      BY DEF OneWorkerPerTask
    <2>1. Busy(v) /\ Busy(w)
      BY DEF InLoop, LoopPcs, Busy
    <2>2. job[v] \in Runs /\ job[w] \in Runs /\ job[v] # job[w]
      BY <2>1 DEF IInv, TypesAndGoroutines, GoroutinesOK, Ownership, ClaimIsExclusive
    <2>3. Active(job[v]) /\ Active(job[w])
      BY DEF IInv, Ownership, LoopOwnsItsRun, Active, ActiveStatuses
    <2> QED
      BY <2>2, <2>3 DEF IInv, Caps, OneActiveRunPerTask
  <1> QED
    BY <1>1, Invariance, PTL

\* A gated action executes only under an approval that is in force.
THEOREM ApprovalSafety == Spec => []ApprovalStillInForce
  <1>1. IInv => ApprovalStillInForce
    BY DEF IInv, Approvals
  <1> QED
    BY <1>1, Invariance, PTL

\* A parked run has a pending approval.
THEOREM ParkedRunsCanWake == Spec => []ParkedRunHasPendingApproval
  <1>1. IInv => ParkedRunHasPendingApproval
    BY DEF IInv, Approvals
  <1> QED
    BY <1>1, Invariance, PTL

Ended(r) == runStatus[r] \in {"succeeded", "failed"}

\* A step that starts, parks or wakes a run finds it in a status that is not
\* an end.
LEMMA NextEnded == IInv /\ [Next]_vars => \A r \in Runs : Ended(r) => Ended(r)'
  <1> SUFFICES ASSUME IInv, [Next]_vars
               PROVE  \A r \in Runs : Ended(r) => Ended(r)'
    OBVIOUS
  <1> USE DEF Ended, jobVars, runVars, loopVars, workerVars, claimVars, toolVars
  <1>a. /\ runStatus \in [Runs -> RunStatuses]
        /\ \A w \in Workers : pc[w] \in LoopPcs => runStatus[job[w]] = "running"
    BY DEF IInv, TypesAndGoroutines, TypeOK, RunsTypeOK, Ownership, LoopOwnsItsRun, InLoop
  <1>1. ASSUME NEW c \in Calls, EnqueueCheck(c)
        PROVE  \A s \in Runs : Ended(s) => Ended(s)'
    BY <1>1, <1>a DEF EnqueueCheck
  <1>2. ASSUME NEW l \in Loops, CreateRun(l)
        PROVE  \A s \in Runs : Ended(s) => Ended(s)'
    BY <1>2, <1>a DEF CreateRun, ReleaseLoop
  <1>3. ASSUME NEW l \in Loops, EnqueueJob(l)
        PROVE  \A s \in Runs : Ended(s) => Ended(s)'
    BY <1>3, <1>a DEF EnqueueJob, ReleaseLoop
  <1>4. ASSUME NEW w \in Workers, Poll(w)
        PROVE  \A s \in Runs : Ended(s) => Ended(s)'
    BY <1>4, <1>a DEF Poll
  <1>5. ASSUME NEW w \in Workers, NEW j \in Runs, Claim(w, j)
        PROVE  \A s \in Runs : Ended(s) => Ended(s)'
    BY <1>5, <1>a DEF Claim
  <1>6. ASSUME NEW w \in Workers, PoolComplete(w)
        PROVE  \A s \in Runs : Ended(s) => Ended(s)'
    BY <1>6, <1>a DEF PoolComplete, Release
  <1>7. ASSUME NEW w \in Workers, PoolFail(w)
        PROVE  \A s \in Runs : Ended(s) => Ended(s)'
    BY <1>7, <1>a DEF PoolFail, Release
  <1>8. ASSUME NEW w \in Workers, StartRun(w)
        PROVE  \A s \in Runs : Ended(s) => Ended(s)'
    BY <1>8, <1>a DEF StartRun
  <1>9. ASSUME NEW w \in Workers, ModelTurn(w)
        PROVE  \A s \in Runs : Ended(s) => Ended(s)'
    BY <1>9, <1>a DEF ModelTurn
  <1>10. ASSUME NEW w \in Workers, ToolRefused(w)
        PROVE  \A s \in Runs : Ended(s) => Ended(s)'
    BY <1>10, <1>a DEF ToolRefused, NextCall
  <1>11. ASSUME NEW w \in Workers, ToolProceeds(w)
        PROVE  \A s \in Runs : Ended(s) => Ended(s)'
    BY <1>11, <1>a DEF ToolProceeds
  <1>12. ASSUME NEW w \in Workers, ToolNeedsApproval(w)
        PROVE  \A s \in Runs : Ended(s) => Ended(s)'
    BY <1>12, <1>a DEF ToolNeedsApproval
  <1>13. ASSUME NEW w \in Workers, RequestApproval(w)
        PROVE  \A s \in Runs : Ended(s) => Ended(s)'
    BY <1>13, <1>a DEF RequestApproval, NextCall
  <1>14. ASSUME NEW w \in Workers, ToolExecutes(w)
        PROVE  \A s \in Runs : Ended(s) => Ended(s)'
    BY <1>14, <1>a DEF ToolExecutes, NextCall
  <1>15. ASSUME NEW w \in Workers, ParkRun(w) \/ FinishRun(w)
        PROVE  \A s \in Runs : Ended(s) => Ended(s)'
    BY <1>15, <1>a DEF ParkRun, FinishRun, EndLoop, LoopPcs
  <1>16. ASSUME NEW w \in Workers, HandlerComplete(w)
        PROVE  \A s \in Runs : Ended(s) => Ended(s)'
    BY <1>16, <1>a DEF HandlerComplete
  <1>17. ASSUME NEW w \in Workers, FailJob(w)
        PROVE  \A s \in Runs : Ended(s) => Ended(s)'
    BY <1>17, <1>a DEF FailJob
  <1>18. ASSUME NEW w \in Workers, FailRun(w)
        PROVE  \A s \in Runs : Ended(s) => Ended(s)'
    BY <1>18, <1>a DEF FailRun
  <1>19. ASSUME NEW j \in Runs, BecomeDue(j)
        PROVE  \A s \in Runs : Ended(s) => Ended(s)'
    BY <1>19, <1>a DEF BecomeDue
  <1>20. ASSUME NEW r \in Runs, NEW a \in Actions, NEW i \in 1 .. Len(approvals[r][a]),
                NEW v \in {"approved", "rejected"}, Decide(r, a, i, v)
        PROVE  \A s \in Runs : Ended(s) => Ended(s)'
    BY <1>20, <1>a DEF Decide
  <1>21. ASSUME Crash
        PROVE  \A s \in Runs : Ended(s) => Ended(s)'
    BY <1>21, <1>a DEF Crash
  <1>22. CASE UNCHANGED vars
    BY <1>22 DEF vars
  <1> QED
    BY <1>1, <1>2, <1>3, <1>4, <1>5, <1>6, <1>7, <1>8, <1>9, <1>10, <1>11,
       <1>12, <1>13, <1>14, <1>15, <1>16, <1>17, <1>18, <1>19, <1>20, <1>21, <1>22
       DEF Next, Loop, Worker, Tool

\* A run that has ended is never queued, running or parked again.
THEOREM EndIsFinal == Spec => EndedRunsStayEnded
  <1>1. IInv /\ [Next]_vars =>
          [\A r \in Runs : runStatus[r] \in {"succeeded", "failed"} =>
                            runStatus'[r] \in {"succeeded", "failed"}]_vars
    BY NextEnded DEF Ended
  <1> QED
    BY <1>1, Invariance, PTL DEF Spec, EndedRunsStayEnded
=============================================================================
