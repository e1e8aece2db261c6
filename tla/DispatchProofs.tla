--------------------------- MODULE DispatchProofs ---------------------------
(***************************************************************************)
(* The safety properties of Dispatch for every set of calls, every         *)
(* assignment of keys, and any number of errors and crashes.               *)
(*                                                                         *)
(* The invariant says what a call has done at each point of the pipeline   *)
(* (ProgressOK), that whoever holds a result of a key holds the stored     *)
(* one or the one redacted to it (StoredOK), and that a call that came     *)
(* after a result was given is still before the lookup or over             *)
(* (LateCallsOK).                                                          *)
(***************************************************************************)
EXTENDS Dispatch, TLAPS

IInv ==
    /\ TypeOK
    /\ ProgressOK
    /\ StoredOK
    /\ LateCallsOK
    /\ RecordsFollowCommit
    /\ AnswerMatchesEffects
    /\ UnansweredOK

-----------------------------------------------------------------------------
\* What a call returns is a result, in the clear and redacted.
LEMMA OutForms ==
    /\ NoResult \in Results
    /\ \A r \in Requests : Out(r) \in Results /\ Redacted(Out(r)) \in Results
  BY SMT DEF Results, NoResult, Out, Redacted

\* A result and its redacted form say of which call they are.
LEMMA ResultOf ==
    /\ NoResult.of = NoRequest
    /\ \A r \in Requests :
         /\ Out(r).of = r /\ Redacted(Out(r)).of = r
         /\ Out(r) # NoResult /\ Redacted(Out(r)) # NoResult
  BY CallsAssumption DEF NoResult, Out, Redacted

\* Redacting a result takes its secret, and redacting it again changes nothing.
LEMMA RedactedForm ==
    \A x \in Results : /\ Redacted(x).of = x.of /\ ~ Redacted(x).secret
                        /\ Redacted(Redacted(x)) = Redacted(x)
  BY DEF Results, Redacted

\* What a key holds is the result of a call.
LEMMA StoredCall ==
    \A x \in Results : x = Redacted(x) /\ x # NoResult => x.of \in Requests
  BY DEF Results, Redacted, NoResult

\* The initial state satisfies the invariant.
LEMMA InitInv == Init => IInv
  BY CallsAssumption, BoundsAssumption, ResultOf, OutForms, RedactedForm
     DEF Init, IInv, TypeOK, ProgressOK, StoredOK, LateCallsOK, RecordsFollowCommit,
         AnswerMatchesEffects, UnansweredOK, Answered, SameKey, InFlight, Pcs, Replies

\* Every step keeps the variables in their types.
LEMMA NextTypes == TypeOK /\ ProgressOK /\ [Next]_vars => TypeOK'
<1> SUFFICES ASSUME TypeOK, ProgressOK, [Next]_vars PROVE TypeOK'
  OBVIOUS
<1> USE CallsAssumption, BoundsAssumption, OutForms
      DEF TypeOK, ProgressOK, Pcs, Replies, tableVars, callVars
<1>1. ASSUME NEW r \in Requests, Arrive(r) PROVE TypeOK'
  BY <1>1 DEF Arrive, Admit, Return, Goto
<1>2. ASSUME NEW r \in Requests, Get(r) PROVE TypeOK'
  BY <1>2 DEF Get, Return, Goto, ReturnError, Fails, Fault
<1>3. ASSUME NEW r \in Requests, Execute(r) PROVE TypeOK'
  BY <1>3 DEF Execute, Return, Goto, ReturnError, Fails, Fault
<1>4. ASSUME NEW r \in Requests, Put(r) PROVE TypeOK'
  BY <1>4 DEF Put, KeyIsFree, Return, Goto, ReturnError, Fails, Fault
<1>5. ASSUME NEW r \in Requests, Emit(r) PROVE TypeOK'
  BY <1>5 DEF Emit, Audits, Return, Goto
<1>6. ASSUME NEW r \in Requests, Audit(r) PROVE TypeOK'
  BY <1>6 DEF Audit, Return, ReturnError, Fails, Fault
<1>7. ASSUME NEW r \in Requests, Disconnect(r) PROVE TypeOK'
  BY <1>7 DEF Disconnect
<1>8. CASE Crash
  BY <1>8 DEF Crash, InFlight
<1>9. CASE UNCHANGED vars
  BY <1>9 DEF vars, InFlight
<1> QED BY <1>1, <1>2, <1>3, <1>4, <1>5, <1>6, <1>7, <1>8, <1>9 DEF Next, Step

\* A call has done what its place in the pipeline says.
LEMMA NextProgress == TypeOK /\ ProgressOK /\ [Next]_vars => ProgressOK'
<1> SUFFICES ASSUME TypeOK, ProgressOK, [Next]_vars PROVE ProgressOK'
  OBVIOUS
<1> USE CallsAssumption, BoundsAssumption
      DEF TypeOK, ProgressOK, InFlight, tableVars, callVars
<1>1. ASSUME NEW r \in Requests, Arrive(r) PROVE ProgressOK'
  BY <1>1 DEF Arrive, Admit, Return, Goto
<1>2. ASSUME NEW r \in Requests, Get(r) PROVE ProgressOK'
  BY <1>2 DEF Get, Return, Goto, ReturnError, Fails, Fault
<1>3. ASSUME NEW r \in Requests, Execute(r) PROVE ProgressOK'
  BY <1>3 DEF Execute, Return, Goto, ReturnError, Fails, Fault
<1>4. ASSUME NEW r \in Requests, Put(r) PROVE ProgressOK'
  BY <1>4 DEF Put, KeyIsFree, Return, Goto, ReturnError, Fails, Fault
<1>5. ASSUME NEW r \in Requests, Emit(r) PROVE ProgressOK'
  BY <1>5 DEF Emit, Audits, Return, Goto
<1>6. ASSUME NEW r \in Requests, Audit(r) PROVE ProgressOK'
  BY <1>6 DEF Audit, Return, ReturnError, Fails, Fault
<1>7. ASSUME NEW r \in Requests, Disconnect(r) PROVE ProgressOK'
  BY <1>7 DEF Disconnect
<1>8. CASE Crash
  BY <1>8 DEF Crash, InFlight
<1>9. CASE UNCHANGED vars
  BY <1>9 DEF vars, InFlight
<1> QED BY <1>1, <1>2, <1>3, <1>4, <1>5, <1>6, <1>7, <1>8, <1>9 DEF Next, Step

\* A stored result is never replaced, and whoever holds a result of a key holds
\* the stored one, up to its secret.
LEMMA NextStored == TypeOK /\ ProgressOK /\ StoredOK /\ [Next]_vars => StoredOK'
<1> SUFFICES ASSUME TypeOK, ProgressOK, StoredOK, [Next]_vars PROVE StoredOK'
  OBVIOUS
<1> USE CallsAssumption, BoundsAssumption, ResultOf, OutForms, RedactedForm
      DEF TypeOK, ProgressOK, StoredOK, Answered, InFlight, tableVars, callVars
<1>1. ASSUME NEW r \in Requests, Arrive(r) PROVE StoredOK'
  BY <1>1 DEF Arrive, Admit, Return, Goto
<1>2. ASSUME NEW r \in Requests, Get(r) PROVE StoredOK'
  <2>1. CASE Return(r, "replay", stored[Key[r]]) /\ stored[Key[r]] # NoResult
    <3>1. stored' = stored /\ Key[r] \in Keys
      BY <1>2 DEF Get
    <3>2. stored[Key[r]] = Redacted(stored[Key[r]]) /\ stored[Key[r]].of \in Requests
      BY <2>1, <3>1, StoredCall
    <3> QED BY <1>2, <2>1, <3>1, <3>2 DEF Get, Return
  <2>2. CASE Goto(r, "execute") \/ ReturnError(r)
    BY <1>2, <2>2 DEF Get, Return, Goto, ReturnError
  <2> QED BY <1>2, <2>1, <2>2 DEF Get
<1>3. ASSUME NEW r \in Requests, Execute(r) PROVE StoredOK'
  BY <1>3 DEF Execute, Return, Goto, ReturnError, Fails, Fault
<1>4. ASSUME NEW r \in Requests, Put(r) PROVE StoredOK'
  BY <1>4 DEF Put, KeyIsFree, Return, Goto, ReturnError, Fails, Fault
<1>5. ASSUME NEW r \in Requests, Emit(r) PROVE StoredOK'
  BY <1>5 DEF Emit, Audits, Return, Goto
<1>6. ASSUME NEW r \in Requests, Audit(r) PROVE StoredOK'
  BY <1>6 DEF Audit, Return, ReturnError, Fails, Fault
<1>7. ASSUME NEW r \in Requests, Disconnect(r) PROVE StoredOK'
  BY <1>7 DEF Disconnect
<1>8. CASE Crash
  BY <1>8 DEF Crash, InFlight
<1>9. CASE UNCHANGED vars
  BY <1>9 DEF vars, InFlight
<1> QED BY <1>1, <1>2, <1>3, <1>4, <1>5, <1>6, <1>7, <1>8, <1>9 DEF Next, Step

\* A call that came after a result of its key was given stays out of the handler.
LEMMA NextLate == TypeOK /\ ProgressOK /\ StoredOK /\ LateCallsOK /\ [Next]_vars => LateCallsOK'
<1> SUFFICES ASSUME TypeOK, ProgressOK, StoredOK, LateCallsOK, [Next]_vars PROVE LateCallsOK'
  OBVIOUS
<1> USE CallsAssumption, BoundsAssumption, ResultOf
      DEF TypeOK, ProgressOK, StoredOK, LateCallsOK, SameKey, Answered, InFlight, tableVars, callVars
<1>1. ASSUME NEW r \in Requests, Arrive(r) PROVE LateCallsOK'
  BY <1>1 DEF Arrive, Admit, Return, Goto
<1>2. ASSUME NEW r \in Requests, Get(r) PROVE LateCallsOK'
  <2>1. \A q \in Requests : Answered(q) /\ SameKey(q, r) => stored[Key[r]] # NoResult
    BY ResultOf, RedactedForm
  <2> QED BY <1>2, <2>1 DEF Get, Return, Goto, ReturnError
<1>3. ASSUME NEW r \in Requests, Execute(r) PROVE LateCallsOK'
  BY <1>3 DEF Execute, Return, Goto, ReturnError, Fails, Fault
<1>4. ASSUME NEW r \in Requests, Put(r) PROVE LateCallsOK'
  BY <1>4 DEF Put, KeyIsFree, Return, Goto, ReturnError, Fails, Fault
<1>5. ASSUME NEW r \in Requests, Emit(r) PROVE LateCallsOK'
  BY <1>5 DEF Emit, Audits, Return, Goto
<1>6. ASSUME NEW r \in Requests, Audit(r) PROVE LateCallsOK'
  BY <1>6 DEF Audit, Return, ReturnError, Fails, Fault
<1>7. ASSUME NEW r \in Requests, Disconnect(r) PROVE LateCallsOK'
  BY <1>7 DEF Disconnect
<1>8. CASE Crash
  BY <1>8 DEF Crash, InFlight
<1>9. CASE UNCHANGED vars
  BY <1>9 DEF vars, InFlight
<1> QED BY <1>1, <1>2, <1>3, <1>4, <1>5, <1>6, <1>7, <1>8, <1>9 DEF Next, Step

\* Events, audit rows and stored results follow the commit.
LEMMA NextRecords == TypeOK /\ ProgressOK /\ RecordsFollowCommit /\ [Next]_vars => RecordsFollowCommit'
<1> SUFFICES ASSUME TypeOK, ProgressOK, RecordsFollowCommit, [Next]_vars PROVE RecordsFollowCommit'
  OBVIOUS
<1> USE CallsAssumption, BoundsAssumption, ResultOf, OutForms, RedactedForm
      DEF TypeOK, ProgressOK, RecordsFollowCommit, InFlight, tableVars, callVars
<1>1. ASSUME NEW r \in Requests, Arrive(r) PROVE RecordsFollowCommit'
  BY <1>1 DEF Arrive, Admit, Return, Goto
<1>2. ASSUME NEW r \in Requests, Get(r) PROVE RecordsFollowCommit'
  BY <1>2 DEF Get, Return, Goto, ReturnError, Fails, Fault
<1>3. ASSUME NEW r \in Requests, Execute(r) PROVE RecordsFollowCommit'
  BY <1>3 DEF Execute, Return, Goto, ReturnError, Fails, Fault
<1>4. ASSUME NEW r \in Requests, Put(r) PROVE RecordsFollowCommit'
  BY <1>4 DEF Put, KeyIsFree, Return, Goto, ReturnError, Fails, Fault
<1>5. ASSUME NEW r \in Requests, Emit(r) PROVE RecordsFollowCommit'
  BY <1>5 DEF Emit, Audits, Return, Goto
<1>6. ASSUME NEW r \in Requests, Audit(r) PROVE RecordsFollowCommit'
  BY <1>6 DEF Audit, Return, ReturnError, Fails, Fault
<1>7. ASSUME NEW r \in Requests, Disconnect(r) PROVE RecordsFollowCommit'
  BY <1>7 DEF Disconnect
<1>8. CASE Crash
  BY <1>8 DEF Crash, InFlight
<1>9. CASE UNCHANGED vars
  BY <1>9 DEF vars, InFlight
<1> QED BY <1>1, <1>2, <1>3, <1>4, <1>5, <1>6, <1>7, <1>8, <1>9 DEF Next, Step

\* What a call is answered stays true, and is true when it is given.
LEMMA NextAnswers == TypeOK /\ ProgressOK /\ StoredOK /\ RecordsFollowCommit /\ AnswerMatchesEffects /\ [Next]_vars => AnswerMatchesEffects'
<1> SUFFICES ASSUME TypeOK, ProgressOK, StoredOK, RecordsFollowCommit, AnswerMatchesEffects, [Next]_vars PROVE AnswerMatchesEffects'
  OBVIOUS
<1> USE CallsAssumption, BoundsAssumption, ResultOf, OutForms, RedactedForm
      DEF TypeOK, ProgressOK, StoredOK, RecordsFollowCommit, AnswerMatchesEffects, Answered, InFlight, tableVars, callVars
<1>1. ASSUME NEW r \in Requests, Arrive(r) PROVE AnswerMatchesEffects'
  BY <1>1 DEF Arrive, Admit, Return, Goto
<1>2. ASSUME NEW r \in Requests, Get(r) PROVE AnswerMatchesEffects'
  BY <1>2 DEF Get, Return, Goto, ReturnError, Fails, Fault
<1>3. ASSUME NEW r \in Requests, Execute(r) PROVE AnswerMatchesEffects'
  BY <1>3 DEF Execute, Return, Goto, ReturnError, Fails, Fault
<1>4. ASSUME NEW r \in Requests, Put(r) PROVE AnswerMatchesEffects'
  BY <1>4 DEF Put, KeyIsFree, Return, Goto, ReturnError, Fails, Fault
<1>5. ASSUME NEW r \in Requests, Emit(r) PROVE AnswerMatchesEffects'
  BY <1>5 DEF Emit, Audits, Return, Goto
<1>6. ASSUME NEW r \in Requests, Audit(r) PROVE AnswerMatchesEffects'
  BY <1>6 DEF Audit, Return, ReturnError, Fails, Fault
<1>7. ASSUME NEW r \in Requests, Disconnect(r) PROVE AnswerMatchesEffects'
  BY <1>7 DEF Disconnect
<1>8. CASE Crash
  BY <1>8 DEF Crash, InFlight
<1>9. CASE UNCHANGED vars
  BY <1>9 DEF vars, InFlight
<1> QED BY <1>1, <1>2, <1>3, <1>4, <1>5, <1>6, <1>7, <1>8, <1>9 DEF Next, Step

\* A call gets its result with its last step.
LEMMA NextUnanswered == TypeOK /\ UnansweredOK /\ [Next]_vars => UnansweredOK'
<1> SUFFICES ASSUME TypeOK, UnansweredOK, [Next]_vars PROVE UnansweredOK'
  OBVIOUS
<1> USE DEF TypeOK, UnansweredOK, InFlight, tableVars, callVars
<1>1. ASSUME NEW r \in Requests, Step(r) PROVE UnansweredOK'
  BY <1>1 DEF Step, Arrive, Admit, Get, Execute, Put, Emit, Audit, Disconnect,
              Return, Goto, ReturnError
<1>2. CASE Crash
  BY <1>2 DEF Crash
<1>3. CASE UNCHANGED vars
  BY <1>3 DEF vars
<1> QED BY <1>1, <1>2, <1>3 DEF Next

-----------------------------------------------------------------------------
(* The theorems                                                            *)

\* Every behaviour of the pipeline satisfies the invariant in every state.
THEOREM Invariance == Spec => []IInv
<1>1. Init => IInv
  BY InitInv
<1>2. IInv /\ [Next]_vars => IInv'
  BY NextTypes, NextProgress, NextStored, NextLate, NextRecords, NextAnswers,
     NextUnanswered DEF IInv
<1> QED BY <1>1, <1>2, PTL DEF Spec

\* The variables keep their types (Dispatch and its tables).
THEOREM TypeCorrect == Spec => []TypeOK
<1>1. IInv => TypeOK
  BY DEF IInv
<1> QED BY <1>1, Invariance, PTL

\* What Dispatch returns matches what it has committed, published and audited.
THEOREM AnswersAreTrue == Spec => []AnswerMatchesEffects
<1>1. IInv => AnswerMatchesEffects
  BY DEF IInv
<1> QED BY <1>1, Invariance, PTL

\* Events, audit rows and stored results exist only for committed calls.
THEOREM CommitFirst == Spec => []RecordsFollowCommit
<1>1. IInv => RecordsFollowCommit
  BY DEF IInv
<1> QED BY <1>1, Invariance, PTL

\* All callers with one key get the result of one call: the one that executed in
\* the clear, every other one the same redacted form (dispatch.go, steps 7 to 9).
THEOREM OneResultPerKey == Spec => []AnswersAgree
<1>1. IInv => AnswersAgree
  BY ResultOf, OutForms, RedactedForm DEF IInv, TypeOK, StoredOK, AnswerMatchesEffects, AnswersAgree, Answered, SameKey
<1> QED BY <1>1, Invariance, PTL

\* A retry of a call that was answered with a result does not execute.
THEOREM AnsweredCallsAreNotRepeated == Spec => []NoRepeatAfterAnswer
<1>1. IInv => NoRepeatAfterAnswer
  BY DEF IInv, TypeOK, LateCallsOK, NoRepeatAfterAnswer
<1> QED BY <1>1, Invariance, PTL

-----------------------------------------------------------------------------
(* The refinement: a step of the pipeline is a step of ActionService or    *)
(* leaves its state alone.                                                 *)

\* A call that ends without a result closes in the service.
LEMMA EndsWithoutResult ==
    ASSUME TypeOK, UnansweredOK, NEW r \in Requests, pc[r] # "done",
           pc' = [pc EXCEPT ![r] = "done"],
           answer' = [answer EXCEPT ![r] = NoResult],
           UNCHANGED <<rows, stored>>
    PROVE  Service!GiveUp({r})
<1>1. answer' = answer
  BY DEF TypeOK, UnansweredOK
<1>2. \A q \in {r} : Phase(q) # "closed"
  BY DEF Phase
<1>3. [q \in Requests |-> Phase(q)]'
        = [q \in Requests |-> IF q \in {r} THEN "closed" ELSE [p \in Requests |-> Phase(p)][q]]
  BY DEF TypeOK, Phase
<1> QED BY <1>1, <1>2, <1>3 DEF Service!GiveUp

\* Where a call has only moved on inside one phase, the service is as before.
LEMMA MovesInPhase ==
    ASSUME TypeOK, NEW r \in Requests, NEW l,
           pc' = [pc EXCEPT ![r] = l],
           Phase(r)' = Phase(r),
           UNCHANGED <<answer, rows, stored>>
    PROVE  UNCHANGED Service!vars
  BY DEF TypeOK, Phase, Service!vars

\* A step of a call.
LEMMA StepRefines ==
    ASSUME IInv, NEW r \in Requests, Step(r)
    PROVE  Service!Next \/ UNCHANGED Service!vars
<1> USE CallsAssumption
    DEF IInv, TypeOK, ProgressOK, tableVars, callVars
<1> DEFINE BoundCalls == [k \in Keys |-> stored[k].of]
           ResultCalls == [q \in Requests |-> answer[q].of]
<1> SUFFICES \/ Service!LetIn(r) \/ Service!Apply(r) \/ Service!Bind(r)
             \/ Service!Answer(r) \/ Service!Replay(r)
             \/ Service!GiveUp({r})
             \/ UNCHANGED Service!vars
  BY DEF Service!Next
<1>1. CASE Arrive(r)
  <2>1. CASE Return(r, "refused", NoResult) \/ Return(r, "preview", NoResult)
    BY <1>1, <2>1, EndsWithoutResult DEF Arrive, Return
  <2>2. CASE r \notin Dry /\ Key[r] # NoKey /\ Goto(r, "get")
    BY <1>1, <2>2, MovesInPhase DEF Arrive, Goto, Phase
  <2>3. CASE r \notin Dry /\ Key[r] = NoKey /\ Goto(r, "execute")
    <3>1. Service!LetIn(r)
      BY <1>1, <2>3 DEF Arrive, Goto, Phase, Service!LetIn
    <3> QED BY <3>1
  <2> QED BY <1>1, <2>1, <2>2, <2>3 DEF Arrive, Admit
<1>2. CASE Get(r)
  <2>1. CASE ReturnError(r)
    BY <1>2, <2>1, EndsWithoutResult DEF Get, Return, ReturnError
  <2>2. CASE stored[Key[r]] = NoResult /\ Goto(r, "execute")
    <3>1. Service!LetIn(r)
      BY <1>2, <2>2, ResultOf DEF Get, Goto, Phase, Service!LetIn, InFlight
    <3> QED BY <3>1
  <2>3. CASE stored[Key[r]] # NoResult /\ Return(r, "replay", stored[Key[r]])
    <3>1. Key[r] \in Keys /\ stored[Key[r]].of # NoRequest
      BY <1>2, <2>3 DEF Get, RecordsFollowCommit
    <3>2. ResultCalls' = [ResultCalls EXCEPT ![r] = stored[Key[r]].of]
      BY <2>3 DEF Return
    <3>3. Service!Replay(r)
      BY <1>2, <2>3, <3>1, <3>2 DEF Get, Return, Phase, Service!Replay, Service!Close
    <3> QED BY <3>3
  <2> QED BY <1>2, <2>1, <2>2, <2>3 DEF Get
<1>3. CASE Execute(r)
  <2>1. CASE ReturnError(r) /\ UNCHANGED rows
    BY <1>3, <2>1, EndsWithoutResult DEF Execute, Return, ReturnError
  <2>2. CASE rows' = rows \cup {r} /\ Goto(r, IF Key[r] = NoKey THEN "emit" ELSE "put")
    <3>1. Service!Apply(r)
      BY <1>3, <2>2 DEF Execute, Goto, Phase, Service!Apply
    <3> QED BY <3>1
  <2> QED BY <1>3, <2>1, <2>2 DEF Execute
<1>4. CASE Put(r)
  <2>1. CASE ReturnError(r) /\ UNCHANGED stored
    BY <1>4, <2>1, EndsWithoutResult DEF Put, Return, ReturnError
  <2>2. CASE KeyIsFree(Key[r]) /\ stored' = [stored EXCEPT ![Key[r]] = Redacted(Out(r))] /\ Goto(r, "emit")
    <3>1. Key[r] \in Keys /\ stored[Key[r]].of = NoRequest
      BY <1>4, <2>2, ResultOf DEF Put, KeyIsFree
    <3>2. BoundCalls' = [BoundCalls EXCEPT ![Key[r]] = r]
      BY <2>2, <3>1, ResultOf
    <3>3. Service!Bind(r)
      BY <1>4, <2>2, <3>1, <3>2 DEF Put, Goto, Phase, Service!Bind
    <3> QED BY <3>3
  <2> QED BY <1>4, <2>1, <2>2 DEF Put
<1>5. ASSUME pc[r] \in {"emit", "audit"}, Return(r, "ok", Out(r)), UNCHANGED <<rows, stored>>
      PROVE  Service!Answer(r)
  <2>1. Key[r] # NoKey => Key[r] \in Keys /\ stored[Key[r]].of = r
    BY <1>5, ResultOf DEF StoredOK
  <2>2. ResultCalls' = [ResultCalls EXCEPT ![r] = r]
    BY <1>5, ResultOf DEF Return
  <2> QED BY <1>5, <2>1, <2>2 DEF Return, Phase, Service!Answer, Service!Close
<1>6. CASE Emit(r)
  <2>1. CASE Goto(r, "audit")
    BY <1>6, <2>1, MovesInPhase DEF Emit, Goto, Phase
  <2>2. CASE Return(r, "ok", Out(r))
    BY <1>5, <1>6, <2>2 DEF Emit
  <2> QED BY <1>6, <2>1, <2>2 DEF Emit
<1>7. CASE Audit(r)
  <2>1. CASE Return(r, "ok", Out(r))
    BY <1>5, <1>7, <2>1 DEF Audit
  <2>2. CASE ReturnError(r)
    BY <1>7, <2>2, EndsWithoutResult DEF Audit, Return, ReturnError
  <2> QED BY <1>7, <2>1, <2>2 DEF Audit
<1>8. CASE Disconnect(r)
  BY <1>8 DEF Disconnect, Phase, Service!vars
<1> QED BY <1>1, <1>2, <1>3, <1>4, <1>6, <1>7, <1>8 DEF Step

\* A crash closes every call in flight.
LEMMA CrashRefines == ASSUME TypeOK, Crash PROVE Service!Next
<1> DEFINE S == {r \in Requests : InFlight(r)}
<1>1. Service!GiveUp(S)
  BY DEF TypeOK, Crash, InFlight, Phase, tableVars, Service!GiveUp
<1> QED BY <1>1 DEF Service!Next

\* Dispatch implements ActionService: the promise of idempotency keys survives
\* the pipeline's separate statements, its errors, disconnects and crashes.
THEOREM Refinement == Spec => ImplementsService
<1>1. Init => Service!Init
  BY ResultOf DEF Init, Phase, Service!Init
<1>2. IInv /\ [Next]_vars => [Service!Next]_(Service!vars)
  <2> SUFFICES ASSUME IInv, [Next]_vars PROVE Service!Next \/ UNCHANGED Service!vars
    OBVIOUS
  <2>1. CASE UNCHANGED vars
    BY <2>1 DEF vars, callVars, tableVars, Phase, Service!vars
  <2>2. CASE Crash
    BY <2>2, CrashRefines DEF IInv
  <2> QED BY <2>1, <2>2, StepRefines DEF Next
<1> QED BY <1>1, <1>2, Invariance, PTL DEF Spec, ImplementsService, Service!Spec
=============================================================================
