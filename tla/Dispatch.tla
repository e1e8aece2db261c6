------------------------------ MODULE Dispatch ------------------------------
(***************************************************************************)
(* The dispatch pipeline (internal/action): what Dispatcher.Dispatch does  *)
(* for each call of an action, by a person, an API key or an agent.        *)
(*                                                                         *)
(* The handler runs in one transaction; the idempotency record and the     *)
(* audit row are separate statements before and after it, on the same      *)
(* context, which a disconnecting client cancels.  Each of them is a step, *)
(* so concurrent calls interleave between them and a crash can fall        *)
(* between any two.  A retry is another call with the same key.            *)
(***************************************************************************)
EXTENDS Integers, FiniteSets

CONSTANTS
    Requests,     \* calls of Dispatch
    Keys,         \* idempotency keys
    NoKey,        \* a call without a key
    NoRequest,    \* no call
    Key,          \* key of each call: opts.Idem
    Dry,          \* calls with opts.DryRun
    Secret,       \* calls whose result is a SecretResult
    MustAudit,    \* calls of a high-impact action, and every call of an agent
    MaxFaults,    \* bound: database errors
    MaxCrashes    \* bound: crashes of the process

ASSUME CallsAssumption ==
    /\ NoKey \notin Keys
    /\ NoRequest \notin Requests
    /\ Key \in [Requests -> Keys \cup {NoKey}]
    /\ Dry \subseteq Requests
    /\ Secret \subseteq Requests
    /\ MustAudit \subseteq Requests

ASSUME BoundsAssumption == MaxFaults \in Nat /\ MaxCrashes \in Nat

VARIABLES
    pc,          \* progress of a call through the pipeline
    reply,       \* how it was answered
    answer,      \* the result it was answered with
    cancelled,   \* calls whose context is cancelled
    rows,        \* calls whose transaction has committed
    stored,      \* idempotency_keys: the result a key holds
    events,      \* calls whose event was published
    audited,     \* calls with a row in audit_log
    prior,       \* history: calls answered with a result before this one came
    faults,
    crashes

tableVars == <<rows, stored, audited>>
callVars  == <<pc, reply, answer>>
vars == <<callVars, cancelled, tableVars, events, prior, faults, crashes>>

Pcs == {"idle", "get", "execute", "put", "emit", "audit", "done"}

\* A result of its own, the stored result of an earlier call, a preview, a
\* refusal before anything is done, an error later on; a crash answers nothing.
Replies == {"none", "ok", "replay", "preview", "refused", "error", "lost"}

Answered(r) == reply[r] \in {"ok", "replay"}

\* A result says which call it is of and whether it carries a one-time secret.
Results == [of : Requests \cup {NoRequest}, secret : BOOLEAN]

NoResult == [of |-> NoRequest, secret |-> FALSE]

\* What the handler of a call returns: a new token or key comes in the clear.
Out(r) == [of |-> r, secret |-> r \in Secret]

\* Mutant: a SecretResult is stored as it is.
StoredAsIs(out) == out

\* The form Dispatch stores, emits and audits; other results stay as they are.
Redacted(out) == [of |-> out.of, secret |-> FALSE]

Fault == faults < MaxFaults /\ faults' = faults + 1

\* A statement on the call's context fails.
Fails(r) == (r \in cancelled /\ UNCHANGED faults) \/ Fault

Goto(r, label) ==
    /\ pc' = [pc EXCEPT ![r] = label]
    /\ UNCHANGED <<reply, answer>>

Return(r, kind, result) ==
    /\ pc' = [pc EXCEPT ![r] = "done"]
    /\ reply' = [reply EXCEPT ![r] = kind]
    /\ answer' = [answer EXCEPT ![r] = result]

ReturnError(r) == Return(r, "error", NoResult)

-----------------------------------------------------------------------------
\* Mutant: a dry run goes on to execute.
AdmitDry(r) == Goto(r, IF Key[r] = NoKey THEN "execute" ELSE "get")

\* Mutant: the key is not looked up.
AdmitUnchecked(r) ==
    IF r \in Dry THEN Return(r, "preview", NoResult) ELSE Goto(r, "execute")

\* A call that passed every check: a dry run ends with a preview, a call with
\* a key looks it up.
Admit(r) ==
    IF r \in Dry THEN Return(r, "preview", NoResult)
                 ELSE Goto(r, IF Key[r] = NoKey THEN "execute" ELSE "get")

\* The actor, the action, the input, the scope, the permission and the approval
\* gate are checked; none of them writes to this module's tables.
Arrive(r) ==
    /\ pc[r] = "idle"
    /\ prior' = [prior EXCEPT ![r] = {q \in Requests : Answered(q)}]
    /\ Return(r, "refused", NoResult) \/ Admit(r)
    /\ UNCHANGED <<cancelled, tableVars, events, faults, crashes>>

Get(r) ==
    /\ pc[r] = "get"
    /\ \/ /\ r \notin cancelled
          /\ IF stored[Key[r]] = NoResult THEN Goto(r, "execute")
                                          ELSE Return(r, "replay", stored[Key[r]])
          /\ UNCHANGED faults
       \/ Fails(r) /\ ReturnError(r)
    /\ UNCHANGED <<cancelled, tableVars, events, prior, crashes>>

\* Mutant: a failed handler is reported only after the event.
ExecuteAnyway(r) ==
    /\ pc[r] = "execute"
    /\ rows' = rows \cup {r} \/ UNCHANGED rows
    /\ Goto(r, IF Key[r] = NoKey THEN "emit" ELSE "put")
    /\ UNCHANGED <<cancelled, stored, audited, events, prior, faults, crashes>>

\* The handler and the commit, in one transaction.  The handler may refuse the
\* call (nothing is written), and a failed commit writes nothing.
Execute(r) ==
    /\ pc[r] = "execute"
    /\ \/ /\ r \notin cancelled
          /\ rows' = rows \cup {r}
          /\ Goto(r, IF Key[r] = NoKey THEN "emit" ELSE "put")
          /\ UNCHANGED faults
       \/ /\ Fails(r) \/ UNCHANGED faults
          /\ ReturnError(r)
          /\ UNCHANGED rows
    /\ UNCHANGED <<cancelled, stored, audited, events, prior, crashes>>

\* Mutant: INSERT OR REPLACE.
AlwaysFree(k) == TRUE

\* The primary key of idempotency_keys.
KeyIsFree(k) == stored[k] = NoResult

\* Mutant: the key is stored in the place of the call.
PutKey(r) ==
    /\ pc[r] = "put"
    /\ stored' = [stored EXCEPT ![Key[r]] = [of |-> Key[r], secret |-> FALSE]]
    /\ Goto(r, "emit")
    /\ UNCHANGED <<cancelled, rows, audited, events, prior, faults, crashes>>

\* Mutant: a conflict on the key is not an error.
PutIgnored(r) ==
    /\ pc[r] = "put"
    /\ stored' = IF KeyIsFree(Key[r]) THEN [stored EXCEPT ![Key[r]] = Redacted(Out(r))]
                                     ELSE stored
    /\ Goto(r, "emit")
    /\ UNCHANGED <<cancelled, rows, audited, events, prior, faults, crashes>>

\* Only the redacted form is stored.  A key that another call stored meanwhile
\* is a conflict: the call is answered with an error although it has committed.
Put(r) ==
    /\ pc[r] = "put"
    /\ \/ /\ r \notin cancelled /\ KeyIsFree(Key[r])
          /\ stored' = [stored EXCEPT ![Key[r]] = Redacted(Out(r))]
          /\ Goto(r, "emit")
          /\ UNCHANGED faults
       \/ /\ Fails(r) \/ (~ KeyIsFree(Key[r]) /\ UNCHANGED faults)
          /\ ReturnError(r)
          /\ UNCHANGED stored
    /\ UNCHANGED <<cancelled, rows, audited, events, prior, crashes>>

\* Mutant: a call without an idempotency key is not audited.
AuditsKeyedOnly(r) == r \in MustAudit /\ Key[r] # NoKey

\* Whether the last step of the pipeline applies.
Audits(r) == r \in MustAudit

\* Publishing is in memory: it neither fails nor looks at the context.  Event
\* and audit row carry the redacted result; here they only say of which call.
\* The caller gets the result as the handler returned it.
Emit(r) ==
    /\ pc[r] = "emit"
    /\ events' = events \cup {r}
    /\ IF Audits(r) THEN Goto(r, "audit") ELSE Return(r, "ok", Out(r))
    /\ UNCHANGED <<cancelled, tableVars, prior, faults, crashes>>

Audit(r) ==
    /\ pc[r] = "audit"
    /\ \/ /\ r \notin cancelled
          /\ audited' = audited \cup {r}
          /\ Return(r, "ok", Out(r))
          /\ UNCHANGED faults
       \/ Fails(r) /\ ReturnError(r) /\ UNCHANGED audited
    /\ UNCHANGED <<cancelled, rows, stored, events, prior, crashes>>

InFlight(r) == pc[r] \notin {"idle", "done"}

\* The client goes away: net/http cancels the request's context.
Disconnect(r) ==
    /\ InFlight(r)
    /\ r \notin cancelled
    /\ cancelled' = cancelled \cup {r}
    /\ UNCHANGED <<callVars, tableVars, events, prior, faults, crashes>>

\* The calls in flight are lost, the tables stay.
Crash ==
    /\ crashes < MaxCrashes
    /\ crashes' = crashes + 1
    /\ pc' = [r \in Requests |-> IF InFlight(r) THEN "done" ELSE pc[r]]
    /\ reply' = [r \in Requests |-> IF InFlight(r) THEN "lost" ELSE reply[r]]
    /\ UNCHANGED <<answer, cancelled, tableVars, events, prior, faults>>

-----------------------------------------------------------------------------
Init ==
    /\ pc = [r \in Requests |-> "idle"]
    /\ reply = [r \in Requests |-> "none"]
    /\ answer = [r \in Requests |-> NoResult]
    /\ cancelled = {}
    /\ rows = {}
    /\ stored = [k \in Keys |-> NoResult]
    /\ events = {}
    /\ audited = {}
    /\ prior = [r \in Requests |-> {}]
    /\ faults = 0
    /\ crashes = 0

Step(r) ==
    Arrive(r) \/ Get(r) \/ Execute(r) \/ Put(r) \/ Emit(r) \/ Audit(r) \/ Disconnect(r)

Next == (\E r \in Requests : Step(r)) \/ Crash

Spec == Init /\ [][Next]_vars

-----------------------------------------------------------------------------
(* Properties                                                              *)

\* The variables range over the values the pipeline gives them.
TypeOK ==
    /\ pc \in [Requests -> Pcs]
    /\ reply \in [Requests -> Replies]
    /\ answer \in [Requests -> Results]
    /\ cancelled \in SUBSET Requests
    /\ rows \in SUBSET Requests
    /\ stored \in [Keys -> Results]
    /\ events \in SUBSET Requests
    /\ audited \in SUBSET Requests
    /\ prior \in [Requests -> SUBSET Requests]
    /\ faults \in 0 .. MaxFaults
    /\ crashes \in 0 .. MaxCrashes

\* A caller can rely on what Dispatch returns.  A result of its own: the change
\* is committed, its event is out, and its audit row is written if it needs
\* one.  A replay: the call changed nothing itself, and the call it repeats has
\* committed under the same key.  A preview or a refusal: nothing happened.
AnswerMatchesEffects ==
    \A r \in Requests :
        /\ reply[r] = "ok" =>
             /\ answer[r] = Out(r) /\ r \in rows /\ r \in events
             /\ r \in MustAudit => r \in audited
        /\ reply[r] = "replay" =>
             /\ answer[r].of \in rows /\ Key[answer[r].of] = Key[r]
             /\ r \notin rows \cup events \cup audited
        /\ reply[r] \in {"preview", "refused"} => r \notin rows \cup events \cup audited

\* No trace without a change: subscribers, the audit log and later retries
\* only ever see calls whose transaction has committed, and never a dry run,
\* whatever fails and whenever the client or the process goes away.
RecordsFollowCommit ==
    /\ events \subseteq rows
    /\ audited \subseteq rows
    /\ \A k \in Keys : stored[k] # NoResult => stored[k].of \in rows
    /\ rows \cap Dry = {}

SameKey(q, r) == Key[q] = Key[r] /\ Key[r] # NoKey

\* All calls with one key that are answered with a result are answered with the
\* result of one call, even when several of them execute: the primary key turns
\* the others into errors.  Their answers are the same but for a one-time
\* secret: at most one of the callers gets it, and all replays are identical.
AnswersAgree ==
    \A q, r \in Requests :
        SameKey(q, r) /\ Answered(q) /\ Answered(r) =>
            /\ Redacted(answer[q]) = Redacted(answer[r])
            /\ answer[q].secret /\ answer[r].secret => q = r
            /\ reply[q] = "replay" /\ reply[r] = "replay" => answer[q] = answer[r]

\* A call never executes if it arrives after another call with its key was
\* answered with a result.  (It may if that call failed or still runs.)
NoRepeatAfterAnswer ==
    \A r \in rows : \A q \in prior[r] : ~ SameKey(q, r)

(***************************************************************************)
(* The refinement.  A call is new until the lookup of its key has let it   *)
(* through.  The service only knows which call a result is of, not whether *)
(* it is redacted.                                                         *)
(***************************************************************************)
Phase(r) == IF pc[r] \in {"idle", "get"} THEN "new"
            ELSE IF pc[r] = "done" THEN "closed" ELSE "in"

Service == INSTANCE ActionService WITH
               phase   <- [r \in Requests |-> Phase(r)],
               applied <- rows,
               bound   <- [k \in Keys |-> stored[k].of],
               result  <- [r \in Requests |-> answer[r].of]

\* With its separate statements, errors, disconnects and crashes the pipeline
\* still is the service that binds a key once, lets nobody in behind it and
\* answers nobody with the result of another call than the one that is bound.
ImplementsService == Service!Spec

-----------------------------------------------------------------------------
(* What the documentation says and the code does not do.                   *)

\* "Mutating actions accept an idempotency key so retries (agent or network)
\* do not double-apply": of the calls with one key at most one commits.
RetriesDoNotDoubleApply ==
    \A q, r \in rows : q # r => ~ SameKey(q, r)

-----------------------------------------------------------------------------
(* The inductive invariant behind the safety properties.                   *)

\* What a call has done when it is at a point of the pipeline.
ProgressOK ==
    \A r \in Requests :
        /\ pc[r] \in {"idle", "get", "execute"} => r \notin rows
        /\ pc[r] \in {"put", "emit", "audit"} => r \in rows
        /\ pc[r] \in {"get", "put"} => Key[r] # NoKey
        /\ pc[r] = "audit" => r \in events
        /\ pc[r] # "done" => reply[r] = "none"
        /\ InFlight(r) => r \notin Dry
        /\ r \notin rows => r \notin events \cup audited

\* A call has no result before its end.
UnansweredOK == \A r \in Requests : pc[r] # "done" => answer[r] = NoResult

\* Whoever holds a result of a key holds the one that is stored, or the result
\* that was redacted to it; a replay holds the redacted one.
StoredOK ==
    /\ \A k \in Keys : stored[k] # NoResult =>
         Key[stored[k].of] = k /\ stored[k] = Redacted(stored[k])
    /\ \A r \in Requests :
         /\ pc[r] \in {"emit", "audit"} /\ Key[r] # NoKey => stored[Key[r]] = Redacted(Out(r))
         /\ Answered(r) /\ Key[r] # NoKey => stored[Key[r]] = Redacted(answer[r])
         /\ Answered(r) => answer[r].of \in Requests
         /\ reply[r] = "replay" => answer[r] = Redacted(answer[r])

\* A call that came after a result was given cannot get past the lookup.
LateCallsOK ==
    \A r \in Requests : \A q \in prior[r] :
        /\ Answered(q)
        /\ SameKey(q, r) => pc[r] \in {"get", "done"} /\ r \notin rows
=============================================================================
