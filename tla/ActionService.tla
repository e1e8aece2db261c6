---------------------------- MODULE ActionService ----------------------------
(***************************************************************************)
(* What the dispatch pipeline promises its callers, without transactions,  *)
(* events, audit rows or errors: a call is let in or answered from the     *)
(* record of its key, takes effect at most once, and is closed with a      *)
(* result or without one.  A key is bound to one call for good; nobody is  *)
(* let in behind it, and nobody is answered with the result of another     *)
(* call than the one that is bound.  Whether a result still carries its    *)
(* one-time secret is left open.  Dispatch implements this.                *)
(***************************************************************************)
CONSTANTS
    Requests,   \* calls
    Keys,       \* idempotency keys
    NoKey,      \* a call without a key
    NoRequest,  \* no call
    Key,        \* key of each call
    Dry         \* calls that only ask for a preview

VARIABLES
    phase,      \* of a call: new, in or closed
    applied,    \* calls that took effect
    bound,      \* the call a key is bound to
    result      \* the call whose result a closed call was answered with

vars == <<phase, applied, bound, result>>

Init ==
    /\ phase = [r \in Requests |-> "new"]
    /\ applied = {}
    /\ bound = [k \in Keys |-> NoRequest]
    /\ result = [r \in Requests |-> NoRequest]

\* Nobody is let in once the key is bound.
LetIn(r) ==
    /\ phase[r] = "new"
    /\ r \notin Dry
    /\ Key[r] # NoKey => bound[Key[r]] = NoRequest
    /\ phase' = [phase EXCEPT ![r] = "in"]
    /\ UNCHANGED <<applied, bound, result>>

Apply(r) ==
    /\ phase[r] = "in"
    /\ r \notin applied
    /\ applied' = applied \cup {r}
    /\ UNCHANGED <<phase, bound, result>>

Bind(r) ==
    /\ phase[r] = "in"
    /\ r \in applied
    /\ Key[r] # NoKey
    /\ bound[Key[r]] = NoRequest
    /\ bound' = [bound EXCEPT ![Key[r]] = r]
    /\ UNCHANGED <<phase, applied, result>>

Close(r, q) ==
    /\ phase' = [phase EXCEPT ![r] = "closed"]
    /\ result' = [result EXCEPT ![r] = q]
    /\ UNCHANGED <<applied, bound>>

\* A call is answered with its own result, under the key that is bound to it.
Answer(r) ==
    /\ phase[r] = "in"
    /\ r \in applied
    /\ Key[r] # NoKey => bound[Key[r]] = r
    /\ Close(r, r)

\* A call that never came in is answered with the result its key is bound to.
Replay(r) ==
    /\ phase[r] = "new"
    /\ Key[r] # NoKey
    /\ bound[Key[r]] # NoRequest
    /\ Close(r, bound[Key[r]])

\* Any calls may be closed without a result at once, whatever they have done.
GiveUp(S) ==
    /\ \A r \in S : phase[r] # "closed"
    /\ phase' = [r \in Requests |-> IF r \in S THEN "closed" ELSE phase[r]]
    /\ UNCHANGED <<applied, bound, result>>

Next ==
    \/ \E r \in Requests : LetIn(r) \/ Apply(r) \/ Bind(r) \/ Answer(r) \/ Replay(r)
    \/ \E S \in SUBSET Requests : GiveUp(S)

Spec == Init /\ [][Next]_vars
=============================================================================
