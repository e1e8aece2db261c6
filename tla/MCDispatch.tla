----------------------------- MODULE MCDispatch -----------------------------
(* Small instances of Dispatch for TLC.                                    *)
EXTENDS Dispatch, TLC

CONSTANTS q1, q2, q3, a1, d1, k1

\* Three tries of one API call that returns a new token, a call of an agent and
\* a dry run.
MCKey == [r \in Requests |-> IF r \in {q1, q2, q3} THEN k1 ELSE NoKey]
MCSecret == {q1, q2, q3} \cap Requests
MCMustAudit == Requests \ {d1}

Symmetry == Permutations({q1, q2, q3} \cap Requests)
=============================================================================
