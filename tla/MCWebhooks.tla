------------------------------ MODULE MCWebhooks ------------------------------
EXTENDS Webhooks, TLC

CONSTANTS h1, h2, e1, e2, w1, w2

MCEventName == [e \in Events |-> IF e = e1 THEN "task.create" ELSE "task.move"]

\* A filter for the first event, and one that was left blank.  The second event
\* matches no filter: it takes the place of another in the buffer.
MCFilters == {{"task.create"}, {}}

\* Webhooks and workers are interchangeable; the events have a name each.
Symmetry == Permutations(Hooks) \cup Permutations(Workers)

=============================================================================
