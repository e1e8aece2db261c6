----------------------------- MODULE MCTenancy -----------------------------
(* A small instance of Tenancy for TLC.                                    *)
EXTENDS Tenancy, TLC

CONSTANTS o1, t1, u1, u2, e1, e2, d1, owner, member, r1, g1, g2, s1, p1, i1

MCTeamOrg == t1 :> o1
MCDomainOf == e1 :> d1 @@ e2 :> d1

\* By hand people get the seeded Member role, which the platform may edit.
MCManualGrants == {<<o1, member>>}

\* One group for the owners, another for a team.
MCMappingInputs ==
    {[group |-> g1, role |-> owner, res |-> o1, prov |-> NONE],
     [group |-> g2, role |-> member, res |-> t1, prov |-> NONE]}

Symmetry == Permutations({e1, e2}) \cup Permutations({u1, u2})
=============================================================================
