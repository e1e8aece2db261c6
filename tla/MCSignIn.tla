------------------------------ MODULE MCSignIn ------------------------------
(* A small instance of SignIn for TLC.                                     *)
EXTENDS SignIn, TLC

CONSTANTS u1, u2, e1, e2, a1, a2, p1, p2, o1, o2, c1

\* a1 is of a platform provider, a2 of a provider of the organisation o1.
MCProviderOf == a1 :> p1 @@ a2 :> p2
MCOwnerOf == a1 :> NONE @@ a2 :> o1

\* Nothing set, so that a token is generated; a token and an address.
MCConfigs == {[env |-> FALSE, admins |-> {}], [env |-> TRUE, admins |-> {e1}]}

Symmetry == Permutations({u1, u2})
=============================================================================
