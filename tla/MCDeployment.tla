---------------------------- MODULE MCDeployment ----------------------------
(* Deployment with two people, who may type in the same email or phone, and*)
(* three accounts: one person may have one of the mock and one of Clerk.   *)
EXTENDS Deployment, TLC

Symmetry ==
    Permutations(Logins) \cup Permutations(UserIds)
    \cup Permutations(Emails) \cup Permutations(Phones)

=============================================================================
