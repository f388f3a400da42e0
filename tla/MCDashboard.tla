----------------------------- MODULE MCDashboard -----------------------------
(* Dashboard on small sets: enough clicks to register, create and refresh  *)
(* with one overlap to spare.                                              *)
EXTENDS Dashboard

Symmetry == UNION {Permutations(S) : S \in {Clicks, UserIds, VehicleIds, Emails, Vins}}

=============================================================================
