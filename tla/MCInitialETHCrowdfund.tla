------------------------ MODULE MCInitialETHCrowdfund ------------------------
(* InitialETHCrowdfund on small instances: two contributors. *)
EXTENDS InitialETHCrowdfund

CONSTANTS a, b

MCContributors == {a, b}

=============================================================================
