------------------------ MODULE MCReraiseETHCrowdfund ------------------------
(* ReraiseETHCrowdfund on small instances: two contributors. *)
EXTENDS ReraiseETHCrowdfund

CONSTANTS a, b

MCContributors == {a, b}

=============================================================================
