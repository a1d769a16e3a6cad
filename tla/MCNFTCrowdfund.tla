---------------------------- MODULE MCNFTCrowdfund ----------------------------
(* NFTCrowdfund on small instances: two contributors, the second of whom is the
   recipient of the split, and two NFTs. *)
EXTENDS NFTCrowdfund

CONSTANTS a, b

MCContributors == {a, b}

=============================================================================
