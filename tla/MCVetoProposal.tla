--------------------------- MODULE MCVetoProposal ---------------------------
(* Small instances of VetoProposal.                                        *)
EXTENDS VetoProposal, TLC

CONSTANTS alice, bob

\* Three parts of power, before and after alice sells hers to bob.
VotingPowers ==
  {alice :> 2 @@ bob :> 1 @@ VetoHost :> 0, alice :> 0 @@ bob :> 3 @@ VetoHost :> 0}

\* Once the total leaves room, a fourth is minted to bob, who buys the others.
GrowingPowers ==
  {alice :> 2 @@ bob :> 1 @@ VetoHost :> 0, alice :> 0 @@ bob :> 4 @@ VetoHost :> 0}

=============================================================================
