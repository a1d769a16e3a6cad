------------------------- MODULE MCPartyVotingPower -------------------------
(* Small instances of PartyVotingPower.                                    *)
EXTENDS PartyVotingPower, TLC

CONSTANTS alice, bob, carol, crowdfund

Members == Permutations({alice, bob, carol})

=============================================================================
