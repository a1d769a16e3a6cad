------------------------- MODULE MCListingProposals -------------------------
(* Small instances of ListingProposals.                                    *)
EXTENDS ListingProposals, TLC

CONSTANTS alice, bob

\* Power that does not move: either member alone passes a proposal.
SteadyPowers == {alice :> 2 @@ bob :> 2}

Data(step, t) == [step |-> step, expiry |-> t]

MCNoData == Data("None", 0)

MCGuardHash == Data("Guard", 0)

MCOtherData == Data("Other", 0)

ListingData == {Data(s, t) : s \in {"ListedOnZora", "ListedOnOpenSea"}, t \in 0 .. MaxTime + 3}

MCProgress == ListingData \cup {MCOtherData}

\* A listing before another listing or another proposal.
MCKinds == {<<"OpenSea", "OpenSea">>, <<"OpenSea", "Zora">>, <<"OpenSea", "Other">>}

\* The order of the first listing may outlive that of the second.
LongThenShort == <<3, 1>>

=============================================================================
