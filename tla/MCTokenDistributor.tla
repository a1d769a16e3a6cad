------------------------- MODULE MCTokenDistributor -------------------------
(* TokenDistributor on small instances: a party whose cards have fixed shares *)
(* and one that answers anything.                                             *)
EXTENDS TokenDistributor, TLC

CONSTANTS home, other, c1, c2

MCParties == {home, other}
MCHonest == {home}
MCCards == {c1, c2}

\* 7 and 3 tenths: amounts are rounded.
MCShare == c1 :> 7 @@ c2 :> 3

=============================================================================
