------------------------- MODULE ProposalLifecycle --------------------------
(***************************************************************************)
(* What governance promises of the proposals of a party, without votes,    *)
(* times or an engine: the moves between the statuses of                   *)
(* PartyGovernance.ProposalStatus, and that one proposal at most holds the *)
(* party.  "Executing" is a proposal whose execute() has not returned yet. *)
(***************************************************************************)
CONSTANT Ids

VARIABLE status

Statuses ==
  {"Invalid", "Voting", "Defeated", "Passed", "Ready", "Executing",
   "InProgress", "Complete", "Cancelled"}

\* No move leaves Defeated, Complete or Cancelled.  Ready falls back to Passed
\* when the total voting power grows and a unanimous vote no longer is one.
Moves ==
  {<<"Invalid", "Voting">>, <<"Invalid", "Passed">>, <<"Invalid", "Ready">>,
   <<"Voting", "Passed">>, <<"Voting", "Ready">>, <<"Voting", "Defeated">>,
   <<"Passed", "Ready">>, <<"Passed", "Defeated">>,
   <<"Ready", "Passed">>, <<"Ready", "Defeated">>, <<"Ready", "Executing">>,
   <<"Executing", "InProgress">>, <<"Executing", "Complete">>,
   <<"InProgress", "Executing">>, <<"InProgress", "Cancelled">>}

Holds(p) == status[p] \in {"Executing", "InProgress"}

OneHolder == \A p, q \in Ids : Holds(p) /\ Holds(q) => p = q

\* One proposal moves by an operation, or several move as time passes.
Init == status = [p \in Ids |-> "Invalid"]

Next ==
  /\ status' \in [Ids -> Statuses]
  /\ \A p \in Ids : status'[p] = status[p] \/ <<status[p], status'[p]>> \in Moves
  /\ OneHolder'

Spec == Init /\ [][Next]_status

=============================================================================
