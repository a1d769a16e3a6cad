---------------------------- MODULE VetoProposal ----------------------------
(***************************************************************************)
(* VetoProposal: a contract that is a host of the party and vetoes a       *)
(* proposal when members vote for that.  It keeps the votes counted so far *)
(* and not who cast them.                                                  *)
(***************************************************************************)
EXTENDS PartyProposals

CONSTANTS
  VetoHost,   \* the address of the contract
  MaxBallots  \* bound: how many votes to veto one proposal are counted

ASSUME VetoHostAssumption ==
  /\ VetoHost \in Members /\ \A power \in Powers : power[VetoHost] = 0
  /\ MaxBallots \in Nat

VARIABLES
  vetoVotes,  \* vetoVotes[party]
  ballots     \* history: how often each member's vote to veto a proposal was counted

vetoVars == <<now, prop, lastProposalId, isHost, total, hist, active, disabled,
              engine, stack, vetoVotes, ballots>>

\* Seeded bug: the threshold must be exceeded.
VetoPasses_Above(votes) == (votes * Bps) \div total > PassThresholdBps

\* _areVotesPassing.
VetoPasses(votes) == (votes * Bps) \div total >= PassThresholdBps

VotesLeft(votes) == IF VetoPasses(votes) THEN 0 ELSE votes

\* The host is only asked for before the first votes are stored; veto() asks again.
VoteToVeto(m, p) ==
  LET votes == vetoVotes[p] + CountedPower(m, prop[p])
  IN  /\ SumFunction(ballots[p]) < MaxBallots
      /\ vetoVotes[p] = 0 => VetoHost \in isHost
      /\ Status(p) = "Voting"
      /\ votes <= Uint96Max
      /\ total # 0
      /\ vetoVotes' = [vetoVotes EXCEPT ![p] = VotesLeft(votes)]
      /\ ballots' = [ballots EXCEPT ![p][m] = @ + 1]
      /\ IF VetoPasses(votes) THEN Veto(VetoHost, p) ELSE UNCHANGED vars

VetoInit ==
  /\ Init
  /\ vetoVotes = [p \in ProposalIds |-> 0]
  /\ ballots = [p \in ProposalIds |-> [m \in Members |-> 0]]

\* The contract does nothing but this: no other call of a host, no call of a member.
VetoNext ==
  \/ /\ (\E h \in isHost \ {VetoHost} : HostStep(h)) \/ EngineStep \/ OtherStep
     /\ VetoHost \notin active'
     /\ \A p \in ProposalIds : VetoHost \notin prop'[p].voters
     /\ UNCHANGED <<vetoVotes, ballots>>
  \/ \E m \in Members, p \in ProposalIds : VoteToVeto(m, p)

VetoSpec == VetoInit /\ [][VetoNext]_vetoVars

----------------------------------------------------------------------------
(* Properties                                                              *)

\* What was cast against p: each ballot weighs what its member had one tick before
\* the proposal was made.
Against(p) ==
  SumFunction([m \in Members |-> ballots[p][m] * hist[prop[p].proposedTime - 1][m]])

ShareReached(votes) == votes * Bps >= PassThresholdBps * total

\* The vote that brings what was cast against a proposal to the share of the power
\* that passes one vetoes it at the party, in the same step and measured with the
\* total of that moment; an earlier one does not.  What is not voted down so only
\* another host vetoes.
VetoAtShare ==
  [][\A p \in ProposalIds :
       /\ ballots'[p] # ballots[p] =>
            (Status(p)' = "Defeated" <=> ShareReached(Against(p))')
       /\ ballots'[p] = ballots[p] /\ prop[p].votes # VetoValue /\ prop'[p].votes = VetoValue =>
            \E h \in isHost \ {VetoHost} : Veto(h, p)]_vetoVars

\* governance.md: members "vote on proposals to veto other proposals"; what the
\* contract vetoes, members with the share of the power that passes a proposal
\* stand against.
VetoIsBacked ==
  [][\A p \in ProposalIds :
       (\E m \in Members : VoteToVeto(m, p)) /\ prop'[p] # prop[p] =>
         SumFunctionOnSet(hist[prop[p].proposedTime - 1], {m \in Members : ballots'[p][m] > 0}) * Bps
           >= PassThresholdBps * total]_vetoVars

=============================================================================
