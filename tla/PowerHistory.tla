---------------------------- MODULE PowerHistory ----------------------------
(***************************************************************************)
(* What the proposals of a party rely on of its voting power: power moves  *)
(* in the present only, no more of it exists than the total it is measured *)
(* against, and the total grows.  PartyProposals has this as its           *)
(* environment; VotingPowerLedger refines it, and PartyVotingPower that.   *)
(***************************************************************************)
EXTENDS Integers, FiniteSets, FiniteSetsExt, Functions

CONSTANTS
  Members,  \* accounts that may hold voting power or be host
  MaxTime   \* bound on block.timestamp

VARIABLES
  now,      \* block.timestamp
  total,    \* _governanceValues.totalVotingPower
  hist,     \* getVotingPowerAt(m, t); from now on the present power
  active    \* members with intrinsic or delegated power in their last snapshot

historyVars == <<now, total, hist, active>>

Times == 0 .. MaxTime

Supporters(power) == {m \in Members : power[m] > 0}

HistoryInit(power) ==
  /\ now = 1
  /\ total # 0 => SumFunctionOnSet(power, Members) <= total
  /\ hist = [t \in Times |-> power]
  /\ active = Supporters(power)

\* Power moves: the present of the history changes, the past does not.  Once
\* the party has started, no more power exists than totalVotingPower.
PowerMoves(power, members) ==
  /\ Supporters(power) \subseteq members
  /\ total # 0 => SumFunctionOnSet(power, Members) <= total
  /\ hist' = [t \in Times |-> IF t < now THEN hist[t] ELSE power]
  /\ active' = members
  /\ UNCHANGED <<now, total>>

\* increaseTotalVotingPower by an authority.  The first increase starts the
\* party and covers the power minted until then.
TotalGrows(newTotal) ==
  /\ total < newTotal
  /\ total = 0 => \A t \in Times : SumFunctionOnSet(hist[t], Members) <= newTotal
  /\ total' = newTotal
  /\ UNCHANGED <<now, hist, active>>

TimePasses ==
  /\ now < MaxTime
  /\ now' = now + 1
  /\ UNCHANGED <<total, hist, active>>

=============================================================================
