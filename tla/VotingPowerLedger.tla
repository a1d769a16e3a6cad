------------------------- MODULE VotingPowerLedger --------------------------
(***************************************************************************)
(* What a party promises about voting power, without snapshots: at every   *)
(* moment the power of an account is what the accounts that delegate to it *)
(* hold, itself included unless it delegates away.  That power moves as    *)
(* PowerHistory, on which proposals rely, allows.                          *)
(***************************************************************************)
EXTENDS PowerHistory

VARIABLES
  held,       \* the power of the cards of each account
  delegateOf  \* whom each account delegates to; itself at first

ledgerVars == <<now, total, hist, active, held, delegateOf>>

PowerOf(h, d) ==
  [v \in Members |-> SumFunctionOnSet(h, {u \in Members : d[u] = v})]

Init ==
  /\ held = [v \in Members |-> 0]
  /\ delegateOf = [v \in Members |-> v]
  /\ HistoryInit(held)

\* Cards or delegations change, and the power follows.
Change ==
  /\ held' \in [Members -> Nat]
  /\ delegateOf' \in [Members -> Members]
  /\ LET power == PowerOf(held', delegateOf') IN PowerMoves(power, active')

Grow == TotalGrows(total') /\ UNCHANGED <<held, delegateOf>>

Pass == TimePasses /\ UNCHANGED <<held, delegateOf>>

Spec == Init /\ [][Change \/ Grow \/ Pass]_ledgerVars

=============================================================================
