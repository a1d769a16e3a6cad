--------------------------- MODULE PartyProposals ---------------------------
(***************************************************************************)
(* The life of the proposals of one party: PartyGovernance (propose,       *)
(* accept, veto, execute, cancel, abdicateHost) together with the          *)
(* ProposalExecutionEngine it delegatecalls into.                          *)
(*                                                                         *)
(* An execution calls contracts of others, and those may call the party    *)
(* back before it returns.  It is therefore two actions, ExecuteBegin and  *)
(* ExecuteReturn, with a call stack between them; every other action may   *)
(* happen while the stack is not empty, and time may not pass.  A call     *)
(* that reverts changes nothing, so a revert is the absence of a step.     *)
(*                                                                         *)
(* The voting power of the members comes from the snapshots that module    *)
(* PartyVotingPower models.  Here it is the history that PowerHistory      *)
(* promises, which changes in the present and never in the past.           *)
(***************************************************************************)
EXTENDS PowerHistory, Sequences, SequencesExt

CONSTANTS
  Hosts,              \* GovernanceOpts.hosts
  MaxProposals,       \* bound: how many proposals are made
  VoteDuration,       \* GovernanceOpts, in ticks
  ExecutionDelay,
  PassThresholdBps,
  InitialTotal,       \* GovernanceOpts.totalVotingPower
  MaxTotal,           \* bound on increaseTotalVotingPower
  MinCancelDelay,     \* the two globals that limit cancelDelay; 0 is unset
  MaxCancelDelay,
  MaxExecutableTimes, \* what a proposer may choose
  CancelDelays,
  Progress,           \* the non-empty progress data a step may return
  NoData,             \* empty progress data, and the hash 0x0
  GuardHash,          \* bytes32(type(uint256).max)
  Uint40Max,
  Uint96Max,
  Powers,             \* the distributions of voting power of the environment
  DisableValues       \* what GLOBAL_DISABLE_PARTY_ACTIONS may be set to

\* Seeded bug: the bit is shifted out of the 40 bits of the field.
HighBit_Shifted == Uint40Max + 1

\* UINT40_HIGH_BIT, the mark of a cancelled proposal in completedTime.
HighBit == (Uint40Max + 1) \div 2

VetoValue == Uint96Max

Bps == 10000

UnanimousBps == 9999

ProposalIds == 1 .. MaxProposals

\* block.timestamp stays below the bit that marks a cancellation.
ASSUME TimeAssumption ==
  /\ {MaxProposals, MaxTime, VoteDuration, ExecutionDelay, Uint40Max} \subseteq Nat
  /\ 0 < MaxTime /\ MaxTime < HighBit
  /\ MaxExecutableTimes \cup CancelDelays \cup {MinCancelDelay, MaxCancelDelay} \subseteq Nat

ASSUME PowerAssumption ==
  /\ {InitialTotal, MaxTotal, Uint96Max, PassThresholdBps} \subseteq Nat
  /\ PassThresholdBps <= Bps
  /\ Powers \subseteq [Members -> 0 .. Uint96Max]
  /\ IsFiniteSet(Members)
  /\ Hosts \subseteq Members
  /\ DisableValues \subseteq BOOLEAN

\* keccak256 neither yields 0x0 nor the constant of the guard.
ASSUME HashAssumption ==
  /\ NoData \notin Progress
  /\ GuardHash \notin Progress
  /\ NoData # GuardHash

VARIABLES
  prop,      \* _proposalStateByProposalId: ProposalStateValues, hasVoted and
             \* the parameters that the stored hash pins down
  lastProposalId,
  isHost,
  disabled,  \* GLOBAL_DISABLE_PARTY_ACTIONS
  engine,    \* the engine's Storage
  stack      \* executions under way, the innermost last

govVars == <<prop, lastProposalId, isHost>>
envVars == <<now, total, hist, active, disabled>>
vars == <<now, prop, lastProposalId, isHost, total, hist, active, disabled, engine, stack>>

----------------------------------------------------------------------------
(* Proposals and their status                                              *)

Unproposed ==
  [proposedTime |-> 0, passedTime |-> 0, executedTime |-> 0, completedTime |-> 0,
   votes |-> 0, voters |-> {}, maxExecutableTime |-> 0, cancelDelay |-> 0]

IdleEngine == [current |-> 0, next |-> NoData]

\* _isUnanimousVotes multiplies in uint96 and reverts when that overflows;
\* _areVotesPassing multiplies in uint256.
UnanimityComputable(votes) == votes * Bps <= Uint96Max

IsUnanimous(votes, power) == (votes * Bps) \div power >= UnanimousBps

\* _getProposalFlags: what the proposal types are told of the vote.
UnanimousFlag(p) == IsUnanimous(prop[p].votes, total)

(***************************************************************************)
(* _getProposalStatus of the values v at time t, with the total power tvp. *)
(* "Reverts" stands for the arithmetic checks that make it revert.         *)
(***************************************************************************)
ApprovedStatus(v, t, tvp) ==
  IF v.passedTime + ExecutionDelay > Uint40Max THEN "Reverts"
  ELSE IF v.passedTime + ExecutionDelay <= t THEN "Ready"
  ELSE IF ~UnanimityComputable(v.votes) THEN "Reverts"
  ELSE IF IsUnanimous(v.votes, tvp) THEN "Ready"
  ELSE "Passed"

StatusOf(v, t, tvp) ==
  IF v.proposedTime = 0 THEN "Invalid"
  ELSE IF v.executedTime # 0
       THEN IF v.completedTime = 0 THEN "InProgress"
            ELSE IF v.completedTime >= HighBit THEN "Cancelled"
            ELSE "Complete"
  ELSE IF v.votes = VetoValue THEN "Defeated"
  ELSE IF v.passedTime # 0 THEN ApprovedStatus(v, t, tvp)
  ELSE IF v.proposedTime + VoteDuration > Uint40Max THEN "Reverts"
  ELSE IF v.proposedTime + VoteDuration <= t THEN "Defeated"
  ELSE "Voting"

Status(p) == StatusOf(prop[p], now, total)

\* Seeded bug: a vote after the time for it, or after a veto, still counts.
OpenStatuses_Defeated == {"Voting", "Passed", "Ready", "Defeated"}

OpenStatuses == {"Voting", "Passed", "Ready"}

----------------------------------------------------------------------------
(* Operations of members and hosts                                         *)

\* Seeded bug: the present power is counted, so that power which moves on
\* after it voted votes again.
PresentPower(m, v) == hist[now][m]

\* What accept() counts: the power of the tick before the proposal was made.
CountedPower(m, v) == hist[v.proposedTime - 1][m]

MayVote(m, v) == m \notin v.voters

\* Seeded bug: the threshold is compared with the votes, not with their share.
VotesPass_NoShare(v) == v.votes >= PassThresholdBps \div Bps

\* _areVotesPassing.
VotesPass(v) == (v.votes * Bps) \div total >= PassThresholdBps

AcceptGuard(m, v) ==
  /\ StatusOf(v, now, total) \in OpenStatuses
  /\ MayVote(m, v)
  /\ v.votes + CountedPower(m, v) <= Uint96Max
  /\ v.passedTime = 0 => total # 0

Accepted(m, v) ==
  LET w == [v EXCEPT !.voters = @ \cup {m}, !.votes = @ + CountedPower(m, v)]
  IN  IF w.passedTime = 0 /\ VotesPass(w) THEN [w EXCEPT !.passedTime = now] ELSE w

Propose(m, maxExec, delay) ==
  LET p == lastProposalId + 1
      v == [Unproposed EXCEPT !.proposedTime = now,
                              !.maxExecutableTime = maxExec, !.cancelDelay = delay]
  IN  /\ m \in active
      /\ p \in ProposalIds
      /\ AcceptGuard(m, v)
      /\ lastProposalId' = p
      /\ prop' = [prop EXCEPT ![p] = Accepted(m, v)]
      /\ UNCHANGED <<isHost, engine, stack>>
      /\ UNCHANGED envVars

Accept(m, p) ==
  /\ AcceptGuard(m, prop[p])
  /\ prop' = [prop EXCEPT ![p] = Accepted(m, prop[p])]
  /\ UNCHANGED <<lastProposalId, isHost, engine, stack>>
  /\ UNCHANGED envVars

Vetoable(s) == s \in OpenStatuses

Veto(h, p) ==
  /\ h \in isHost
  /\ Vetoable(Status(p))
  /\ prop' = [prop EXCEPT ![p].votes = VetoValue]
  /\ UNCHANGED <<lastProposalId, isHost, engine, stack>>
  /\ UNCHANGED envVars

\* abdicateHost: successors holds the new host, or is empty for address(0).
AbdicateHost(h, successors) ==
  /\ h \in isHost
  /\ successors \cap isHost = {}
  /\ isHost' = (isHost \cup successors) \ {h}
  /\ UNCHANGED <<prop, lastProposalId, engine, stack>>
  /\ UNCHANGED envVars

----------------------------------------------------------------------------
(* Execution                                                               *)

\* Seeded bug: a second proposal may start while another is in progress.
EngineAdmits_Any(p, d) == engine.next # GuardHash /\ d \in {engine.next, NoData}

\* What executeProposal checks of its storage before it runs proposal p with
\* progress data d.
EngineAdmits(p, d) ==
  /\ engine.current \in {0, p}
  /\ engine.next = NoData => engine.current = 0
  /\ engine.next # GuardHash /\ d = engine.next

\* Seeded bug: every step restarts the clock that cancel() reads.
Begun_Restarts(v, s) == [v EXCEPT !.executedTime = now, !.completedTime = now]

\* The values execute() stores before the engine runs: the time of the first
\* execution, and a completion that a partial return takes back.
Begun(v, s) == [v EXCEPT !.executedTime = IF s = "Ready" THEN now ELSE @,
                         !.completedTime = now]

Executable(s) == s \in {"Ready", "InProgress"}

\* execute() of p by m up to the first call of a foreign contract.
ExecuteBegin(m, p, d) ==
  LET s == Status(p)
  IN  /\ m \in active
      /\ ~disabled
      /\ Executable(s)
      /\ s = "Ready" => now <= prop[p].maxExecutableTime
      /\ UnanimityComputable(prop[p].votes)
      /\ EngineAdmits(p, d)
      /\ prop' = [prop EXCEPT ![p] = Begun(@, s)]
      /\ engine' = [current |-> p, next |-> GuardHash]
      /\ stack' = Append(stack, p)
      /\ UNCHANGED <<lastProposalId, isHost>>
      /\ UNCHANGED envVars

\* The innermost execution returns and was the last step of its proposal.
ReturnComplete ==
  /\ stack # <<>>
  /\ engine' = IdleEngine
  /\ stack' = Front(stack)
  /\ UNCHANGED govVars
  /\ UNCHANGED envVars

\* It returns progress data d: a further step is needed.
ReturnPartial(d) ==
  /\ stack # <<>>
  /\ engine' = [engine EXCEPT !.next = d]
  /\ prop' = [prop EXCEPT ![Last(stack)].completedTime = 0]
  /\ stack' = Front(stack)
  /\ UNCHANGED <<lastProposalId, isHost>>
  /\ UNCHANGED envVars

\* Seeded bug: the limits of the globals are not applied.
CancelDelayOf_Unlimited(p) == prop[p].cancelDelay

\* cancel() limits the delay first from above, then from below.
CancelDelayOf(p) ==
  LET chosen == prop[p].cancelDelay
      capped == IF MaxCancelDelay # 0 /\ chosen > MaxCancelDelay
                THEN MaxCancelDelay ELSE chosen
  IN  IF MinCancelDelay # 0 /\ capped < MinCancelDelay THEN MinCancelDelay ELSE capped

\* Seeded bug: cancelProposal forgets the proposal and keeps its data hash.
EngineCancelled_KeepsHash == [engine EXCEPT !.current = 0]

EngineCancelled == IdleEngine

Cancel(m, p) ==
  /\ m \in active
  /\ Status(p) = "InProgress"
  /\ now >= prop[p].executedTime + CancelDelayOf(p)
  /\ engine.current = p
  /\ prop' = [prop EXCEPT ![p].completedTime = now + HighBit]
  /\ engine' = EngineCancelled
  /\ UNCHANGED <<lastProposalId, isHost, stack>>
  /\ UNCHANGED envVars

----------------------------------------------------------------------------
(* The environment                                                         *)

ChangePower(power, members) ==
  /\ power # hist[now] \/ members # active
  /\ PowerMoves(power, members)
  /\ UNCHANGED <<disabled, engine, stack>>
  /\ UNCHANGED govVars

IncreaseTotal(newTotal) ==
  /\ TotalGrows(newTotal)
  /\ UNCHANGED <<disabled, engine, stack>>
  /\ UNCHANGED govVars

SetDisabled(b) ==
  /\ disabled' = b
  /\ UNCHANGED <<now, total, hist, active, engine, stack>>
  /\ UNCHANGED govVars

\* Time passes between transactions only.
Tick ==
  /\ stack = <<>>
  /\ TimePasses
  /\ UNCHANGED <<disabled, engine, stack>>
  /\ UNCHANGED govVars

----------------------------------------------------------------------------

Init ==
  /\ prop = [p \in ProposalIds |-> Unproposed]
  /\ lastProposalId = 0
  /\ isHost = Hosts
  /\ total = InitialTotal
  /\ \E power \in Powers : HistoryInit(power)
  /\ disabled = FALSE
  /\ engine = IdleEngine
  /\ stack = <<>>

\* What a host does as host.
HostStep(h) ==
  \/ \E p \in ProposalIds : Veto(h, p)
  \/ \E s \in {{}} \cup {{m} : m \in Members} : AbdicateHost(h, s)

\* The execution engine: a step begins, and it returns.
EngineStep ==
  \/ \E m \in Members, p \in ProposalIds, d \in Progress \cup {NoData} : ExecuteBegin(m, p, d)
  \/ ReturnComplete
  \/ \E d \in Progress : ReturnPartial(d)

OtherStep ==
  \/ \E m \in Members, t \in MaxExecutableTimes, c \in CancelDelays : Propose(m, t, c)
  \/ \E m \in Members, p \in ProposalIds : Accept(m, p)
  \/ \E m \in Members, p \in ProposalIds : Cancel(m, p)
  \/ \E power \in Powers, ms \in SUBSET Members : ChangePower(power, ms)
  \/ \E newTotal \in 1 .. MaxTotal : IncreaseTotal(newTotal)
  \/ \E b \in DisableValues : SetDisabled(b)
  \/ Tick

Next == (\E h \in isHost : HostStep(h)) \/ EngineStep \/ OtherStep

Spec == Init /\ [][Next]_vars

----------------------------------------------------------------------------
(* Properties                                                              *)

ProposalValues ==
  [proposedTime : Times, passedTime : Times, executedTime : Times,
   completedTime : 0 .. Uint40Max, votes : 0 .. Uint96Max, voters : SUBSET Members,
   maxExecutableTime : MaxExecutableTimes \cup {0}, cancelDelay : CancelDelays \cup {0}]

TypeOK ==
  /\ now \in Times \ {0}
  /\ prop \in [ProposalIds -> ProposalValues]
  /\ lastProposalId \in 0 .. MaxProposals
  /\ isHost \subseteq Members
  /\ total \in Nat
  /\ hist \in [Times -> [Members -> 0 .. Uint96Max]]
  /\ active \subseteq Members
  /\ disabled \in BOOLEAN
  /\ engine \in [current : 0 .. MaxProposals, next : Progress \cup {NoData, GuardHash}]
  /\ stack \in Seq(ProposalIds)

\* The two halves of a party never disagree, although governance and the engine
\* keep their own record of what runs, foreign contracts call in between, and
\* cancel() may come at any time: a proposal is InProgress exactly when the
\* engine waits for its next step, executions do not nest, and the guard hash
\* is in place exactly while one is under way.
EngineAgrees ==
  /\ \A p \in ProposalIds : Status(p) = "InProgress" <=> stack = <<>> /\ engine.current = p
  /\ Len(stack) <= 1
  /\ stack # <<>> => /\ engine = [current |-> stack[1], next |-> GuardHash]
                     /\ Status(stack[1]) = "Complete"
  /\ stack = <<>> => /\ engine.next # GuardHash
                     /\ engine.current = 0 <=> engine.next = NoData

\* The counter of a proposal is the power its voters had one tick before it was
\* made, each counted once, however power moved since, and never more than
\* all the power there is.
VotesAreVoterPower ==
  \A p \in 1 .. lastProposalId :
    LET v == prop[p]
    IN  v.votes # VetoValue =>
          /\ v.votes = SumFunctionOnSet(hist[v.proposedTime - 1], v.voters)
          /\ v.votes <= total

\* Nothing runs that the members did not approve: what was executed had passed,
\* was in time, was never vetoed, and had either waited for the delay or been
\* unanimous; what was cancelled had its minimal time to complete.
ExecutionFollowsApproval ==
  \A p \in ProposalIds :
    LET v == prop[p]
    IN  v.executedTime # 0 =>
          /\ v.votes # VetoValue
          /\ 0 < v.passedTime /\ v.passedTime <= v.executedTime
          /\ v.executedTime <= v.maxExecutableTime
          /\ \/ v.passedTime + ExecutionDelay <= v.executedTime
             \/ v.votes * Bps >= UnanimousBps * InitialTotal
          /\ v.completedTime >= HighBit =>
               v.completedTime - HighBit >= v.executedTime + MinCancelDelay

\* A proposal passes at the moment enough of its voters' power stands behind it,
\* measured against the total of that moment.
QuorumBacksPassing ==
  [][\A p \in ProposalIds :
       prop[p].passedTime = 0 /\ prop'[p].passedTime # 0 =>
         SumFunctionOnSet(hist'[prop'[p].proposedTime - 1], prop'[p].voters) * Bps
           >= PassThresholdBps * total']_vars

\* The statuses follow the life cycle that the comments of ProposalStatus
\* describe: nothing leaves a final status, and one proposal holds the party.
LifecycleStatus(p) ==
  IF \E i \in DOMAIN stack : stack[i] = p THEN "Executing"
  ELSE IF Status(p) = "Reverts" THEN "Passed"
  ELSE Status(p)

Lifecycle == INSTANCE ProposalLifecycle
  WITH Ids <- ProposalIds, status <- [p \in ProposalIds |-> LifecycleStatus(p)]

FollowsLifecycle == Lifecycle!Spec

\* No proposal blocks the others for ever: cancel() frees the party of one that
\* never completes, whatever delay its proposer chose.
PartyIsFreed ==
  \A p \in ProposalIds :
    (LifecycleStatus(p) \in {"Executing", "InProgress"})
      ~> (LifecycleStatus(p) \notin {"Executing", "InProgress"})

=============================================================================
