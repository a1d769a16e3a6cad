------------------------ MODULE PartyProposals_proofs -----------------------
(***************************************************************************)
(* Proofs about PartyProposals, VetoProposal and ListingProposals.         *)
(*                                                                         *)
(* Of every party: its type invariant, that governance and the execution   *)
(* engine agree on what runs, that every execution follows the approval of *)
(* the members, and that a party implements the life cycle of              *)
(* ProposalLifecycle.  A party with the veto contract as a host, and one   *)
(* that lists NFTs, are such parties; of the one, that votes to veto never *)
(* wait; of the other, that a precious NFT is auctioned before it is       *)
(* listed, and that a listing that ended leaves nothing behind.            *)
(***************************************************************************)
EXTENDS VetoProposal, ListingProposals, SequenceTheorems, SumTheorems, TLAPS

\* The bit that marks a cancellation is above every time and fits the field.
LEMMA HighBitRange ==
  /\ HighBit \in Nat
  /\ \A t \in Times : t < HighBit /\ t + HighBit \in 0 .. Uint40Max
  /\ Times \subseteq 0 .. Uint40Max
BY TimeAssumption DEF HighBit, Times

\* The statuses of an executed proposal depend on its times alone, not on the
\* clock or on the total voting power.
LEMMA ExecutedStatus ==
  ASSUME NEW v \in ProposalValues, NEW t, NEW tvp
  PROVE  /\ StatusOf(v, t, tvp) = "InProgress" <=>
              v.proposedTime # 0 /\ v.executedTime # 0 /\ v.completedTime = 0
         /\ StatusOf(v, t, tvp) = "Complete" <=>
              /\ v.proposedTime # 0 /\ v.executedTime # 0
              /\ v.completedTime # 0 /\ v.completedTime < HighBit
         /\ StatusOf(v, t, tvp) \in OpenStatuses =>
              v.proposedTime # 0 /\ v.executedTime = 0
         /\ StatusOf(v, t, tvp) = "Ready" => v.executedTime = 0
<1>1. v.completedTime \in 0 .. Uint40Max /\ HighBit \in Nat
  BY HighBitRange DEF ProposalValues
<1>2. ApprovedStatus(v, t, tvp) \in {"Reverts", "Ready", "Passed"}
  BY DEF ApprovedStatus
<1>3. CASE v.proposedTime = 0
  BY <1>1, <1>3 DEF StatusOf, OpenStatuses
<1>4. CASE v.proposedTime # 0 /\ v.executedTime # 0
  BY <1>1, <1>4, TimeAssumption DEF StatusOf, OpenStatuses
<1>5. CASE v.proposedTime # 0 /\ v.executedTime = 0
  BY <1>1, <1>2, <1>5 DEF StatusOf, OpenStatuses
<1>6. QED
  BY <1>3, <1>4, <1>5

----------------------------------------------------------------------------
(* Type correctness                                                        *)

\* The record of a proposal that nobody made has the type of one.
LEMMA UnproposedType ==
  Unproposed \in ProposalValues
BY HighBitRange, PowerAssumption, TimeAssumption DEF Unproposed, ProposalValues, Times

\* A vote keeps the type of the proposal and the times of its execution.
LEMMA AcceptedType ==
  ASSUME TypeOK, NEW m \in Members, NEW v \in ProposalValues, AcceptGuard(m, v)
  PROVE  /\ Accepted(m, v) \in ProposalValues
         /\ Accepted(m, v).proposedTime = v.proposedTime
         /\ Accepted(m, v).executedTime = v.executedTime
         /\ Accepted(m, v).completedTime = v.completedTime
         /\ v.proposedTime # 0 /\ v.executedTime = 0
<1>1. v.proposedTime # 0 /\ v.executedTime = 0
  BY ExecutedStatus DEF AcceptGuard
<1>2. v.proposedTime - 1 \in Times
  BY <1>1, TimeAssumption DEF ProposalValues, Times
<1>3. CountedPower(m, v) \in Nat
  BY <1>2, PowerAssumption DEF CountedPower, TypeOK
<1> DEFINE w == [v EXCEPT !.voters = @ \cup {m}, !.votes = @ + CountedPower(m, v)]
<1>4. w \in ProposalValues
  <2>1. v.votes + CountedPower(m, v) \in 0 .. Uint96Max
    BY <1>3, PowerAssumption DEF ProposalValues, AcceptGuard
  <2>2. v.voters \cup {m} \in SUBSET Members
    BY DEF ProposalValues
  <2>3. QED
    BY <2>1, <2>2 DEF ProposalValues
<1>5. now \in Times
  BY DEF TypeOK
<1>6. [w EXCEPT !.passedTime = now] \in ProposalValues
  BY <1>4, <1>5 DEF ProposalValues
<1>7. Accepted(m, v) \in {w, [w EXCEPT !.passedTime = now]}
  BY DEF Accepted
<1>8. QED
  BY <1>1, <1>4, <1>6, <1>7 DEF ProposalValues

\* So does the start of an execution, which stamps the proposal.
LEMMA BegunType ==
  ASSUME TypeOK, NEW v \in ProposalValues, NEW s
  PROVE  /\ Begun(v, s) \in ProposalValues
         /\ Begun(v, s).proposedTime = v.proposedTime
         /\ Begun(v, s).completedTime = now
         /\ Begun(v, s).executedTime = IF s = "Ready" THEN now ELSE v.executedTime
<1>1. now \in Times /\ now \in 0 .. Uint40Max
  BY HighBitRange DEF TypeOK
<1>2. QED
  BY <1>1 DEF Begun, ProposalValues

\* The initial values have their types.
LEMMA InitType == Init => TypeOK
<1> SUFFICES ASSUME Init PROVE TypeOK
  OBVIOUS
<1>1. now \in Times \ {0}
  BY TimeAssumption, HighBitRange DEF Init, HistoryInit, Times
<1>2. prop \in [ProposalIds -> ProposalValues]
  BY UnproposedType DEF Init
<1>3. hist \in [Times -> [Members -> 0 .. Uint96Max]] /\ active \subseteq Members
  BY PowerAssumption DEF Init, HistoryInit, Supporters
<1>4. engine \in [current : 0 .. MaxProposals, next : Progress \cup {NoData, GuardHash}]
  BY TimeAssumption DEF Init, IdleEngine
<1>5. stack \in Seq(ProposalIds)
  BY DEF Init
<1>6. lastProposalId \in 0 .. MaxProposals /\ disabled \in BOOLEAN
  <2>1. lastProposalId = 0 /\ MaxProposals \in Nat
    BY TimeAssumption DEF Init
  <2>2. disabled \in BOOLEAN
    BY DEF Init
  <2>3. QED
    BY <2>1, <2>2
<1>7. isHost \subseteq Members /\ total \in Nat
  BY PowerAssumption DEF Init
<1>8. QED
  BY <1>1, <1>2, <1>3, <1>4, <1>5, <1>6, <1>7 DEF TypeOK

\* Every step keeps the types.
LEMMA NextType == TypeOK /\ [Next]_vars => TypeOK'
<1> SUFFICES ASSUME TypeOK, [Next]_vars PROVE TypeOK'
  OBVIOUS
<1> USE TimeAssumption, PowerAssumption
<1>1. ASSUME NEW m \in Members, NEW t \in MaxExecutableTimes, NEW c \in CancelDelays,
             Propose(m, t, c)
      PROVE  TypeOK'
  <2> DEFINE v == [Unproposed EXCEPT !.proposedTime = now,
                                     !.maxExecutableTime = t, !.cancelDelay = c]
  <2>1. v \in ProposalValues
    BY UnproposedType DEF TypeOK, ProposalValues, Unproposed
  <2>2. Accepted(m, v) \in ProposalValues
    BY <1>1, <2>1, AcceptedType DEF Propose
  <2>3. prop' \in [ProposalIds -> ProposalValues]
    BY <1>1, <2>2 DEF Propose, TypeOK
  <2>4. lastProposalId' \in 0 .. MaxProposals
    BY <1>1 DEF Propose, ProposalIds
  <2>5. QED
    BY <1>1, <2>3, <2>4 DEF Propose, envVars, TypeOK
<1>2. ASSUME NEW m \in Members, NEW p \in ProposalIds, Accept(m, p)
      PROVE  TypeOK'
  <2>1. Accepted(m, prop[p]) \in ProposalValues
    BY <1>2, AcceptedType DEF Accept, TypeOK
  <2>2. QED
    BY <1>2, <2>1 DEF Accept, envVars, TypeOK
<1>3. ASSUME NEW h \in isHost, NEW p \in ProposalIds, Veto(h, p)
      PROVE  TypeOK'
  <2>0. prop[p] \in ProposalValues /\ VetoValue \in 0 .. Uint96Max
    BY DEF TypeOK, VetoValue
  <2>1. [prop[p] EXCEPT !.votes = VetoValue] \in ProposalValues
    BY <2>0 DEF ProposalValues
  <2>2. prop' \in [ProposalIds -> ProposalValues]
    BY <1>3, <2>1 DEF Veto, TypeOK
  <2>3. QED
    BY <1>3, <2>2 DEF Veto, envVars, TypeOK
<1>4. ASSUME NEW h \in isHost, NEW s \in {{}} \cup {{m} : m \in Members}, AbdicateHost(h, s)
      PROVE  TypeOK'
  <2>1. isHost' \subseteq Members
    BY <1>4 DEF AbdicateHost, TypeOK
  <2>2. QED
    BY <1>4, <2>1 DEF AbdicateHost, envVars, TypeOK
<1>5. ASSUME NEW m \in Members, NEW p \in ProposalIds, NEW d \in Progress \cup {NoData},
             ExecuteBegin(m, p, d)
      PROVE  TypeOK'
  <2>1. Begun(prop[p], Status(p)) \in ProposalValues
    BY BegunType DEF TypeOK
  <2>2. prop' \in [ProposalIds -> ProposalValues]
    BY <1>5, <2>1 DEF ExecuteBegin, TypeOK
  <2>3. engine' \in [current : 0 .. MaxProposals, next : Progress \cup {NoData, GuardHash}]
    BY <1>5 DEF ExecuteBegin, ProposalIds
  <2>4. stack' \in Seq(ProposalIds)
    BY <1>5 DEF ExecuteBegin, TypeOK
  <2>5. QED
    BY <1>5, <2>2, <2>3, <2>4 DEF ExecuteBegin, envVars, TypeOK
<1>6. ASSUME ReturnComplete
      PROVE  TypeOK'
  <2>1. stack' \in Seq(ProposalIds)
    BY <1>6 DEF ReturnComplete, Front, TypeOK
  <2>2. engine' \in [current : 0 .. MaxProposals, next : Progress \cup {NoData, GuardHash}]
    BY <1>6 DEF ReturnComplete, IdleEngine
  <2>3. QED
    BY <1>6, <2>1, <2>2 DEF ReturnComplete, govVars, envVars, TypeOK
<1>7. ASSUME NEW d \in Progress, ReturnPartial(d)
      PROVE  TypeOK'
  <2>1. stack' \in Seq(ProposalIds) /\ Last(stack) \in ProposalIds
    BY <1>7, SMTT(30) DEF ReturnPartial, Front, Last, TypeOK
  <2>2. [prop[Last(stack)] EXCEPT !.completedTime = 0] \in ProposalValues
    <3>1. prop[Last(stack)] \in ProposalValues /\ 0 \in 0 .. Uint40Max
      BY <2>1 DEF TypeOK
    <3>2. QED
      BY <3>1 DEF ProposalValues
  <2>3. prop' \in [ProposalIds -> ProposalValues]
    BY <1>7, <2>1, <2>2 DEF ReturnPartial, TypeOK
  <2>4. engine' \in [current : 0 .. MaxProposals, next : Progress \cup {NoData, GuardHash}]
    BY <1>7 DEF ReturnPartial, TypeOK
  <2>5. QED
    BY <1>7, <2>1, <2>3, <2>4 DEF ReturnPartial, envVars, TypeOK
<1>8. ASSUME NEW m \in Members, NEW p \in ProposalIds, Cancel(m, p)
      PROVE  TypeOK'
  <2>0. prop[p] \in ProposalValues /\ now + HighBit \in 0 .. Uint40Max
    BY HighBitRange DEF TypeOK
  <2>1. [prop[p] EXCEPT !.completedTime = now + HighBit] \in ProposalValues
    BY <2>0 DEF ProposalValues
  <2>2. prop' \in [ProposalIds -> ProposalValues]
    BY <1>8, <2>1 DEF Cancel, TypeOK
  <2>3. QED
    BY <1>8, <2>2 DEF Cancel, EngineCancelled, IdleEngine, envVars, TypeOK
<1>9. ASSUME NEW power \in Powers, NEW ms \in SUBSET Members, ChangePower(power, ms)
      PROVE  TypeOK'
  <2>1. hist' \in [Times -> [Members -> 0 .. Uint96Max]]
    BY <1>9 DEF ChangePower, PowerMoves, TypeOK
  <2>2. QED
    BY <1>9, <2>1 DEF ChangePower, PowerMoves, govVars, TypeOK
<1>10. ASSUME NEW n \in 1 .. MaxTotal, IncreaseTotal(n)
       PROVE  TypeOK'
  BY <1>10 DEF IncreaseTotal, TotalGrows, govVars, TypeOK
<1>11. ASSUME NEW b \in DisableValues, SetDisabled(b)
       PROVE  TypeOK'
  BY <1>11 DEF SetDisabled, govVars, TypeOK
<1>12. ASSUME Tick
       PROVE  TypeOK'
  BY <1>12 DEF Tick, TimePasses, govVars, TypeOK, Times
<1>13. CASE UNCHANGED vars
  BY <1>13 DEF vars, TypeOK
<1>14. QED
  BY <1>1, <1>2, <1>3, <1>4, <1>5, <1>6, <1>7, <1>8, <1>9, <1>10, <1>11, <1>12, <1>13
     DEF Next, HostStep, EngineStep, OtherStep

\* The types of all variables, for any sizes of the constants.
THEOREM TypeCorrect == Spec => []TypeOK
BY InitType, NextType, PTL DEF Spec

----------------------------------------------------------------------------
(* Governance and the engine                                               *)

\* EngineAgrees is not inductive: propose() writes the values of a new id, so
\* the ids not used yet must be known to be idle.
FreshIds ==
  \A p \in ProposalIds :
    p > lastProposalId => prop[p].proposedTime = 0 /\ prop[p].executedTime = 0

EngineInv == FreshIds /\ EngineAgrees

\* Steps that touch neither the engine, the stack nor a proposal that was
\* executed keep the invariant.
LEMMA EngineInvFrame ==
  ASSUME TypeOK, TypeOK', EngineInv,
         UNCHANGED <<engine, stack>>, lastProposalId' >= lastProposalId,
         \A p \in ProposalIds :
           \/ prop'[p] = prop[p]
           \/ /\ p <= lastProposalId'
              /\ prop'[p].executedTime = 0 /\ prop[p].executedTime = 0
  PROVE  EngineInv'
<1>1. FreshIds'
  <2> SUFFICES ASSUME NEW p \in ProposalIds, p > lastProposalId'
               PROVE  prop'[p].proposedTime = 0 /\ prop'[p].executedTime = 0
    BY DEF FreshIds
  <2>1. p \in Int /\ lastProposalId \in Int /\ lastProposalId' \in Int
    BY DEF TypeOK, ProposalIds
  <2>2. prop'[p] = prop[p] /\ p > lastProposalId
    BY <2>1
  <2>3. QED
    BY <2>2 DEF EngineInv, FreshIds
<1>2. ASSUME NEW p \in ProposalIds
      PROVE  /\ Status(p)' = "InProgress" <=> Status(p) = "InProgress"
             /\ Status(p)' = "Complete" <=> Status(p) = "Complete"
  <2>1. prop[p] \in ProposalValues /\ prop'[p] \in ProposalValues
    BY DEF TypeOK
  <2>2. CASE prop'[p] = prop[p]
    BY <2>1, <2>2, ExecutedStatus DEF Status
  <2>3. CASE prop'[p].executedTime = 0 /\ prop[p].executedTime = 0
    BY <2>1, <2>3, ExecutedStatus DEF Status
  <2>4. QED
    BY <2>2, <2>3
<1>3. stack # <<>> => stack[1] \in ProposalIds
  BY DEF TypeOK
<1>4. EngineAgrees'
  BY <1>2, <1>3 DEF EngineInv, EngineAgrees
<1>5. QED
  BY <1>1, <1>4 DEF EngineInv

\* A proposal whose values are set has an id that was given out.
LEMMA UsedIds ==
  ASSUME TypeOK, EngineInv, NEW p \in ProposalIds,
         prop[p].proposedTime # 0 \/ prop[p].executedTime # 0
  PROVE  p <= lastProposalId
BY DEF EngineInv, FreshIds, TypeOK, ProposalIds

\* While an execution is under way it is the only one, of a proposal that counts
\* as complete meanwhile, and nothing is in progress.
LEMMA OneExecution ==
  ASSUME TypeOK, EngineInv, stack # <<>>
  PROVE  /\ stack[1] \in ProposalIds /\ Last(stack) = stack[1] /\ Front(stack) = <<>>
         /\ Status(stack[1]) = "Complete"
         /\ engine.current = stack[1]
         /\ \A p \in ProposalIds : Status(p) # "InProgress"
<1>1. Len(stack) = 1 /\ stack[1] \in ProposalIds
  <2>1. stack \in Seq(ProposalIds)
    BY DEF TypeOK
  <2>2. Len(stack) \in Nat /\ Len(stack) # 0
    BY <2>1, EmptySeq
  <2>3. Len(stack) <= 1
    BY DEF EngineInv, EngineAgrees
  <2>4. \A n \in Nat : n # 0 /\ n <= 1 => n = 1
    OBVIOUS
  <2>5. Len(stack) = 1
    BY <2>2, <2>3, <2>4, Zenon
  <2>6. QED
    BY <2>1, <2>5
<1>2. Last(stack) = stack[1]
  BY <1>1 DEF Last
<1>3. Front(stack) = <<>>
  BY <1>1 DEF Front, TypeOK
<1>4. QED
  BY <1>1, <1>2, <1>3 DEF EngineInv, EngineAgrees

\* The invariant of governance and engine.
LEMMA EngineInvariant == Spec => []EngineInv
<1>1. Init => EngineInv
  <2> SUFFICES ASSUME Init PROVE EngineInv
    OBVIOUS
  <2>1. FreshIds
    BY DEF Init, FreshIds, Unproposed
  <2>2. \A p \in ProposalIds : Status(p) = "Invalid"
    BY DEF Init, Status, StatusOf, Unproposed
  <2>3. EngineAgrees
    BY <2>2, HashAssumption DEF Init, EngineAgrees, IdleEngine, ProposalIds
  <2>4. QED
    BY <2>1, <2>3 DEF EngineInv
<1>2. TypeOK /\ TypeOK' /\ EngineInv /\ [Next]_vars => EngineInv'
  <2> SUFFICES ASSUME TypeOK, TypeOK', EngineInv, [Next]_vars PROVE EngineInv'
    OBVIOUS
  <2>0. /\ \A p \in ProposalIds : prop[p] \in ProposalValues /\ prop'[p] \in ProposalValues
        /\ prop' \in [ProposalIds -> ProposalValues]
        /\ prop \in [ProposalIds -> ProposalValues]
    BY DEF TypeOK
  <2>00. ASSUME UNCHANGED <<prop, lastProposalId, engine, stack>>
         PROVE  EngineInv'
    BY <2>00, EngineInvFrame DEF TypeOK
  <2>1. ASSUME NEW m \in Members, NEW t \in MaxExecutableTimes, NEW c \in CancelDelays,
               Propose(m, t, c)
        PROVE  EngineInv'
    <3> DEFINE v == [Unproposed EXCEPT !.proposedTime = now,
                                       !.maxExecutableTime = t, !.cancelDelay = c]
               new == lastProposalId + 1
    <3>1. v \in ProposalValues /\ v.executedTime = 0
      BY UnproposedType DEF TypeOK, ProposalValues, Unproposed
    <3>2. Accepted(m, v).executedTime = 0
      BY <2>1, <3>1, AcceptedType DEF Propose
    <3>3. new \in ProposalIds /\ prop[new].executedTime = 0
      BY <2>1 DEF Propose, EngineInv, FreshIds, TypeOK
    <3>4. /\ prop' = [prop EXCEPT ![new] = Accepted(m, v)]
          /\ lastProposalId' = new /\ UNCHANGED <<engine, stack>>
      BY <2>1 DEF Propose
    <3>5. lastProposalId' >= lastProposalId /\ new <= lastProposalId'
      BY <3>4 DEF TypeOK
    <3>6. \A p \in ProposalIds :
            \/ prop'[p] = prop[p]
            \/ /\ p <= lastProposalId'
               /\ prop'[p].executedTime = 0 /\ prop[p].executedTime = 0
      BY <2>0, <3>2, <3>3, <3>4, <3>5
    <3>7. QED
      BY <3>4, <3>5, <3>6, EngineInvFrame
  <2>2. ASSUME NEW m \in Members, NEW p \in ProposalIds, Accept(m, p)
        PROVE  EngineInv'
    <3>1. /\ Accepted(m, prop[p]).executedTime = 0 /\ prop[p].executedTime = 0
          /\ prop[p].proposedTime # 0
      BY <2>0, <2>2, AcceptedType DEF Accept
    <3>2. /\ prop' = [prop EXCEPT ![p] = Accepted(m, prop[p])]
          /\ UNCHANGED <<engine, stack, lastProposalId>>
      BY <2>2 DEF Accept
    <3>3. p <= lastProposalId
      BY <3>1, UsedIds
    <3>4. QED
      BY <2>0, <3>1, <3>2, <3>3, EngineInvFrame DEF TypeOK
  <2>3. ASSUME NEW h \in isHost, NEW p \in ProposalIds, Veto(h, p)
        PROVE  EngineInv'
    <3>1. prop[p].executedTime = 0 /\ prop[p].proposedTime # 0
      BY <2>0, <2>3, ExecutedStatus DEF Veto, Vetoable, Status
    <3>2. /\ prop' = [prop EXCEPT ![p].votes = VetoValue]
          /\ UNCHANGED <<engine, stack, lastProposalId>>
      BY <2>3 DEF Veto
    <3>3. p <= lastProposalId
      BY <3>1, UsedIds
    <3>4. \A q \in ProposalIds :
            \/ prop'[q] = prop[q]
            \/ /\ q <= lastProposalId'
               /\ prop'[q].executedTime = 0 /\ prop[q].executedTime = 0
      BY <2>0, <3>1, <3>2, <3>3 DEF ProposalValues
    <3>5. QED
      BY <3>2, <3>4, EngineInvFrame DEF TypeOK
  <2>4. ASSUME NEW m \in Members, NEW p \in ProposalIds, NEW d \in Progress \cup {NoData},
               ExecuteBegin(m, p, d)
        PROVE  EngineInv'
    <3>1. stack = <<>>
      BY <2>4 DEF ExecuteBegin, EngineAdmits, EngineInv, EngineAgrees
    <3>2. stack' = <<p>> /\ engine' = [current |-> p, next |-> GuardHash]
      BY <2>4, <3>1 DEF ExecuteBegin
    <3>3. Status(p) \in {"Ready", "InProgress"}
      BY <2>4 DEF ExecuteBegin, Executable
    <3>4. prop[p].proposedTime # 0
      BY <3>3 DEF Status, StatusOf
    <3>5. /\ prop' = [prop EXCEPT ![p] = Begun(prop[p], Status(p))]
          /\ lastProposalId' = lastProposalId
      BY <2>4 DEF ExecuteBegin
    <3>6. /\ prop'[p].completedTime = now /\ prop'[p].proposedTime # 0
          /\ prop'[p].executedTime # 0
      <4>1. now # 0
        BY DEF TypeOK
      <4>2. Status(p) = "InProgress" => prop[p].executedTime # 0
        BY <2>0, ExecutedStatus DEF Status
      <4>3. QED
        BY <2>0, <3>3, <3>4, <3>5, <4>1, <4>2, BegunType
    <3>7. now # 0 /\ now < HighBit
      BY HighBitRange DEF TypeOK
    <3>8. Status(p)' = "Complete" /\ Status(p)' # "InProgress"
      BY <2>0, <3>6, <3>7, ExecutedStatus DEF Status
    <3>9. ASSUME NEW q \in ProposalIds, q # p
          PROVE  Status(q)' # "InProgress"
      <4>1. Status(q) # "InProgress"
        <5>1. engine.current \in {0, p} /\ q # 0
          BY <2>4 DEF ExecuteBegin, EngineAdmits, ProposalIds
        <5>2. QED
          BY <3>9, <5>1 DEF EngineInv, EngineAgrees
      <4>2. prop'[q] = prop[q]
        BY <2>0, <3>5, <3>9
      <4>3. QED
        BY <2>0, <4>1, <4>2, ExecutedStatus DEF Status
    <3>10. EngineAgrees'
      BY <3>2, <3>8, <3>9 DEF EngineAgrees
    <3>11. FreshIds'
      <4>1. p <= lastProposalId
        BY <3>4, UsedIds
      <4>2. QED
        BY <2>0, <3>5, <4>1 DEF EngineInv, FreshIds, TypeOK, ProposalIds
    <3>12. QED
      BY <3>10, <3>11 DEF EngineInv
  <2>5. ASSUME ReturnComplete
        PROVE  EngineInv'
    <3>1. stack # <<>> /\ engine' = IdleEngine /\ UNCHANGED <<prop, lastProposalId>>
      BY <2>5 DEF ReturnComplete, govVars
    <3>2. stack' = <<>>
      BY <2>5, <3>1, OneExecution DEF ReturnComplete
    <3>3. \A p \in ProposalIds : Status(p)' # "InProgress"
      BY <2>0, <3>1, OneExecution, ExecutedStatus DEF Status
    <3>4. EngineAgrees'
      BY <3>1, <3>2, <3>3, HashAssumption DEF EngineAgrees, IdleEngine, ProposalIds
    <3>5. QED
      BY <3>1, <3>4 DEF EngineInv, FreshIds
  <2>6. ASSUME NEW d \in Progress, ReturnPartial(d)
        PROVE  EngineInv'
    <3>0. PICK p : p = stack[1]
      OBVIOUS
    <3>1. /\ p \in ProposalIds /\ Status(p) = "Complete" /\ engine.current = p
          /\ \A q \in ProposalIds : Status(q) # "InProgress"
      BY <2>6, <3>0, OneExecution DEF ReturnPartial
    <3>2. stack' = <<>> /\ prop' = [prop EXCEPT ![p].completedTime = 0]
      BY <2>6, <3>0, OneExecution DEF ReturnPartial
    <3>3. engine' = [engine EXCEPT !.next = d] /\ lastProposalId' = lastProposalId
      BY <2>6 DEF ReturnPartial
    <3>4. engine'.current = p /\ engine'.next = d
      BY <3>1, <3>3 DEF TypeOK
    <3>5. prop[p].proposedTime # 0 /\ prop[p].executedTime # 0
      BY <2>0, <3>1, ExecutedStatus DEF Status
    <3>6. /\ prop'[p].proposedTime # 0 /\ prop'[p].executedTime # 0
          /\ prop'[p].completedTime = 0
      <4>1. prop'[p] = [prop[p] EXCEPT !.completedTime = 0]
        BY <2>0, <3>1, <3>2
      <4>2. prop[p] \in ProposalValues
        BY <2>0, <3>1
      <4>3. QED
        BY <3>5, <4>1, <4>2 DEF ProposalValues
    <3>7. Status(p)' = "InProgress"
      BY <3>6 DEF Status, StatusOf
    <3>8. ASSUME NEW q \in ProposalIds, q # p
          PROVE  Status(q)' # "InProgress"
      <4>1. prop'[q] = prop[q]
        BY <2>0, <3>2, <3>8
      <4>2. QED
        BY <2>0, <3>1, <4>1, ExecutedStatus DEF Status
    <3>9. d # GuardHash /\ d # NoData /\ p # 0
      BY <3>1, HashAssumption DEF ProposalIds
    <3>10. EngineAgrees'
      <4>1. stack' = <<>> /\ Len(stack') = 0
        BY <3>2
      <4>2. \A q \in ProposalIds : Status(q)' = "InProgress" <=> engine'.current = q
        BY <3>1, <3>4, <3>7, <3>8
      <4>3. engine'.next # GuardHash /\ (engine'.current = 0 <=> engine'.next = NoData)
        BY <3>4, <3>9
      <4>4. QED
        BY <4>1, <4>2, <4>3 DEF EngineAgrees
    <3>11. FreshIds'
      <4>1. p <= lastProposalId
        BY <3>1, <3>5, UsedIds
      <4>2. QED
        BY <2>0, <3>1, <3>2, <3>3, <4>1 DEF EngineInv, FreshIds, TypeOK, ProposalIds
    <3>12. QED
      BY <3>10, <3>11 DEF EngineInv
  <2>7. ASSUME NEW m \in Members, NEW p \in ProposalIds, Cancel(m, p)
        PROVE  EngineInv'
    <3>1. Status(p) = "InProgress" /\ engine' = IdleEngine /\ engine.current = p
      BY <2>7 DEF Cancel, EngineCancelled
    <3>2. /\ prop' = [prop EXCEPT ![p].completedTime = now + HighBit]
          /\ UNCHANGED <<lastProposalId, stack>>
      BY <2>7 DEF Cancel
    <3>3. stack = <<>>
      BY <3>1 DEF EngineInv, EngineAgrees
    <3>4. Status(p)' # "InProgress"
      <4>1. prop'[p] = [prop[p] EXCEPT !.completedTime = now + HighBit]
        BY <2>0, <3>2
      <4>2. prop'[p].completedTime = now + HighBit
        BY <2>0, <4>1 DEF ProposalValues
      <4>3. now + HighBit # 0
        BY HighBitRange DEF TypeOK, Times
      <4>4. QED
        BY <2>0, <4>2, <4>3, ExecutedStatus DEF Status
    <3>5. ASSUME NEW q \in ProposalIds, q # p
          PROVE  Status(q)' # "InProgress"
      <4>1. Status(q) # "InProgress"
        BY <3>1, <3>5 DEF EngineInv, EngineAgrees
      <4>2. prop'[q] = prop[q]
        BY <2>0, <3>2, <3>5
      <4>3. QED
        BY <2>0, <4>1, <4>2, ExecutedStatus DEF Status
    <3>6. EngineAgrees'
      BY <3>1, <3>2, <3>3, <3>4, <3>5, HashAssumption
         DEF EngineAgrees, IdleEngine, ProposalIds
    <3>7. FreshIds'
      <4>1. p <= lastProposalId
        BY <2>0, <3>1, UsedIds, ExecutedStatus DEF Status
      <4>2. QED
        BY <2>0, <3>2, <4>1 DEF EngineInv, FreshIds, TypeOK, ProposalIds
    <3>8. QED
      BY <3>6, <3>7 DEF EngineInv
  <2>8. ASSUME NEW h \in isHost, NEW s \in {{}} \cup {{m} : m \in Members}, AbdicateHost(h, s)
        PROVE  EngineInv'
    BY <2>8, <2>00 DEF AbdicateHost
  <2>9. ASSUME NEW power \in Powers, NEW ms \in SUBSET Members, ChangePower(power, ms)
        PROVE  EngineInv'
    BY <2>9, <2>00 DEF ChangePower, PowerMoves, govVars
  <2>10. ASSUME NEW n \in 1 .. MaxTotal, IncreaseTotal(n)
         PROVE  EngineInv'
    BY <2>10, <2>00 DEF IncreaseTotal, TotalGrows, govVars
  <2>11. ASSUME NEW b \in DisableValues, SetDisabled(b)
         PROVE  EngineInv'
    BY <2>11, <2>00 DEF SetDisabled, govVars
  <2>12. ASSUME Tick
         PROVE  EngineInv'
    BY <2>12, <2>00 DEF Tick, TimePasses, govVars
  <2>13. CASE UNCHANGED vars
    BY <2>13, <2>00 DEF vars
  <2>14. QED
    BY <2>1, <2>2, <2>3, <2>4, <2>5, <2>6, <2>7, <2>8, <2>9, <2>10, <2>11, <2>12, <2>13
       DEF Next, HostStep, EngineStep, OtherStep
<1>3. QED
  BY <1>1, <1>2, TypeCorrect, PTL DEF Spec

\* A proposal is InProgress in the engine exactly when it is for governance,
\* executions never nest, and the reentrancy guard is up while one runs.
THEOREM EngineAgreement == Spec => []EngineAgrees
<1>1. EngineInv => EngineAgrees
  BY DEF EngineInv
<1>2. QED
  BY <1>1, EngineInvariant, PTL

----------------------------------------------------------------------------
(* Execution and approval                                                  *)

\* A quotient rounded down reaches a number exactly when the dividend reaches its
\* multiple.
LEMMA QuotientBound ==
  ASSUME NEW a \in Nat, NEW b \in Nat \ {0}, NEW c \in Nat
  PROVE  a \div b >= c <=> a >= c * b
<1>1. PICK q \in Int : q = a \div b
  OBVIOUS
<1>2. q * b <= a /\ a < (q + 1) * b
  BY <1>1
<1>3. CASE q >= c
  <2>1. q * b >= c * b
    BY <1>3
  <2>2. QED
    BY <1>1, <1>2, <1>3, <2>1
<1>4. CASE q < c
  <2>1. (q + 1) * b <= c * b
    BY <1>4
  <2>2. QED
    BY <1>1, <1>2, <1>4, <2>1
<1>5. QED
  BY <1>3, <1>4

\* What ExecutionFollowsApproval says of the values v of one proposal.
ExecutionApproved(v) ==
  v.executedTime # 0 =>
    /\ v.votes # VetoValue
    /\ 0 < v.passedTime /\ v.passedTime <= v.executedTime
    /\ v.executedTime <= v.maxExecutableTime
    /\ \/ v.passedTime + ExecutionDelay <= v.executedTime
       \/ v.votes * Bps >= UnanimousBps * InitialTotal
    /\ v.completedTime >= HighBit =>
         v.completedTime - HighBit >= v.executedTime + MinCancelDelay

\* Its times are past, and what has passed was measured against a total.
TimesPast(v, t, tvp) ==
  /\ v.executedTime <= t
  /\ v.passedTime <= t
  /\ v.passedTime # 0 => tvp # 0

ApprovalInv ==
  /\ InitialTotal <= total
  /\ \A p \in ProposalIds : ExecutionApproved(prop[p]) /\ TimesPast(prop[p], now, total)

\* Steps keep the invariant that keep or increase the clock and the total and
\* change proposals to what the invariant allows.
LEMMA ApprovalFrame ==
  ASSUME TypeOK, TypeOK', ApprovalInv, now <= now', total <= total',
         \A p \in ProposalIds :
           \/ prop'[p] = prop[p]
           \/ ExecutionApproved(prop'[p]) /\ TimesPast(prop'[p], now', total')
  PROVE  ApprovalInv'
<1>1. /\ {now, now', total, total', InitialTotal} \subseteq Nat
      /\ \A p \in ProposalIds : prop[p] \in ProposalValues
  BY PowerAssumption, TimeAssumption DEF TypeOK, Times
<1>2. InitialTotal <= total'
  BY <1>1 DEF ApprovalInv
<1>3. ASSUME NEW p \in ProposalIds
      PROVE  ExecutionApproved(prop'[p]) /\ TimesPast(prop'[p], now', total')
  <2>1. CASE prop'[p] = prop[p]
    <3>1. prop[p].executedTime \in Nat /\ prop[p].passedTime \in Nat
      BY <1>1, TimeAssumption DEF ProposalValues, Times
    <3>2. ExecutionApproved(prop[p]) /\ TimesPast(prop[p], now, total)
      BY DEF ApprovalInv
    <3>3. TimesPast(prop[p], now', total')
      BY <1>1, <3>1, <3>2 DEF TimesPast
    <3>4. QED
      BY <2>1, <3>2, <3>3
  <2>2. QED
    BY <2>1
<1>4. QED
  BY <1>2, <1>3 DEF ApprovalInv

\* What is Ready has been approved.
LEMMA ReadyApproved ==
  ASSUME TypeOK, ApprovalInv, NEW p \in ProposalIds, Status(p) = "Ready"
  PROVE  LET v == prop[p]
         IN  /\ v.votes # VetoValue /\ 0 < v.passedTime /\ v.passedTime <= now
             /\ \/ v.passedTime + ExecutionDelay <= now
                \/ v.votes * Bps >= UnanimousBps * InitialTotal
<1> DEFINE v == prop[p]
<1>1. v \in ProposalValues /\ TimesPast(v, now, total)
  BY DEF TypeOK, ApprovalInv
<1>2. v.passedTime \in Nat /\ v.votes \in Nat
  BY <1>1, TimeAssumption, PowerAssumption DEF ProposalValues, Times
<1>3. v.votes # VetoValue /\ v.passedTime # 0 /\ ApprovedStatus(v, now, total) = "Ready"
  BY DEF Status, StatusOf
<1>4. CASE v.passedTime + ExecutionDelay <= now
  BY <1>1, <1>2, <1>3, <1>4 DEF TimesPast
<1>5. CASE ~(v.passedTime + ExecutionDelay <= now)
  <2>1. IsUnanimous(v.votes, total)
    BY <1>3, <1>5 DEF ApprovedStatus
  <2>2. total \in Nat \ {0} /\ InitialTotal \in Nat /\ InitialTotal <= total
    BY <1>1, <1>3, PowerAssumption DEF TimesPast, TypeOK, ApprovalInv
  <2>3. v.votes * Bps >= UnanimousBps * total
    BY <1>2, <2>1, <2>2, QuotientBound DEF IsUnanimous, Bps, UnanimousBps
  <2>4. v.votes * Bps >= UnanimousBps * InitialTotal
    BY <1>2, <2>2, <2>3 DEF Bps, UnanimousBps
  <2>5. QED
    BY <1>1, <1>2, <1>3, <2>4 DEF TimesPast
<1>6. QED
  BY <1>4, <1>5

\* The invariant of executions and their approval.
LEMMA ApprovalInvariant == Spec => []ApprovalInv
<1>1. Init => ApprovalInv
  <2> SUFFICES ASSUME Init PROVE ApprovalInv
    OBVIOUS
  <2>1. total = InitialTotal /\ now \in Nat
    BY DEF Init, HistoryInit
  <2>2. \A p \in ProposalIds : prop[p] = Unproposed
    BY DEF Init
  <2>3. QED
    BY <2>1, <2>2, PowerAssumption
       DEF ApprovalInv, ExecutionApproved, TimesPast, Unproposed
<1>2. TypeOK /\ TypeOK' /\ EngineInv /\ ApprovalInv /\ [Next]_vars => ApprovalInv'
  <2> SUFFICES ASSUME TypeOK, TypeOK', EngineInv, ApprovalInv, [Next]_vars PROVE ApprovalInv'
    OBVIOUS
  <2>0. /\ \A p \in ProposalIds : prop[p] \in ProposalValues /\ prop'[p] \in ProposalValues
        /\ prop \in [ProposalIds -> ProposalValues]
        /\ {now, total} \subseteq Nat /\ now < HighBit
        /\ \A p \in ProposalIds : ExecutionApproved(prop[p]) /\ TimesPast(prop[p], now, total)
    <3>1. {now, total} \subseteq Nat /\ now < HighBit
      BY HighBitRange, TimeAssumption DEF TypeOK, Times
    <3>2. \A p \in ProposalIds : prop[p] \in ProposalValues /\ prop'[p] \in ProposalValues
      BY DEF TypeOK
    <3>3. QED
      BY <3>1, <3>2 DEF TypeOK, ApprovalInv
  <2>00. ASSUME UNCHANGED prop, now' >= now, total' >= total
         PROVE  ApprovalInv'
    BY <2>00, <2>0, ApprovalFrame
  <2>1. ASSUME NEW m \in Members, NEW t \in MaxExecutableTimes, NEW c \in CancelDelays,
               Propose(m, t, c)
        PROVE  ApprovalInv'
    <3> DEFINE v == [Unproposed EXCEPT !.proposedTime = now,
                                       !.maxExecutableTime = t, !.cancelDelay = c]
               new == lastProposalId + 1
    <3>1. v \in ProposalValues /\ v.executedTime = 0 /\ v.passedTime = 0
      BY UnproposedType DEF TypeOK, ProposalValues, Unproposed
    <3>2. AcceptGuard(m, v) /\ UNCHANGED <<now, total>>
          /\ prop' = [prop EXCEPT ![new] = Accepted(m, v)] /\ new \in ProposalIds
      BY <2>1 DEF Propose, envVars
    <3>3. Accepted(m, v).executedTime = 0
      BY <3>1, <3>2, AcceptedType
    <3>4. Accepted(m, v).passedTime \in {0, now} /\ total # 0
      BY <3>1, <3>2 DEF Accepted, ProposalValues, AcceptGuard
    <3>5. ExecutionApproved(Accepted(m, v)) /\ TimesPast(Accepted(m, v), now, total)
      BY <2>0, <3>3, <3>4 DEF ExecutionApproved, TimesPast
    <3>6. QED
      BY <2>0, <3>2, <3>5, ApprovalFrame
  <2>2. ASSUME NEW m \in Members, NEW p \in ProposalIds, Accept(m, p)
        PROVE  ApprovalInv'
    <3>1. AcceptGuard(m, prop[p]) /\ UNCHANGED <<now, total>>
          /\ prop' = [prop EXCEPT ![p] = Accepted(m, prop[p])]
      BY <2>2 DEF Accept, envVars
    <3>2. Accepted(m, prop[p]).executedTime = 0
      BY <2>0, <3>1, AcceptedType
    <3>3. prop[p] \in ProposalValues /\ TimesPast(prop[p], now, total)
      BY <2>0
    <3>4. \/ Accepted(m, prop[p]).passedTime = prop[p].passedTime
          \/ Accepted(m, prop[p]).passedTime = now /\ total # 0
      BY <3>1, <3>3 DEF Accepted, ProposalValues, AcceptGuard
    <3>5. ExecutionApproved(Accepted(m, prop[p])) /\ TimesPast(Accepted(m, prop[p]), now, total)
      BY <2>0, <3>2, <3>3, <3>4 DEF ExecutionApproved, TimesPast
    <3>6. QED
      BY <2>0, <3>1, <3>5, ApprovalFrame
  <2>3. ASSUME NEW h \in isHost, NEW p \in ProposalIds, Veto(h, p)
        PROVE  ApprovalInv'
    <3>1. prop[p].executedTime = 0
      BY <2>0, <2>3, ExecutedStatus DEF Veto, Vetoable, Status
    <3>2. prop' = [prop EXCEPT ![p].votes = VetoValue] /\ UNCHANGED <<now, total>>
      BY <2>3 DEF Veto, envVars
    <3>3. prop[p] \in ProposalValues /\ TimesPast(prop[p], now, total)
      BY <2>0
    <3>4. prop'[p] = [prop[p] EXCEPT !.votes = VetoValue]
      BY <2>0, <3>2
    <3>5. /\ prop'[p].executedTime = prop[p].executedTime
          /\ prop'[p].passedTime = prop[p].passedTime
      BY <3>3, <3>4 DEF ProposalValues
    <3>6. ExecutionApproved(prop'[p]) /\ TimesPast(prop'[p], now', total')
      BY <3>1, <3>2, <3>3, <3>5 DEF ExecutionApproved, TimesPast
    <3>7. QED
      BY <2>0, <3>2, <3>6, ApprovalFrame
  <2>4. ASSUME NEW m \in Members, NEW p \in ProposalIds, NEW d \in Progress \cup {NoData},
               ExecuteBegin(m, p, d)
        PROVE  ApprovalInv'
    <3>1. /\ Status(p) \in {"Ready", "InProgress"}
          /\ Status(p) = "Ready" => now <= prop[p].maxExecutableTime
          /\ prop' = [prop EXCEPT ![p] = Begun(prop[p], Status(p))]
          /\ UNCHANGED <<now, total>>
      BY <2>4 DEF ExecuteBegin, Executable, envVars
    <3>2. prop'[p] = Begun(prop[p], Status(p)) /\ prop[p] \in ProposalValues
      BY <2>0, <3>1
    <3>3. /\ prop'[p].completedTime = now
          /\ prop'[p].executedTime = IF Status(p) = "Ready" THEN now ELSE prop[p].executedTime
      BY <3>2, BegunType
    <3>4. /\ prop'[p].votes = prop[p].votes
          /\ prop'[p].passedTime = prop[p].passedTime
          /\ prop'[p].maxExecutableTime = prop[p].maxExecutableTime
      BY <3>2 DEF Begun, ProposalValues
    <3>5. ~(now >= HighBit) /\ ExecutionApproved(prop[p]) /\ TimesPast(prop[p], now, total)
      BY <2>0, HighBitRange
    <3>6. CASE Status(p) = "Ready"
      <4>1. prop'[p].executedTime = now /\ now <= prop[p].maxExecutableTime
        BY <3>1, <3>3, <3>6
      <4>2. /\ prop[p].votes # VetoValue /\ 0 < prop[p].passedTime /\ prop[p].passedTime <= now
            /\ \/ prop[p].passedTime + ExecutionDelay <= now
               \/ prop[p].votes * Bps >= UnanimousBps * InitialTotal
        BY <3>6, ReadyApproved
      <4>3. ExecutionApproved(prop'[p])
        BY <3>3, <3>4, <3>5, <4>1, <4>2 DEF ExecutionApproved
      <4>4. TimesPast(prop'[p], now, total)
        BY <2>0, <3>4, <3>5, <4>1 DEF TimesPast
      <4>5. QED
        BY <2>0, <3>1, <4>3, <4>4, ApprovalFrame
    <3>7. CASE Status(p) = "InProgress"
      <4>1. prop'[p].executedTime = prop[p].executedTime
        BY <3>3, <3>7
      <4>2. ExecutionApproved(prop'[p])
        BY <3>3, <3>4, <3>5, <4>1 DEF ExecutionApproved
      <4>3. TimesPast(prop'[p], now, total)
        BY <3>4, <3>5, <4>1 DEF TimesPast
      <4>4. QED
        BY <2>0, <3>1, <4>2, <4>3, ApprovalFrame
    <3>8. QED
      BY <3>1, <3>6, <3>7
  <2>5. ASSUME ReturnComplete
        PROVE  ApprovalInv'
    BY <2>5, <2>0, <2>00 DEF ReturnComplete, govVars, envVars
  <2>6. ASSUME NEW d \in Progress, ReturnPartial(d)
        PROVE  ApprovalInv'
    <3>0. PICK p : p = stack[1]
      OBVIOUS
    <3>1. p \in ProposalIds /\ prop' = [prop EXCEPT ![p].completedTime = 0]
          /\ UNCHANGED <<now, total>>
      BY <2>6, <3>0, OneExecution DEF ReturnPartial, envVars
    <3>2. /\ prop'[p] = [prop[p] EXCEPT !.completedTime = 0] /\ prop[p] \in ProposalValues
          /\ ExecutionApproved(prop[p]) /\ TimesPast(prop[p], now, total)
      BY <2>0, <3>1
    <3>3. /\ prop'[p].completedTime = 0
          /\ prop'[p].executedTime = prop[p].executedTime
          /\ prop'[p].votes = prop[p].votes
          /\ prop'[p].passedTime = prop[p].passedTime
          /\ prop'[p].maxExecutableTime = prop[p].maxExecutableTime
      BY <3>2 DEF ProposalValues
    <3>4. ~(0 >= HighBit)
      BY HighBitRange, TimeAssumption
    <3>5. ExecutionApproved(prop'[p])
      BY <3>2, <3>3, <3>4 DEF ExecutionApproved
    <3>6. TimesPast(prop'[p], now, total)
      BY <3>2, <3>3 DEF TimesPast
    <3>7. QED
      BY <2>0, <3>1, <3>5, <3>6, ApprovalFrame
  <2>7. ASSUME NEW m \in Members, NEW p \in ProposalIds, Cancel(m, p)
        PROVE  ApprovalInv'
    <3>1. /\ prop' = [prop EXCEPT ![p].completedTime = now + HighBit]
          /\ now >= prop[p].executedTime + CancelDelayOf(p)
          /\ UNCHANGED <<now, total>>
      BY <2>7 DEF Cancel, envVars
    <3>2. /\ prop'[p] = [prop[p] EXCEPT !.completedTime = now + HighBit]
          /\ prop[p] \in ProposalValues
          /\ ExecutionApproved(prop[p]) /\ TimesPast(prop[p], now, total)
      BY <2>0, <3>1
    <3>3. /\ prop'[p].completedTime = now + HighBit
          /\ prop'[p].executedTime = prop[p].executedTime
          /\ prop'[p].votes = prop[p].votes
          /\ prop'[p].passedTime = prop[p].passedTime
          /\ prop'[p].maxExecutableTime = prop[p].maxExecutableTime
      BY <3>2 DEF ProposalValues
    <3>4. CancelDelayOf(p) \in Nat /\ CancelDelayOf(p) >= MinCancelDelay
      <4>1. prop[p].cancelDelay \in CancelDelays \cup {0}
        BY <3>2 DEF ProposalValues
      <4>2. prop[p].cancelDelay \in Nat /\ MinCancelDelay \in Nat /\ MaxCancelDelay \in Nat
        BY <4>1, TimeAssumption
      <4>3. QED
        BY <4>2 DEF CancelDelayOf
    <3>5. (now + HighBit) - HighBit >= prop[p].executedTime + MinCancelDelay
      <4>1. prop[p].executedTime \in Nat /\ MinCancelDelay \in Nat
        BY <3>2, TimeAssumption DEF ProposalValues, Times
      <4>2. QED
        BY <2>0, <3>1, <3>4, <4>1, HighBitRange
    <3>6. ExecutionApproved(prop'[p])
      BY <3>2, <3>3, <3>5 DEF ExecutionApproved
    <3>7. TimesPast(prop'[p], now, total)
      BY <3>2, <3>3 DEF TimesPast
    <3>8. QED
      BY <2>0, <3>1, <3>6, <3>7, ApprovalFrame
  <2>8. ASSUME NEW h \in isHost, NEW s \in {{}} \cup {{m} : m \in Members}, AbdicateHost(h, s)
        PROVE  ApprovalInv'
    BY <2>8, <2>0, <2>00 DEF AbdicateHost, envVars
  <2>9. ASSUME NEW power \in Powers, NEW ms \in SUBSET Members, ChangePower(power, ms)
        PROVE  ApprovalInv'
    BY <2>9, <2>0, <2>00 DEF ChangePower, PowerMoves, govVars
  <2>10. ASSUME NEW n \in 1 .. MaxTotal, IncreaseTotal(n)
         PROVE  ApprovalInv'
    BY <2>10, <2>0, <2>00 DEF IncreaseTotal, TotalGrows, govVars
  <2>11. ASSUME NEW b \in DisableValues, SetDisabled(b)
         PROVE  ApprovalInv'
    BY <2>11, <2>0, <2>00 DEF SetDisabled, govVars
  <2>12. ASSUME Tick
         PROVE  ApprovalInv'
    BY <2>12, <2>0, <2>00 DEF Tick, TimePasses, govVars
  <2>13. CASE UNCHANGED vars
    BY <2>13, <2>0, <2>00 DEF vars
  <2>14. QED
    BY <2>1, <2>2, <2>3, <2>4, <2>5, <2>6, <2>7, <2>8, <2>9, <2>10, <2>11, <2>12, <2>13
       DEF Next, HostStep, EngineStep, OtherStep
<1>3. QED
  BY <1>1, <1>2, TypeCorrect, EngineInvariant, PTL DEF Spec

\* Every execution follows the approval of the members: it passed, was in time, was
\* not vetoed, and had waited or was unanimous; a cancellation leaves it its time.
THEOREM ApprovalComesFirst == Spec => []ExecutionFollowsApproval
<1>1. ApprovalInv => ExecutionFollowsApproval
  BY DEF ApprovalInv, ExecutionApproved, ExecutionFollowsApproval
<1>2. QED
  BY <1>1, ApprovalInvariant, PTL

----------------------------------------------------------------------------
(* The votes                                                               *)

\* The values v of a proposal count the power of its voters, which was written
\* before the present second, and there is a total to measure it against.
VotesCounted(v, h, t, tvp) ==
  v.proposedTime # 0 =>
    /\ v.proposedTime <= t
    /\ tvp # 0
    /\ v.votes # VetoValue => v.votes = SumFunctionOnSet(h[v.proposedTime - 1], v.voters)

\* All the power there ever was fits the total.
TotalCovers(h, tvp) == tvp # 0 => \A t \in Times : SumFunctionOnSet(h[t], Members) <= tvp

\* VotesAreVoterPower is not inductive: the power counted must be past, where it
\* is not written any more, and within the total.
CountInv ==
  /\ TotalCovers(hist, total)
  /\ \A p \in ProposalIds : VotesCounted(prop[p], hist, now, total)
  /\ \A p \in 1 .. lastProposalId : prop[p].proposedTime # 0

\* A vote adds the power of the voter, which did not vote before.
LEMMA VoteCounts ==
  ASSUME TypeOK, NEW m \in Members, NEW v \in ProposalValues, AcceptGuard(m, v),
         VotesCounted(v, hist, now, total)
  PROVE  /\ VotesCounted(Accepted(m, v), hist, now, total)
         /\ Accepted(m, v).votes
              = SumFunctionOnSet(hist[Accepted(m, v).proposedTime - 1], Accepted(m, v).voters)
<1>1. v.proposedTime # 0 /\ v.votes # VetoValue
  <2>1. v.proposedTime # 0 /\ v.executedTime = 0 /\ StatusOf(v, now, total) # "Defeated"
    BY ExecutedStatus DEF AcceptGuard, OpenStatuses
  <2>2. QED
    BY <2>1 DEF StatusOf
<1>2. PICK h : h = hist[v.proposedTime - 1]
  OBVIOUS
<1>3. v.proposedTime - 1 \in Times
  BY <1>1, TimeAssumption DEF ProposalValues, Times
<1>4. h \in [Members -> 0 .. Uint96Max]
  BY <1>2, <1>3 DEF TypeOK
<1>5. v.votes = SumFunctionOnSet(h, v.voters) /\ v.voters \subseteq Members /\ m \notin v.voters
  BY <1>1, <1>2 DEF VotesCounted, ProposalValues, AcceptGuard, MayVote
<1>6. SumFunctionOnSet(h, v.voters \cup {m}) = h[m] + SumFunctionOnSet(h, v.voters)
  <2>1. IsFiniteSet(v.voters)
    BY <1>5, FS_Subset, PowerAssumption
  <2>2. \A x \in Members : h[x] \in Int
    BY <1>4, PowerAssumption
  <2>3. QED
    BY <1>5, <2>1, <2>2, SumAdd
<1>7. v.votes \in Nat /\ h[m] \in Nat
  BY <1>4, PowerAssumption DEF ProposalValues
<1>8. CountedPower(m, v) = h[m]
  BY <1>2 DEF CountedPower
<1>9. /\ Accepted(m, v).votes = v.votes + h[m]
      /\ Accepted(m, v).voters = v.voters \cup {m}
      /\ Accepted(m, v).proposedTime = v.proposedTime
  BY <1>8, AcceptedType DEF Accepted, ProposalValues
<1>10. Accepted(m, v).votes = SumFunctionOnSet(h, v.voters \cup {m})
  BY <1>5, <1>6, <1>7, <1>9
<1>11. Accepted(m, v).votes
          = SumFunctionOnSet(hist[Accepted(m, v).proposedTime - 1], Accepted(m, v).voters)
  BY <1>2, <1>9, <1>10, Zenon
<1>12. v.proposedTime <= now /\ total # 0
  BY <1>1 DEF VotesCounted
<1>13. QED
  BY <1>9, <1>11, <1>12 DEF VotesCounted

\* A proposal that has just been made has no votes yet.
LEMMA NoVotesYet ==
  ASSUME TypeOK, NEW m, NEW t \in MaxExecutableTimes, NEW c \in CancelDelays, NEW v,
         v = [Unproposed EXCEPT !.proposedTime = now, !.maxExecutableTime = t, !.cancelDelay = c],
         AcceptGuard(m, v)
  PROVE  v \in ProposalValues /\ v.proposedTime = now /\ VotesCounted(v, hist, now, total)
<1>1. v \in ProposalValues
  BY UnproposedType DEF TypeOK, ProposalValues, Unproposed
<1>2. v.votes = 0 /\ v.voters = {} /\ v.proposedTime = now /\ v.passedTime = 0
  BY DEF Unproposed
<1>3. total # 0 /\ now \in Nat
  BY <1>2, TimeAssumption DEF AcceptGuard, TypeOK, Times
<1>4. v.votes = SumFunctionOnSet(hist[v.proposedTime - 1], v.voters)
  <2>1. SumFunctionOnSet(hist[v.proposedTime - 1], {}) = 0
    BY SumEmpty
  <2>2. QED
    BY <1>2, <2>1, Zenon
<1>5. QED
  BY <1>1, <1>2, <1>3, <1>4 DEF VotesCounted

\* Steps keep the invariant that keep the past and change no votes but to what
\* the invariant allows.
LEMMA CountFrame ==
  ASSUME TypeOK, TypeOK', CountInv, now <= now', total <= total', TotalCovers(hist', total'),
         \A t \in Times : t < now => hist'[t] = hist[t],
         \A p \in 1 .. lastProposalId' : p <= lastProposalId \/ prop'[p].proposedTime # 0,
         \A p \in ProposalIds :
           \/ /\ prop'[p].proposedTime = prop[p].proposedTime
              /\ prop'[p].voters = prop[p].voters
              /\ prop'[p].votes \in {prop[p].votes, VetoValue}
           \/ prop'[p].proposedTime # 0 /\ VotesCounted(prop'[p], hist', now', total')
  PROVE  CountInv'
<1>1. {now, now', total, total'} \subseteq Nat
  BY TimeAssumption DEF TypeOK, Times
<1>2. ASSUME NEW p \in ProposalIds
      PROVE  VotesCounted(prop'[p], hist', now', total')
  <2>1. CASE /\ prop'[p].proposedTime = prop[p].proposedTime
             /\ prop'[p].voters = prop[p].voters
             /\ prop'[p].votes \in {prop[p].votes, VetoValue}
    <3> SUFFICES ASSUME prop'[p].proposedTime # 0
                 PROVE  /\ prop'[p].proposedTime <= now' /\ total' # 0
                        /\ prop'[p].votes # VetoValue =>
                             prop'[p].votes = SumFunctionOnSet(hist'[prop'[p].proposedTime - 1],
                                                               prop'[p].voters)
      BY DEF VotesCounted
    <3>1. prop[p].proposedTime \in Times \ {0}
      BY <2>1 DEF TypeOK, ProposalValues
    <3>2. VotesCounted(prop[p], hist, now, total)
      BY DEF CountInv
    <3>3. prop[p].proposedTime <= now /\ total # 0
      BY <2>1, <3>2 DEF VotesCounted
    <3>4. prop[p].proposedTime - 1 \in Times /\ prop[p].proposedTime - 1 < now
      BY <1>1, <3>1, <3>3, TimeAssumption DEF Times
    <3>5. hist'[prop[p].proposedTime - 1] = hist[prop[p].proposedTime - 1]
      BY <3>4
    <3>6. prop[p].votes # VetoValue =>
             prop[p].votes = SumFunctionOnSet(hist[prop[p].proposedTime - 1], prop[p].voters)
      BY <2>1, <3>2 DEF VotesCounted
    <3>7. prop'[p].votes # VetoValue =>
             prop'[p].votes = SumFunctionOnSet(hist'[prop'[p].proposedTime - 1], prop'[p].voters)
      <4> SUFFICES ASSUME prop'[p].votes # VetoValue
                   PROVE  prop'[p].votes = SumFunctionOnSet(hist'[prop'[p].proposedTime - 1],
                                                            prop'[p].voters)
        OBVIOUS
      <4>1. prop'[p].votes = prop[p].votes
        BY <2>1
      <4>2. QED
        BY <2>1, <3>5, <3>6, <4>1, Zenon
    <3>8. prop'[p].proposedTime <= now' /\ total' # 0
      <4>1. prop[p].proposedTime \in Nat
        BY <3>1, TimeAssumption DEF Times
      <4>2. QED
        BY <1>1, <2>1, <3>3, <4>1
    <3>9. QED
      BY <3>7, <3>8
  <2>2. QED
    BY <2>1
<1>3. ASSUME NEW p \in 1 .. lastProposalId'
      PROVE  prop'[p].proposedTime # 0
  <2>1. p \in ProposalIds
    BY TimeAssumption DEF TypeOK, ProposalIds
  <2>2. CASE p <= lastProposalId
    <3>1. p \in 1 .. lastProposalId
      BY <2>2 DEF TypeOK
    <3>2. prop[p].proposedTime # 0
      BY <3>1 DEF CountInv
    <3>3. QED
      BY <2>1, <3>2
  <2>3. QED
    BY <2>2
<1>4. QED
  BY <1>2, <1>3 DEF CountInv

\* Steps that change neither the votes nor the power.
Uncounted ==
  /\ UNCHANGED <<now, total, hist, lastProposalId>>
  /\ \A p \in ProposalIds :
       /\ prop'[p].proposedTime = prop[p].proposedTime
       /\ prop'[p].passedTime = prop[p].passedTime
       /\ prop'[p].voters = prop[p].voters
       /\ prop'[p].votes \in {prop[p].votes, VetoValue}

\* All but votes and the steps of the environment are such.
LEMMA Uncounting ==
  ASSUME TypeOK, TypeOK', EngineInv
  PROVE  \/ \E h \in isHost : HostStep(h)
         \/ EngineStep
         \/ \E m \in Members, p \in ProposalIds : Cancel(m, p)
         \/ \E b \in DisableValues : SetDisabled(b)
         \/ UNCHANGED vars
         => Uncounted
<1>0. /\ prop \in [ProposalIds -> ProposalValues]
      /\ \A p \in ProposalIds : prop[p] \in ProposalValues
  BY DEF TypeOK
<1>1. ASSUME NEW h \in isHost, NEW p \in ProposalIds, Veto(h, p)
      PROVE  Uncounted
  BY <1>0, <1>1 DEF Veto, envVars, Uncounted, ProposalValues
<1>2. ASSUME NEW h \in isHost, NEW s, AbdicateHost(h, s)
      PROVE  Uncounted
  BY <1>2 DEF AbdicateHost, envVars, Uncounted
<1>3. ASSUME NEW m, NEW p \in ProposalIds, NEW d, ExecuteBegin(m, p, d)
      PROVE  Uncounted
  <2>1. /\ Begun(prop[p], Status(p)).proposedTime = prop[p].proposedTime
        /\ Begun(prop[p], Status(p)).passedTime = prop[p].passedTime
        /\ Begun(prop[p], Status(p)).voters = prop[p].voters
        /\ Begun(prop[p], Status(p)).votes = prop[p].votes
    BY <1>0 DEF Begun, ProposalValues
  <2>2. /\ prop' = [prop EXCEPT ![p] = Begun(prop[p], Status(p))]
        /\ UNCHANGED <<now, total, hist, lastProposalId>>
    BY <1>3 DEF ExecuteBegin, envVars
  <2>3. QED
    BY <1>0, <2>1, <2>2 DEF Uncounted
<1>4. CASE ReturnComplete
  BY <1>4 DEF ReturnComplete, govVars, envVars, Uncounted
<1>5. ASSUME NEW d, ReturnPartial(d)
      PROVE  Uncounted
  <2>0. PICK p : p = Last(stack)
    OBVIOUS
  <2>1. p \in ProposalIds /\ prop' = [prop EXCEPT ![p].completedTime = 0]
        /\ UNCHANGED <<now, total, hist, lastProposalId>>
    BY <1>5, <2>0, OneExecution DEF ReturnPartial, envVars
  <2>2. QED
    BY <1>0, <2>1 DEF Uncounted, ProposalValues
<1>6. ASSUME NEW m, NEW p \in ProposalIds, Cancel(m, p)
      PROVE  Uncounted
  BY <1>0, <1>6 DEF Cancel, envVars, Uncounted, ProposalValues
<1>7. ASSUME NEW b, SetDisabled(b)
      PROVE  Uncounted
  BY <1>7 DEF SetDisabled, govVars, Uncounted
<1>8. CASE UNCHANGED vars
  BY <1>8 DEF vars, Uncounted
<1>9. QED
  BY <1>1, <1>2, <1>3, <1>4, <1>5, <1>6, <1>7, <1>8 DEF HostStep, EngineStep

\* The vote of member m on the values v of proposal p, at present.
Votes(m, p, v) ==
  /\ m \in Members
  /\ p \in ProposalIds
  /\ v \in ProposalValues
  /\ AcceptGuard(m, v)
  /\ VotesCounted(v, hist, now, total)
  /\ v.passedTime = prop[p].passedTime \/ v.passedTime = 0
  /\ prop' = [prop EXCEPT ![p] = Accepted(m, v)]
  /\ UNCHANGED <<now, total, hist>>
  /\ \/ lastProposalId' = lastProposalId
     \/ p = lastProposalId + 1 /\ lastProposalId' = p

\* Proposals and acceptances are votes.
LEMMA VotingSteps ==
  ASSUME TypeOK, CountInv, NEW m \in Members
  PROVE  /\ \A t \in MaxExecutableTimes, c \in CancelDelays :
              Propose(m, t, c) => \E p \in ProposalIds, v \in ProposalValues : Votes(m, p, v)
         /\ \A p \in ProposalIds : Accept(m, p) => Votes(m, p, prop[p])
<1>1. ASSUME NEW t \in MaxExecutableTimes, NEW c \in CancelDelays, Propose(m, t, c)
      PROVE  \E p \in ProposalIds, v \in ProposalValues : Votes(m, p, v)
  <2>1. PICK v : v = [Unproposed EXCEPT !.proposedTime = now,
                                        !.maxExecutableTime = t, !.cancelDelay = c]
    OBVIOUS
  <2>2. PICK p : p = lastProposalId + 1
    OBVIOUS
  <2>3. /\ AcceptGuard(m, v) /\ p \in ProposalIds /\ lastProposalId' = p
        /\ prop' = [prop EXCEPT ![p] = Accepted(m, v)]
        /\ UNCHANGED <<now, total, hist>>
    BY <1>1, <2>1, <2>2 DEF Propose, envVars
  <2>4. v \in ProposalValues /\ VotesCounted(v, hist, now, total)
    BY <2>1, <2>3, NoVotesYet
  <2>5. v.passedTime = 0
    BY <2>1 DEF Unproposed
  <2>6. Votes(m, p, v)
    BY <2>2, <2>3, <2>4, <2>5 DEF Votes
  <2>7. QED
    BY <2>3, <2>4, <2>6
<1>2. ASSUME NEW p \in ProposalIds, Accept(m, p)
      PROVE  Votes(m, p, prop[p])
  <2>1. prop[p] \in ProposalValues /\ VotesCounted(prop[p], hist, now, total)
    BY DEF TypeOK, CountInv
  <2>2. /\ AcceptGuard(m, prop[p])
        /\ prop' = [prop EXCEPT ![p] = Accepted(m, prop[p])]
        /\ UNCHANGED <<now, total, hist, lastProposalId>>
    BY <1>2 DEF Accept, envVars
  <2>3. QED
    BY <2>1, <2>2, Zenon DEF Votes
<1>3. QED
  BY <1>1, <1>2

\* A vote keeps the invariant.
LEMMA VoteStep ==
  ASSUME TypeOK, TypeOK', CountInv, NEW m, NEW p, NEW v, Votes(m, p, v)
  PROVE  CountInv'
<1>1. /\ prop \in [ProposalIds -> ProposalValues]
      /\ {now, total, lastProposalId} \subseteq Nat
      /\ TotalCovers(hist, total)
  BY TimeAssumption DEF TypeOK, Times, CountInv
<1>2. VotesCounted(Accepted(m, v), hist, now, total) /\ Accepted(m, v).proposedTime # 0
  BY VoteCounts, AcceptedType DEF Votes
<1>3. \A q \in ProposalIds : IF q = p THEN prop'[q] = Accepted(m, v) ELSE prop'[q] = prop[q]
  BY <1>1 DEF Votes
<1>4. UNCHANGED <<now, total, hist>>
  BY DEF Votes
<1>5. \A q \in 1 .. lastProposalId' : q <= lastProposalId \/ prop'[q].proposedTime # 0
  BY <1>1, <1>2, <1>3 DEF Votes
<1>6. now <= now' /\ total <= total' /\ TotalCovers(hist', total')
      /\ \A t \in Times : t < now => hist'[t] = hist[t]
  BY <1>1, <1>4
<1>7. VotesCounted(Accepted(m, v), hist', now', total')
  BY <1>2, <1>4
<1>8. QED
  BY <1>2, <1>3, <1>5, <1>6, <1>7, CountFrame

\* So does a step that leaves the votes alone, whatever it does to the present.
LEMMA OtherCounts ==
  ASSUME TypeOK, TypeOK', CountInv, UNCHANGED lastProposalId,
         now <= now', total <= total', TotalCovers(hist', total'),
         \A t \in Times : t < now => hist'[t] = hist[t],
         \A p \in ProposalIds :
           /\ prop'[p].proposedTime = prop[p].proposedTime
           /\ prop'[p].voters = prop[p].voters
           /\ prop'[p].votes \in {prop[p].votes, VetoValue}
  PROVE  CountInv'
<1>1. \A p \in 1 .. lastProposalId' : p <= lastProposalId \/ prop'[p].proposedTime # 0
  BY DEF TypeOK
<1>2. QED
  BY <1>1, CountFrame

\* The invariant of votes and power.
LEMMA CountInvariant == Spec => []CountInv
<1>1. Init => CountInv
  <2> SUFFICES ASSUME Init PROVE CountInv
    OBVIOUS
  <2>1. TotalCovers(hist, total)
    BY DEF Init, HistoryInit, TotalCovers
  <2>2. \A p \in ProposalIds : prop[p].proposedTime = 0
    BY DEF Init, Unproposed
  <2>3. lastProposalId = 0
    BY DEF Init
  <2>4. QED
    BY <2>1, <2>2, <2>3 DEF CountInv, VotesCounted
<1>2. TypeOK /\ TypeOK' /\ EngineInv /\ CountInv /\ [Next]_vars => CountInv'
  <2> SUFFICES ASSUME TypeOK, TypeOK', EngineInv, CountInv, [Next]_vars PROVE CountInv'
    OBVIOUS
  <2>0. {now, total} \subseteq Nat /\ TotalCovers(hist, total)
    BY TimeAssumption DEF TypeOK, Times, CountInv
  <2>1. CASE Uncounted
    <3>1. now <= now' /\ total <= total' /\ TotalCovers(hist', total')
          /\ \A t \in Times : t < now => hist'[t] = hist[t]
      BY <2>0, <2>1 DEF Uncounted
    <3>2. QED
      BY <2>1, <3>1, OtherCounts DEF Uncounted
  <2>2. ASSUME NEW m \in Members, NEW t \in MaxExecutableTimes, NEW c \in CancelDelays,
               Propose(m, t, c)
        PROVE  CountInv'
    BY <2>2, VotingSteps, VoteStep
  <2>3. ASSUME NEW m \in Members, NEW p \in ProposalIds, Accept(m, p)
        PROVE  CountInv'
    BY <2>3, VotingSteps, VoteStep
  <2>4. ASSUME NEW power \in Powers, NEW ms \in SUBSET Members, ChangePower(power, ms)
        PROVE  CountInv'
    <3>1. /\ UNCHANGED <<prop, lastProposalId, now, total>>
          /\ total # 0 => SumFunctionOnSet(power, Members) <= total
          /\ hist' = [t \in Times |-> IF t < now THEN hist[t] ELSE power]
      BY <2>4 DEF ChangePower, PowerMoves, govVars
    <3>2. \A t \in Times : hist'[t] \in {hist[t], power} /\ (t < now => hist'[t] = hist[t])
      BY <3>1
    <3>3. TotalCovers(hist', total')
      <4> SUFFICES ASSUME total # 0, NEW t \in Times
                   PROVE  SumFunctionOnSet(hist'[t], Members) <= total
        BY <3>1 DEF TotalCovers
      <4>1. CASE hist'[t] = hist[t]
        <5>1. SumFunctionOnSet(hist[t], Members) <= total
          BY <2>0 DEF TotalCovers
        <5>2. QED
          BY <4>1, <5>1, Zenon
      <4>2. CASE hist'[t] = power
        BY <3>1, <4>2, Zenon
      <4>3. QED
        BY <3>2, <4>1, <4>2
    <3>4. QED
      BY <2>0, <3>1, <3>2, <3>3, OtherCounts
  <2>5. ASSUME NEW n \in 1 .. MaxTotal, IncreaseTotal(n)
        PROVE  CountInv'
    <3>1. /\ UNCHANGED <<prop, lastProposalId, now, hist>>
          /\ total < n /\ total' = n
          /\ total = 0 => \A t \in Times : SumFunctionOnSet(hist[t], Members) <= n
      BY <2>5 DEF IncreaseTotal, TotalGrows, govVars
    <3>2. ASSUME NEW t \in Times
          PROVE  SumFunctionOnSet(hist[t], Members) <= n
      <4>1. CASE total = 0
        BY <3>1, <4>1
      <4>2. CASE total # 0
        <5>1. SumFunctionOnSet(hist[t], Members) <= total
          BY <2>0, <4>2 DEF TotalCovers
        <5>2. SumFunctionOnSet(hist[t], Members) \in Int
          <6>1. hist[t] \in [Members -> 0 .. Uint96Max]
            BY DEF TypeOK
          <6>2. \A x \in Members : hist[t][x] \in Int
            BY <6>1, PowerAssumption
          <6>3. QED
            BY <6>2, SumType, PowerAssumption
        <5>3. n \in Int
          OBVIOUS
        <5>4. QED
          BY <2>0, <3>1, <5>1, <5>2, <5>3
      <4>3. QED
        BY <4>1, <4>2
    <3>3. TotalCovers(hist', total')
      BY <3>1, <3>2 DEF TotalCovers
    <3>4. total <= total' /\ now <= now'
      BY <2>0, <3>1
    <3>5. QED
      BY <3>1, <3>3, <3>4, OtherCounts
  <2>6. CASE Tick
    <3>1. UNCHANGED <<prop, lastProposalId, total, hist>> /\ now' = now + 1
      BY <2>6 DEF Tick, TimePasses, govVars
    <3>2. now <= now' /\ total <= total' /\ TotalCovers(hist', total')
      BY <2>0, <3>1
    <3>3. QED
      BY <3>1, <3>2, OtherCounts
  <2>7. QED
    BY <2>1, <2>2, <2>3, <2>4, <2>5, <2>6, Uncounting DEF Next, OtherStep
<1>3. QED
  BY <1>1, <1>2, TypeCorrect, EngineInvariant, PTL DEF Spec

\* The counter of a proposal is the power that its voters had one tick before it was
\* made, each counted once, however power moved since, and within the total.
THEOREM VotesArePower == Spec => []VotesAreVoterPower
<1>1. TypeOK /\ CountInv => VotesAreVoterPower
  <2> SUFFICES ASSUME TypeOK, CountInv, NEW p \in 1 .. lastProposalId,
                      prop[p].votes # VetoValue
               PROVE  /\ prop[p].votes = SumFunctionOnSet(hist[prop[p].proposedTime - 1],
                                                          prop[p].voters)
                      /\ prop[p].votes <= total
    BY DEF VotesAreVoterPower
  <2>0. p \in ProposalIds
    <3>1. lastProposalId \in 0 .. MaxProposals /\ MaxProposals \in Nat
      BY TimeAssumption DEF TypeOK
    <3>2. QED
      BY <3>1 DEF ProposalIds
  <2>1. p \in ProposalIds /\ prop[p] \in ProposalValues
    BY <2>0 DEF TypeOK
  <2>2. prop[p].proposedTime # 0 /\ VotesCounted(prop[p], hist, now, total)
    BY <2>1 DEF CountInv
  <2>3. /\ prop[p].votes = SumFunctionOnSet(hist[prop[p].proposedTime - 1], prop[p].voters)
        /\ total # 0
    BY <2>2 DEF VotesCounted
  <2>4. PICK h : h = hist[prop[p].proposedTime - 1]
    OBVIOUS
  <2>5. prop[p].proposedTime - 1 \in Times
    BY <2>1, <2>2, TimeAssumption DEF ProposalValues, Times
  <2>6. h \in [Members -> 0 .. Uint96Max] /\ SumFunctionOnSet(h, Members) <= total
    BY <2>3, <2>4, <2>5 DEF TypeOK, CountInv, TotalCovers
  <2>7. SumFunctionOnSet(h, prop[p].voters) <= SumFunctionOnSet(h, Members)
    <3>1. \A x \in Members : h[x] \in Nat
      BY <2>6, PowerAssumption
    <3>2. prop[p].voters \in SUBSET Members
      BY <2>1 DEF ProposalValues
    <3>3. QED
      BY <3>1, <3>2, SumSubset, PowerAssumption
  <2>8. SumFunctionOnSet(h, Members) \in Int
    <3>1. \A x \in Members : h[x] \in Int
      BY <2>6, PowerAssumption
    <3>2. QED
      BY <3>1, SumType, PowerAssumption
  <2>9. prop[p].votes = SumFunctionOnSet(h, prop[p].voters)
    BY <2>3, <2>4, Zenon
  <2>10. prop[p].votes \in Int /\ total \in Int
    BY <2>1, PowerAssumption DEF ProposalValues, TypeOK
  <2>11. QED
    BY <2>3, <2>6, <2>7, <2>8, <2>9, <2>10
<1>2. QED
  BY <1>1, TypeCorrect, CountInvariant, PTL

\* A proposal passes in a step that leaves the share of the total behind it that the
\* party asks for, of power that its voters had before the proposal was made.
THEOREM QuorumIsBacked == Spec => QuorumBacksPassing
<1>1. TypeOK /\ TypeOK' /\ EngineInv /\ CountInv /\ [Next]_vars =>
        [\A p \in ProposalIds :
           prop[p].passedTime = 0 /\ prop'[p].passedTime # 0 =>
             SumFunctionOnSet(hist'[prop'[p].proposedTime - 1], prop'[p].voters) * Bps
               >= PassThresholdBps * total']_vars
  <2> SUFFICES ASSUME TypeOK, TypeOK', EngineInv, CountInv, [Next]_vars, NEW p \in ProposalIds,
                      prop[p].passedTime = 0, prop'[p].passedTime # 0
               PROVE  SumFunctionOnSet(hist'[prop'[p].proposedTime - 1], prop'[p].voters) * Bps
                        >= PassThresholdBps * total'
    BY Zenon
  <2>1. ~Uncounted
    BY DEF Uncounted
  <2>2. prop' # prop
    OBVIOUS
  <2>3. PICK m \in Members : \E q \in ProposalIds, v \in ProposalValues : Votes(m, q, v)
    <3>1. ASSUME NEW m \in Members, NEW q \in ProposalIds, Accept(m, q)
          PROVE  \E r \in ProposalIds, v \in ProposalValues : Votes(m, r, v)
      <4>1. prop[q] \in ProposalValues
        BY DEF TypeOK
      <4>2. QED
        BY <3>1, <4>1, VotingSteps
    <3>2. ~ \E power \in Powers, ms \in SUBSET Members : ChangePower(power, ms)
      BY <2>2 DEF ChangePower, govVars
    <3>3. ~ \E n \in 1 .. MaxTotal : IncreaseTotal(n)
      BY <2>2 DEF IncreaseTotal, govVars
    <3>4. ~Tick
      BY <2>2 DEF Tick, govVars
    <3>5. QED
      BY <2>1, <3>1, <3>2, <3>3, <3>4, Uncounting, VotingSteps DEF Next, OtherStep
  <2>4. PICK q \in ProposalIds, v \in ProposalValues : Votes(m, q, v)
    BY <2>3
  <2>5. q = p /\ prop'[p] = Accepted(m, v) /\ UNCHANGED <<now, total, hist>>
    BY <2>4 DEF Votes, TypeOK
  <2>6. v.passedTime = 0 /\ VotesPass(Accepted(m, v))
    <3>1. v.passedTime = 0
      BY <2>4, <2>5 DEF Votes
    <3>2. PICK w : w = [v EXCEPT !.voters = @ \cup {m}, !.votes = @ + CountedPower(m, v)]
      OBVIOUS
    <3>3. w.passedTime = 0
      BY <3>1, <3>2 DEF ProposalValues
    <3>4. Accepted(m, v) = IF VotesPass(w) THEN [w EXCEPT !.passedTime = now] ELSE w
      BY <3>2, <3>3 DEF Accepted
    <3>5. VotesPass(w)
      BY <2>5, <3>3, <3>4
    <3>6. Accepted(m, v).votes = w.votes
      BY <3>2, <3>4 DEF ProposalValues
    <3>7. QED
      BY <3>1, <3>5, <3>6 DEF VotesPass
  <2>7. Accepted(m, v).votes
          = SumFunctionOnSet(hist[Accepted(m, v).proposedTime - 1], Accepted(m, v).voters)
    BY <2>4, VoteCounts DEF Votes
  <2>8. total \in Nat \ {0}
    BY <2>4, <2>6 DEF Votes, AcceptGuard, TypeOK
  <2>9. Accepted(m, v).votes \in Nat
    BY <2>4, AcceptedType, PowerAssumption DEF Votes, ProposalValues
  <2>10. Accepted(m, v).votes * Bps >= PassThresholdBps * total
    BY <2>6, <2>8, <2>9, QuotientBound, PowerAssumption DEF VotesPass, Bps
  <2>11. SumFunctionOnSet(hist[prop'[p].proposedTime - 1], prop'[p].voters) * Bps
           >= PassThresholdBps * total
    BY <2>5, <2>7, <2>10, Zenon
  <2>12. QED
    BY <2>5, <2>11, Zenon
<1>2. QED
  BY <1>1, TypeCorrect, EngineInvariant, CountInvariant, PTL DEF Spec, QuorumBacksPassing

----------------------------------------------------------------------------
(* The life cycle of proposals                                             *)

\* What LifecycleStatus shows of a proposal that is not executing.
Shown(s) == IF s = "Reverts" THEN "Passed" ELSE s

\* What is shown of the values v of a proposal, by cases of its times.
LEMMA ShownValues ==
  ASSUME NEW v \in ProposalValues, NEW t, NEW tvp
  PROVE  LET s == Shown(StatusOf(v, t, tvp))
         IN  /\ s \in Lifecycle!Statuses \ {"Executing"}
             /\ s = "Invalid" <=> v.proposedTime = 0
             /\ v.proposedTime # 0 /\ v.executedTime = 0 =>
                  /\ v.votes = VetoValue => s = "Defeated"
                  /\ v.votes # VetoValue /\ v.passedTime # 0 => s \in {"Passed", "Ready"}
<1>1. v.completedTime \in 0 .. Uint40Max /\ HighBit \in Nat
  BY HighBitRange DEF ProposalValues
<1>2. ApprovedStatus(v, t, tvp) \in {"Reverts", "Ready", "Passed"}
  BY DEF ApprovedStatus
<1>3. CASE v.proposedTime = 0
  BY <1>3 DEF Shown, StatusOf, Lifecycle!Statuses
<1>4. CASE v.proposedTime # 0 /\ v.executedTime # 0
  BY <1>1, <1>4 DEF Shown, StatusOf, Lifecycle!Statuses
<1>5. CASE v.proposedTime # 0 /\ v.executedTime = 0
  BY <1>2, <1>5 DEF Shown, StatusOf, Lifecycle!Statuses
<1>6. QED
  BY <1>3, <1>4, <1>5

\* Time and a growing total move a proposal along the life cycle only.
LEMMA TimeMoves ==
  ASSUME NEW v \in ProposalValues, NEW t \in Nat, NEW u \in Nat, t <= u,
         NEW tvp, NEW tvq
  PROVE  LET s == Shown(StatusOf(v, t, tvp))
             r == Shown(StatusOf(v, u, tvq))
         IN  r = s \/ <<s, r>> \in Lifecycle!Moves
<1>1. v.proposedTime \in Nat /\ VoteDuration \in Nat
  BY TimeAssumption DEF ProposalValues, Times
<1>2. CASE v.proposedTime = 0 \/ v.executedTime # 0 \/ v.votes = VetoValue
  BY <1>2 DEF StatusOf
<1>3. CASE v.proposedTime # 0 /\ v.executedTime = 0 /\ v.votes # VetoValue /\ v.passedTime # 0
  <2>1. /\ Shown(StatusOf(v, t, tvp)) \in {"Passed", "Ready"}
        /\ Shown(StatusOf(v, u, tvq)) \in {"Passed", "Ready"}
    BY <1>3, ShownValues
  <2>2. QED
    BY <2>1 DEF Lifecycle!Moves
<1>4. CASE v.proposedTime # 0 /\ v.executedTime = 0 /\ v.votes # VetoValue /\ v.passedTime = 0
  BY <1>1, <1>4 DEF StatusOf, Shown, Lifecycle!Moves
<1>5. QED
  BY <1>2, <1>3, <1>4

\* So does a vote on an open proposal.
LEMMA VoteMoves ==
  ASSUME TypeOK, NEW m \in Members, NEW v \in ProposalValues, AcceptGuard(m, v)
  PROVE  LET s == StatusOf(v, now, total)
             r == Shown(StatusOf(Accepted(m, v), now, total))
         IN  /\ s \in OpenStatuses
             /\ r = s \/ <<s, r>> \in Lifecycle!Moves
             /\ Accepted(m, v).votes # VetoValue => r \in OpenStatuses
<1> DEFINE w == Accepted(m, v)
<1>1. /\ w \in ProposalValues /\ w.proposedTime = v.proposedTime /\ w.proposedTime # 0
      /\ w.executedTime = 0 /\ v.executedTime = 0
  BY AcceptedType
<1>2. StatusOf(v, now, total) \in OpenStatuses
  BY DEF AcceptGuard
<1>3. v.votes # VetoValue
  BY <1>1, <1>2 DEF StatusOf, OpenStatuses
<1>4. CASE w.votes = VetoValue
  <2>1. Shown(StatusOf(w, now, total)) = "Defeated"
    BY <1>1, <1>4, ShownValues
  <2>2. QED
    BY <1>2, <1>4, <2>1 DEF OpenStatuses, Lifecycle!Moves
<1>5. CASE w.votes # VetoValue /\ w.passedTime # 0
  <2>1. Shown(StatusOf(w, now, total)) \in {"Passed", "Ready"}
    BY <1>1, <1>5, ShownValues
  <2>2. QED
    BY <1>2, <2>1 DEF OpenStatuses, Lifecycle!Moves
<1>6. CASE w.votes # VetoValue /\ w.passedTime = 0
  <2>1. v.passedTime = 0
    <3>1. v.passedTime # 0 => w.passedTime = v.passedTime
      BY DEF Accepted, ProposalValues
    <3>2. QED
      BY <1>6, <3>1
  <2>2. StatusOf(v, now, total) = "Voting"
    BY <1>1, <1>2, <1>3, <2>1 DEF StatusOf, OpenStatuses
  <2>3. StatusOf(w, now, total) = StatusOf(v, now, total)
    BY <1>1, <1>3, <1>6, <2>1 DEF StatusOf
  <2>4. QED
    BY <1>2, <2>2, <2>3 DEF Shown, OpenStatuses
<1>7. QED
  BY <1>4, <1>5, <1>6

\* The stack of one execution at most holds the proposal it runs.
LEMMA OnStack ==
  ASSUME NEW st \in Seq(ProposalIds), Len(st) <= 1, NEW p
  PROVE  (\E i \in DOMAIN st : st[i] = p) <=> st # <<>> /\ p = st[1]
<1>1. CASE st = <<>>
  BY <1>1
<1>2. CASE st # <<>>
  <2>1. Len(st) \in Nat /\ Len(st) # 0
    BY <1>2, EmptySeq
  <2>2. \A n \in Nat : n # 0 /\ n <= 1 => n = 1
    OBVIOUS
  <2>3. Len(st) = 1
    BY <2>1, <2>2, Zenon
  <2>4. DOMAIN st = {1}
    BY <2>3
  <2>5. QED
    BY <1>2, <2>4
<1>3. QED
  BY <1>1, <1>2

\* What is shown of the proposals: the one that executes, which the engine holds,
\* and of the others their status.
Shows ==
  \A p \in ProposalIds :
    /\ LifecycleStatus(p) = IF stack # <<>> /\ p = stack[1] THEN "Executing"
                            ELSE Shown(Status(p))
    /\ LifecycleStatus(p) \in Lifecycle!Statuses
    /\ LifecycleStatus(p) \in {"Executing", "InProgress"} => p = engine.current
    /\ stack # <<>> /\ p = stack[1] => Status(p) = "Complete"

\* The invariant of the engine makes every status one of the life cycle.
LEMMA StatusesShow == TypeOK /\ EngineInv => Shows
<1> SUFFICES ASSUME TypeOK, EngineInv, NEW p \in ProposalIds
    PROVE  /\ LifecycleStatus(p) = IF stack # <<>> /\ p = stack[1] THEN "Executing"
                                   ELSE Shown(Status(p))
           /\ LifecycleStatus(p) \in Lifecycle!Statuses
           /\ LifecycleStatus(p) \in {"Executing", "InProgress"} => p = engine.current
           /\ stack # <<>> /\ p = stack[1] => Status(p) = "Complete"
  BY DEF Shows
<1>1. stack \in Seq(ProposalIds) /\ Len(stack) <= 1
  BY DEF TypeOK, EngineInv, EngineAgrees
<1>2. (\E i \in DOMAIN stack : stack[i] = p) <=> stack # <<>> /\ p = stack[1]
  BY <1>1, OnStack
<1>3. LifecycleStatus(p) = IF stack # <<>> /\ p = stack[1] THEN "Executing"
                           ELSE Shown(Status(p))
  BY <1>2 DEF LifecycleStatus, Shown
<1>4. Shown(Status(p)) \in Lifecycle!Statuses \ {"Executing"}
  <2>1. prop[p] \in ProposalValues
    BY DEF TypeOK
  <2>2. QED
    BY <2>1, ShownValues DEF Status
<1>5. LifecycleStatus(p) \in Lifecycle!Statuses
  BY <1>3, <1>4 DEF Lifecycle!Statuses
<1>6. stack # <<>> => /\ engine = [current |-> stack[1], next |-> GuardHash]
                      /\ Status(stack[1]) = "Complete"
  BY DEF EngineInv, EngineAgrees
<1>7. Status(p) = "InProgress" => engine.current = p
  BY DEF EngineInv, EngineAgrees
<1>8. Shown(Status(p)) = "InProgress" => Status(p) = "InProgress"
  BY DEF Shown
<1>9. LifecycleStatus(p) \in {"Executing", "InProgress"} => p = engine.current
  BY <1>3, <1>4, <1>6, <1>7, <1>8
<1>10. QED
  BY <1>3, <1>5, <1>6, <1>9

\* The same of the state after a step.
LEMMA StatusesShowNext == TypeOK' /\ EngineInv' => Shows'
BY StatusesShow, PTL

\* No member has so much power that its votes are the mark of a veto.
PowerBelowVeto == \A power \in Powers, m \in Members : power[m] # VetoValue

\* All the power there ever was is one of the distributions.
KnownPower == \A t \in Times : hist[t] \in Powers

\* Power moves to one of the distributions, and only in the present.
LEMMA PowerIsKnown == Spec => []KnownPower
<1>1. Init => KnownPower
  BY DEF Init, HistoryInit, KnownPower
<1>2. KnownPower /\ [Next]_vars => KnownPower'
  <2> SUFFICES ASSUME KnownPower, [Next]_vars PROVE KnownPower'
    OBVIOUS
  <2>1. CASE \E h \in isHost : HostStep(h)
    BY <2>1 DEF HostStep, Veto, AbdicateHost, envVars, KnownPower
  <2>2. CASE EngineStep
    BY <2>2 DEF EngineStep, ExecuteBegin, ReturnComplete, ReturnPartial, envVars, KnownPower
  <2>3. ASSUME NEW power \in Powers, NEW ms \in SUBSET Members, ChangePower(power, ms)
        PROVE  KnownPower'
    BY <2>3 DEF ChangePower, PowerMoves, KnownPower
  <2>4. ASSUME NEW m \in Members, NEW t, NEW c, Propose(m, t, c)
        PROVE  KnownPower'
    BY <2>4 DEF Propose, envVars, KnownPower
  <2>5. ASSUME NEW m \in Members, NEW p, Accept(m, p) \/ Cancel(m, p)
        PROVE  KnownPower'
    BY <2>5 DEF Accept, Cancel, envVars, KnownPower
  <2>6. ASSUME NEW n, IncreaseTotal(n)
        PROVE  KnownPower'
    BY <2>6 DEF IncreaseTotal, TotalGrows, KnownPower
  <2>7. ASSUME NEW b, SetDisabled(b) \/ Tick
        PROVE  KnownPower'
    BY <2>7 DEF SetDisabled, Tick, TimePasses, KnownPower
  <2>8. CASE UNCHANGED vars
    BY <2>8 DEF vars, KnownPower
  <2>9. QED
    BY <2>1, <2>2, <2>3, <2>4, <2>5, <2>6, <2>7, <2>8 DEF Next, OtherStep
<1>3. QED
  BY <1>1, <1>2, PTL DEF Spec

\* A proposal's move, from what is shown of it before and after a step.
Moved(p) ==
  \/ LifecycleStatus(p)' = LifecycleStatus(p)
  \/ <<LifecycleStatus(p), LifecycleStatus(p)'>> \in Lifecycle!Moves

\* Steps that leave a proposal and the stack alone move it along the life cycle.
LEMMA MovedAside ==
  ASSUME TypeOK, TypeOK', Shows, Shows', now <= now', UNCHANGED stack,
         NEW p \in ProposalIds, prop'[p] = prop[p]
  PROVE  Moved(p)
<1>1. prop[p] \in ProposalValues /\ now \in Nat /\ now' \in Nat
  BY TimeAssumption DEF TypeOK, Times
<1>2. \/ Shown(Status(p))' = Shown(Status(p))
      \/ <<Shown(Status(p)), Shown(Status(p))'>> \in Lifecycle!Moves
  <2>1. /\ Shown(Status(p)) = Shown(StatusOf(prop[p], now, total))
        /\ Shown(Status(p))' = Shown(StatusOf(prop[p], now', total'))
    BY DEF Status
  <2>2. QED
    BY <1>1, <2>1, TimeMoves
<1>3. LifecycleStatus(p)' = IF stack # <<>> /\ p = stack[1] THEN "Executing"
                            ELSE Shown(Status(p))'
  BY DEF Shows
<1>4. QED
  BY <1>2, <1>3 DEF Moved, Shows

\* Every step moves every proposal along the life cycle, or leaves it where it is.
LEMMA StepMoves ==
  ASSUME TypeOK, TypeOK', EngineInv, EngineInv', KnownPower, PowerBelowVeto, [Next]_vars,
         NEW q \in ProposalIds
  PROVE  Moved(q)
<1>0. /\ Shows /\ Shows'
      /\ prop \in [ProposalIds -> ProposalValues] /\ prop' \in [ProposalIds -> ProposalValues]
      /\ now \in Nat /\ now < HighBit
  <2>1. Shows /\ Shows'
    BY StatusesShow, StatusesShowNext
  <2>2. now \in Nat /\ now < HighBit
    BY HighBitRange, TimeAssumption DEF TypeOK, Times
  <2>3. QED
    BY <2>1, <2>2 DEF TypeOK
<1>00. ASSUME prop'[q] = prop[q], now' >= now, UNCHANGED stack
       PROVE  Moved(q)
  BY <1>00, <1>0, MovedAside DEF TypeOK, Times
<1>1. ASSUME NEW m \in Members, NEW t \in MaxExecutableTimes, NEW c \in CancelDelays,
             Propose(m, t, c)
      PROVE  Moved(q)
  <2> DEFINE v == [Unproposed EXCEPT !.proposedTime = now,
                                     !.maxExecutableTime = t, !.cancelDelay = c]
             new == lastProposalId + 1
  <2>1. /\ AcceptGuard(m, v) /\ prop' = [prop EXCEPT ![new] = Accepted(m, v)]
        /\ new \in ProposalIds /\ UNCHANGED <<now, total, stack>>
    BY <1>1 DEF Propose, envVars
  <2>2. CASE q # new
    BY <1>0, <1>00, <2>1, <2>2
  <2>3. CASE q = new
    <3>1. /\ v \in ProposalValues /\ v.proposedTime = now
          /\ v.votes = 0 /\ v.voters = {}
      BY UnproposedType DEF TypeOK, ProposalValues, Unproposed
    <3>2. prop[q].proposedTime = 0
      BY <1>1, <2>3 DEF Propose, EngineInv, FreshIds, TypeOK
    <3>3. LifecycleStatus(q) = "Invalid" /\ ~(stack # <<>> /\ q = stack[1])
      BY <1>0, <3>2 DEF Shows, Status, StatusOf, Shown
    <3>4. Accepted(m, v).votes # VetoValue
      <4>1. now - 1 \in Times
        BY TimeAssumption DEF TypeOK, Times
      <4>2. hist[now - 1][m] # VetoValue /\ hist[now - 1][m] \in Nat
        BY <4>1, PowerAssumption DEF KnownPower, PowerBelowVeto, TypeOK
      <4>3. Accepted(m, v).votes = hist[now - 1][m]
        BY <3>1, <4>2 DEF Accepted, CountedPower, ProposalValues
      <4>4. QED
        BY <4>2, <4>3
    <3>5. Shown(StatusOf(Accepted(m, v), now, total)) \in OpenStatuses
      BY <2>1, <3>1, <3>4, VoteMoves
    <3>6. Shown(Status(q))' = Shown(StatusOf(Accepted(m, v), now, total))
      BY <1>0, <2>1, <2>3 DEF Status
    <3>7. LifecycleStatus(q)' = Shown(Status(q))'
      BY <1>0, <2>1, <3>3 DEF Shows
    <3>8. QED
      BY <3>3, <3>5, <3>6, <3>7 DEF Moved, OpenStatuses, Lifecycle!Moves
  <2>4. QED
    BY <2>2, <2>3
<1>2. ASSUME NEW m \in Members, NEW p \in ProposalIds, Accept(m, p)
      PROVE  Moved(q)
  <2>1. /\ AcceptGuard(m, prop[p]) /\ prop' = [prop EXCEPT ![p] = Accepted(m, prop[p])]
        /\ UNCHANGED <<now, total, stack>>
    BY <1>2 DEF Accept, envVars
  <2>2. CASE q # p
    BY <1>0, <1>00, <2>1, <2>2
  <2>3. CASE q = p
    <3>1. prop[q] \in ProposalValues
      BY <1>0
    <3>2. /\ Status(q) \in OpenStatuses
          /\ \/ Shown(StatusOf(Accepted(m, prop[q]), now, total)) = Status(q)
             \/ <<Status(q), Shown(StatusOf(Accepted(m, prop[q]), now, total))>>
                  \in Lifecycle!Moves
      BY <2>1, <2>3, <3>1, VoteMoves DEF Status
    <3>3. Shown(Status(q))' = Shown(StatusOf(Accepted(m, prop[q]), now, total))
      BY <1>0, <2>1, <2>3 DEF Status
    <3>4. LifecycleStatus(q) = Status(q) /\ LifecycleStatus(q)' = Shown(Status(q))'
      BY <1>0, <2>1, <3>2 DEF Shows, Shown, OpenStatuses
    <3>5. QED
      BY <3>2, <3>3, <3>4 DEF Moved
  <2>4. QED
    BY <2>2, <2>3
<1>3. ASSUME NEW h \in isHost, NEW p \in ProposalIds, Veto(h, p)
      PROVE  Moved(q)
  <2>1. /\ Status(p) \in OpenStatuses /\ prop' = [prop EXCEPT ![p].votes = VetoValue]
        /\ UNCHANGED <<now, total, stack>>
    BY <1>3 DEF Veto, Vetoable, envVars
  <2>2. CASE q # p
    BY <1>0, <1>00, <2>1, <2>2
  <2>3. CASE q = p
    <3>1. prop[q] \in ProposalValues /\ prop'[q] = [prop[q] EXCEPT !.votes = VetoValue]
      BY <1>0, <2>1, <2>3
    <3>2. prop[q].proposedTime # 0 /\ prop[q].executedTime = 0
      BY <2>1, <2>3, <3>1, ExecutedStatus DEF Status
    <3>3. prop'[q].proposedTime # 0 /\ prop'[q].executedTime = 0 /\ prop'[q].votes = VetoValue
      BY <3>1, <3>2 DEF ProposalValues
    <3>4. prop'[q] \in ProposalValues
      BY <1>0
    <3>5. Shown(StatusOf(prop'[q], now', total')) = "Defeated"
      BY <3>3, <3>4, ShownValues
    <3>6. LifecycleStatus(q) = Status(q) /\ LifecycleStatus(q)' = Shown(Status(q))'
      BY <1>0, <2>1, <2>3 DEF Shows, Shown, OpenStatuses
    <3>7. QED
      BY <2>1, <2>3, <3>5, <3>6 DEF Moved, Status, OpenStatuses, Lifecycle!Moves
  <2>4. QED
    BY <2>2, <2>3
<1>4. ASSUME NEW m \in Members, NEW p \in ProposalIds, NEW d \in Progress \cup {NoData},
             ExecuteBegin(m, p, d)
      PROVE  Moved(q)
  <2>1. /\ Status(p) \in {"Ready", "InProgress"}
        /\ prop' = [prop EXCEPT ![p] = Begun(prop[p], Status(p))]
        /\ UNCHANGED <<now, total>>
    BY <1>4 DEF ExecuteBegin, Executable, envVars
  <2>2. stack = <<>>
    BY <1>4 DEF ExecuteBegin, EngineAdmits, EngineInv, EngineAgrees
  <2>3. stack' = <<p>>
    BY <1>4, <2>2 DEF ExecuteBegin
  <2>4. CASE q # p
    <3>1. Shown(Status(q))' = Shown(Status(q))
      BY <1>0, <2>1, <2>4 DEF Status
    <3>2. QED
      BY <1>0, <2>2, <2>3, <2>4, <3>1 DEF Moved, Shows
  <2>5. CASE q = p
    <3>1. LifecycleStatus(q) \in {"Ready", "InProgress"}
      BY <1>0, <2>1, <2>2, <2>5 DEF Shows, Shown
    <3>2. LifecycleStatus(q)' = "Executing"
      BY <1>0, <2>3, <2>5 DEF Shows
    <3>3. QED
      BY <3>1, <3>2 DEF Moved, Lifecycle!Moves
  <2>6. QED
    BY <2>4, <2>5
<1>5. ASSUME ReturnComplete
      PROVE  Moved(q)
  <2>1. stack # <<>> /\ UNCHANGED <<prop, now, total>>
    BY <1>5 DEF ReturnComplete, govVars, envVars
  <2>2. stack' = <<>>
    BY <1>5, <2>1, OneExecution DEF ReturnComplete
  <2>3. Shown(Status(q))' = Shown(Status(q)) /\ LifecycleStatus(q)' = Shown(Status(q))'
    BY <1>0, <2>1, <2>2 DEF Status, Shows
  <2>4. CASE q # stack[1]
    BY <1>0, <2>3, <2>4 DEF Moved, Shows
  <2>5. CASE q = stack[1]
    <3>1. LifecycleStatus(q) = "Executing" /\ Status(q) = "Complete"
      BY <1>0, <2>1, <2>5 DEF Shows
    <3>2. QED
      BY <2>3, <3>1 DEF Moved, Shown, Lifecycle!Moves
  <2>6. QED
    BY <2>4, <2>5
<1>6. ASSUME NEW d \in Progress, ReturnPartial(d)
      PROVE  Moved(q)
  <2>0. PICK p : p = stack[1]
    OBVIOUS
  <2>1. /\ stack # <<>> /\ p \in ProposalIds /\ UNCHANGED <<now, total>>
        /\ prop' = [prop EXCEPT ![p].completedTime = 0]
    BY <1>6, <2>0, OneExecution DEF ReturnPartial, envVars
  <2>2. stack' = <<>>
    BY <1>6, <2>1, OneExecution DEF ReturnPartial
  <2>3. CASE q # p
    <3>1. Shown(Status(q))' = Shown(Status(q))
      BY <1>0, <2>1, <2>3 DEF Status
    <3>2. QED
      BY <1>0, <2>0, <2>2, <2>3, <3>1 DEF Moved, Shows
  <2>4. CASE q = p
    <3>1. LifecycleStatus(q) = "Executing" /\ Status(q) = "Complete"
      BY <1>0, <2>0, <2>1, <2>4 DEF Shows
    <3>2. prop[q] \in ProposalValues /\ prop'[q] = [prop[q] EXCEPT !.completedTime = 0]
      BY <1>0, <2>1, <2>4
    <3>3. prop[q].proposedTime # 0 /\ prop[q].executedTime # 0
      BY <3>1, <3>2, ExecutedStatus DEF Status
    <3>4. /\ prop'[q].proposedTime # 0 /\ prop'[q].executedTime # 0
          /\ prop'[q].completedTime = 0 /\ prop'[q] \in ProposalValues
      BY <1>0, <3>2, <3>3 DEF ProposalValues
    <3>5. Status(q)' = "InProgress"
      BY <3>4, ExecutedStatus DEF Status
    <3>6. LifecycleStatus(q)' = "InProgress"
      BY <1>0, <2>2, <3>5 DEF Shows, Shown
    <3>7. QED
      BY <3>1, <3>6 DEF Moved, Lifecycle!Moves
  <2>5. QED
    BY <2>3, <2>4
<1>7. ASSUME NEW m \in Members, NEW p \in ProposalIds, Cancel(m, p)
      PROVE  Moved(q)
  <2>1. /\ Status(p) = "InProgress" /\ prop' = [prop EXCEPT ![p].completedTime = now + HighBit]
        /\ UNCHANGED <<now, total, stack>>
    BY <1>7 DEF Cancel, envVars
  <2>2. CASE q # p
    BY <1>0, <1>00, <2>1, <2>2
  <2>3. CASE q = p
    <3>1. LifecycleStatus(q) = "InProgress" /\ ~(stack # <<>> /\ q = stack[1])
      BY <1>0, <2>1, <2>3 DEF Shows, Shown
    <3>2. prop[q] \in ProposalValues
          /\ prop'[q] = [prop[q] EXCEPT !.completedTime = now + HighBit]
      BY <1>0, <2>1, <2>3
    <3>3. prop[q].proposedTime # 0 /\ prop[q].executedTime # 0
      BY <2>1, <2>3, <3>2, ExecutedStatus DEF Status
    <3>4. /\ prop'[q].proposedTime # 0 /\ prop'[q].executedTime # 0
          /\ prop'[q].completedTime = now + HighBit
      BY <3>2, <3>3 DEF ProposalValues
    <3>5. now + HighBit >= HighBit /\ now + HighBit # 0
      BY <1>0, HighBitRange, TimeAssumption
    <3>6. Status(q)' = "Cancelled"
      BY <3>4, <3>5 DEF Status, StatusOf
    <3>7. LifecycleStatus(q)' = "Cancelled"
      BY <1>0, <2>1, <3>1, <3>6 DEF Shows, Shown
    <3>8. QED
      BY <3>1, <3>7 DEF Moved, Lifecycle!Moves
  <2>4. QED
    BY <2>2, <2>3
<1>8. ASSUME NEW h \in isHost, NEW s \in {{}} \cup {{m} : m \in Members}, AbdicateHost(h, s)
      PROVE  Moved(q)
  BY <1>8, <1>0, <1>00 DEF AbdicateHost, envVars
<1>9. ASSUME NEW power \in Powers, NEW ms \in SUBSET Members, ChangePower(power, ms)
      PROVE  Moved(q)
  BY <1>9, <1>0, <1>00 DEF ChangePower, PowerMoves, govVars
<1>10. ASSUME NEW n \in 1 .. MaxTotal, IncreaseTotal(n)
       PROVE  Moved(q)
  BY <1>10, <1>0, <1>00 DEF IncreaseTotal, TotalGrows, govVars
<1>11. ASSUME NEW b \in DisableValues, SetDisabled(b)
       PROVE  Moved(q)
  BY <1>11, <1>0, <1>00 DEF SetDisabled, govVars
<1>12. ASSUME Tick
       PROVE  Moved(q)
  BY <1>12, <1>0, <1>00 DEF Tick, TimePasses, govVars
<1>13. CASE UNCHANGED vars
  BY <1>13, <1>0, <1>00 DEF vars
<1>14. QED
  BY <1>1, <1>2, <1>3, <1>4, <1>5, <1>6, <1>7, <1>8, <1>9, <1>10, <1>11, <1>12, <1>13
     DEF Next, HostStep, EngineStep, OtherStep

\* A party follows the life cycle of ProposalStatus: no proposal leaves a final status
\* and one at most holds the party, as long as nobody's power is the mark of a veto.
THEOREM PartyFollowsLifecycle == PowerBelowVeto => (Spec => FollowsLifecycle)
<1> SUFFICES ASSUME PowerBelowVeto PROVE Spec => FollowsLifecycle
  OBVIOUS
<1>1. Init => Lifecycle!Init
  <2> SUFFICES ASSUME Init, NEW p \in ProposalIds PROVE LifecycleStatus(p) = "Invalid"
    BY DEF Lifecycle!Init
  <2>1. Status(p) = "Invalid" /\ stack = <<>>
    BY DEF Init, Status, StatusOf, Unproposed
  <2>2. QED
    BY <2>1 DEF LifecycleStatus
<1>2. TypeOK /\ TypeOK' /\ EngineInv /\ EngineInv' /\ KnownPower /\ [Next]_vars
        => Lifecycle!Next
  <2> SUFFICES ASSUME TypeOK, TypeOK', EngineInv, EngineInv', KnownPower, [Next]_vars
      PROVE  Lifecycle!Next
    OBVIOUS
  <2>1. \A p \in ProposalIds : Moved(p)
    BY StepMoves
  <2>2. Shows'
    BY StatusesShowNext
  <2>3. QED
    BY <2>1, <2>2 DEF Shows, Moved, Lifecycle!Next, Lifecycle!OneHolder, Lifecycle!Holds
<1>3. QED
  BY <1>1, <1>2, TypeCorrect, EngineInvariant, PowerIsKnown, PTL
     DEF Spec, FollowsLifecycle, Lifecycle!Spec

----------------------------------------------------------------------------
(* Votes to veto                                                           *)

\* What the contract does to the party is what one of its hosts may do.
LEMMA VetoStepRefines == [VetoNext]_vetoVars => [Next]_vars
<1> SUFFICES ASSUME [VetoNext]_vetoVars PROVE [Next]_vars
  OBVIOUS
<1>1. CASE (\E h \in isHost \ {VetoHost} : HostStep(h)) \/ EngineStep \/ OtherStep
  BY <1>1 DEF Next
<1>2. ASSUME NEW m \in Members, NEW p \in ProposalIds, VoteToVeto(m, p)
      PROVE  [Next]_vars
  <2>1. Veto(VetoHost, p) \/ UNCHANGED vars
    BY <1>2 DEF VoteToVeto
  <2>2. Veto(VetoHost, p) => VetoHost \in isHost /\ HostStep(VetoHost)
    BY DEF Veto, HostStep
  <2>3. QED
    BY <2>1, <2>2 DEF Next
<1>3. CASE UNCHANGED vetoVars
  BY <1>3 DEF vetoVars, vars
<1>4. QED
  BY <1>1, <1>2, <1>3 DEF VetoNext

\* A party with the contract as host implements PartyProposals: voting to veto
\* is a step of a host, or none.
THEOREM VetoedPartyIsParty == VetoSpec => Spec
<1>1. VetoInit => Init
  BY DEF VetoInit
<1>2. QED
  BY <1>1, VetoStepRefines, PTL DEF VetoSpec, Spec

\* So nothing runs in such a party that was not approved, and nothing that the
\* contract vetoed.
THEOREM VetoedPartyApproves == VetoSpec => []ExecutionFollowsApproval
BY VetoedPartyIsParty, ApprovalComesFirst, PTL

\* What waits at the contract is what was cast against a proposal, until it is vetoed;
\* nothing was cast against a proposal that was not made.
BallotInv ==
  /\ vetoVotes \in [ProposalIds -> Nat]
  /\ ballots \in [ProposalIds -> [Members -> Nat]]
  /\ \A p \in ProposalIds :
       /\ prop[p].proposedTime = 0 => vetoVotes[p] = 0 /\ \A m \in Members : ballots[p][m] = 0
       /\ prop[p].proposedTime # 0 /\ prop[p].votes # VetoValue => vetoVotes[p] = Against(p)

\* The weights of the ballots are natural numbers.
LEMMA Weights ==
  ASSUME TypeOK, BallotInv, NEW p \in ProposalIds, prop[p].proposedTime # 0
  PROVE  /\ prop[p].proposedTime - 1 \in Times
         /\ \A m \in Members : /\ ballots[p][m] \in Nat
                               /\ hist[prop[p].proposedTime - 1][m] \in Nat
                               /\ ballots[p][m] * hist[prop[p].proposedTime - 1][m] \in Nat
<1>1. prop[p].proposedTime \in Times
  BY DEF TypeOK, ProposalValues
<1>2. prop[p].proposedTime - 1 \in Times
  BY <1>1, TimeAssumption DEF Times
<1>3. hist[prop[p].proposedTime - 1] \in [Members -> 0 .. Uint96Max]
  BY <1>2 DEF TypeOK
<1>4. ASSUME NEW m \in Members
      PROVE  ballots[p][m] \in Nat /\ hist[prop[p].proposedTime - 1][m] \in Nat
  BY <1>3, PowerAssumption DEF BallotInv
<1>5. \A b, w \in Nat : b * w \in Nat
  OBVIOUS
<1>6. QED
  BY <1>2, <1>4, <1>5

\* One more ballot weighs the power that is counted for its member.
LEMMA AgainstGrows ==
  ASSUME TypeOK, BallotInv, NEW p \in ProposalIds, NEW m \in Members,
         prop[p].proposedTime # 0, prop'[p].proposedTime = prop[p].proposedTime,
         ballots' = [ballots EXCEPT ![p][m] = @ + 1], UNCHANGED hist
  PROVE  /\ Against(p) \in Nat
         /\ Against(p)' = Against(p) + CountedPower(m, prop[p])
<1>1. PICK h : h = hist[prop[p].proposedTime - 1]
  OBVIOUS
<1> DEFINE f == [x \in Members |-> ballots[p][x] * h[x]]
           g == [x \in Members |-> ballots'[p][x] * h[x]]
<1>2. \A x \in Members : ballots[p][x] \in Nat /\ h[x] \in Nat /\ f[x] \in Nat
  BY <1>1, Weights
<1>3. \A x \in Members : ballots'[p][x] = IF x = m THEN ballots[p][x] + 1 ELSE ballots[p][x]
  BY DEF BallotInv
<1>4. \A x \in Members \ {m} : g[x] = f[x]
  BY <1>3
<1>5. g[m] = f[m] + h[m]
  <2>1. \A b, w \in Nat : (b + 1) * w = b * w + w
    OBVIOUS
  <2>2. g[m] = (ballots[p][m] + 1) * h[m] /\ f[m] = ballots[p][m] * h[m]
    BY <1>3
  <2>3. QED
    BY <1>2, <2>1, <2>2
<1>6. \A x \in Members : f[x] \in Int /\ g[x] \in Int
  <2>1. \A x \in Members : g[x] = f[x] \/ g[x] = f[x] + h[x]
    BY <1>4, <1>5
  <2> HIDE DEF f, g
  <2>2. QED
    BY <1>2, <2>1
<1>7. /\ SumFunctionOnSet(f, Members) \in Nat
      /\ SumFunctionOnSet(g, Members) = SumFunctionOnSet(f, Members) + h[m]
  <2> HIDE DEF f, g
  <2>1. SumFunctionOnSet(f, Members) \in Nat
    <3>1. \A x \in Members : f[x] \in Int /\ f[x] >= 0
      BY <1>2
    <3>2. QED
      BY <3>1, SumType, PowerAssumption
  <2>2. SumFunctionOnSet(g, Members) = SumFunctionOnSet(f, Members) + g[m] - f[m]
    <3>1. \A x \in Members \ {m} : f[x] = g[x]
      BY <1>4
    <3>2. QED
      BY <1>6, <3>1, SumChange, PowerAssumption
  <2>3. f[m] \in Nat /\ h[m] \in Nat
    BY <1>2
  <2>4. QED
    BY <1>5, <2>1, <2>2, <2>3
<1>8. Against(p) = SumFunctionOnSet(f, Members)
  BY <1>1 DEF Against, SumFunction
<1>9. Against(p)' = SumFunctionOnSet(g, Members)
  BY <1>1 DEF Against, SumFunction
<1>10. CountedPower(m, prop[p]) = h[m]
  BY <1>1 DEF CountedPower
<1>11. QED
  BY <1>7, <1>8, <1>9, <1>10

\* Steps keep the invariant that leave ballots and the past alone, and that change
\* a proposal that was made at most by vetoing it.
LEMMA BallotFrame ==
  ASSUME TypeOK, TypeOK', CountInv, BallotInv, UNCHANGED <<vetoVotes, ballots>>,
         \A t \in Times : t < now => hist'[t] = hist[t],
         \A p \in ProposalIds :
           \/ prop[p].proposedTime = 0
           \/ /\ prop'[p].proposedTime = prop[p].proposedTime
              /\ prop'[p].votes # VetoValue => prop[p].votes # VetoValue
  PROVE  BallotInv'
<1> SUFFICES ASSUME NEW p \in ProposalIds
             PROVE  /\ prop'[p].proposedTime = 0 =>
                         vetoVotes[p] = 0 /\ \A m \in Members : ballots[p][m] = 0
                    /\ prop'[p].proposedTime # 0 /\ prop'[p].votes # VetoValue =>
                         vetoVotes[p] = Against(p)'
  BY DEF BallotInv
<1>1. prop'[p].proposedTime = 0 => prop[p].proposedTime = 0
  OBVIOUS
<1>2. ASSUME prop'[p].proposedTime # 0, prop'[p].votes # VetoValue
      PROVE  vetoVotes[p] = Against(p)'
  <2> DEFINE g == [m \in Members |-> ballots[p][m] * hist'[prop'[p].proposedTime - 1][m]]
  <2>1. Against(p)' = SumFunctionOnSet(g, Members)
    BY DEF Against, SumFunction
  <2>2. CASE prop[p].proposedTime = 0
    <3>0. prop'[p].proposedTime \in Times
      BY DEF TypeOK, ProposalValues
    <3>1. prop'[p].proposedTime - 1 \in Times
      BY <1>2, <3>0, TimeAssumption DEF Times
    <3>2. hist'[prop'[p].proposedTime - 1] \in [Members -> 0 .. Uint96Max]
      BY <3>1 DEF TypeOK
    <3>3. \A m \in Members : g[m] = 0
      BY <2>2, <3>2, PowerAssumption DEF BallotInv
    <3> HIDE DEF g
    <3>4. SumFunctionOnSet(g, Members) = 0
      BY <3>3, SumOfZeros, PowerAssumption
    <3>5. QED
      BY <2>1, <2>2, <3>4 DEF BallotInv
  <2>3. CASE prop[p].proposedTime # 0
    <3>1. prop'[p].proposedTime = prop[p].proposedTime /\ prop[p].votes # VetoValue
      BY <1>2, <2>3
    <3>2. prop[p].proposedTime - 1 \in Times
      BY <2>3, Weights
    <3>3. prop[p].proposedTime <= now
      BY <2>3 DEF CountInv, VotesCounted
    <3>4. prop[p].proposedTime - 1 < now
      <4>1. {now, prop[p].proposedTime} \subseteq Nat
        BY TimeAssumption DEF TypeOK, ProposalValues, Times
      <4>2. QED
        BY <3>3, <4>1
    <3>5. hist'[prop'[p].proposedTime - 1] = hist[prop[p].proposedTime - 1]
      BY <3>1, <3>2, <3>4
    <3>6. Against(p)' = Against(p)
      BY <3>5 DEF Against
    <3>7. QED
      BY <2>3, <3>1, <3>6 DEF BallotInv
  <2>4. QED
    BY <2>2, <2>3
<1>3. QED
  BY <1>1, <1>2 DEF BallotInv

\* A step of a party leaves the past alone, and of a proposal that was made the time
\* and a veto.
LEMMA VetoesStay ==
  ASSUME TypeOK, TypeOK', EngineInv, CountInv, [Next]_vars
  PROVE  /\ \A t \in Times : t < now => hist'[t] = hist[t]
         /\ \A p \in ProposalIds :
              \/ prop[p].proposedTime = 0
              \/ /\ prop'[p].proposedTime = prop[p].proposedTime
                 /\ prop'[p].votes # VetoValue => prop[p].votes # VetoValue
<1> DEFINE Stays == /\ \A t \in Times : t < now => hist'[t] = hist[t]
                    /\ \A p \in ProposalIds :
                         \/ prop[p].proposedTime = 0
                         \/ /\ prop'[p].proposedTime = prop[p].proposedTime
                            /\ prop'[p].votes # VetoValue => prop[p].votes # VetoValue
<1>0. prop \in [ProposalIds -> ProposalValues]
  BY DEF TypeOK
<1>1. CASE Uncounted
  BY <1>1 DEF Uncounted
<1>2. ASSUME NEW m \in Members, NEW t \in MaxExecutableTimes, NEW c \in CancelDelays,
             Propose(m, t, c)
      PROVE  Stays
  <2>1. PICK p : p = lastProposalId + 1
    OBVIOUS
  <2>2. p \in ProposalIds /\ UNCHANGED hist /\ \A q \in ProposalIds \ {p} : prop'[q] = prop[q]
    BY <1>0, <1>2, <2>1 DEF Propose, envVars
  <2>3. prop[p].proposedTime = 0
    BY <2>1, <2>2 DEF EngineInv, FreshIds, Unproposed, TypeOK
  <2>4. QED
    BY <2>2, <2>3
<1>3. ASSUME NEW m \in Members, NEW p \in ProposalIds, Accept(m, p)
      PROVE  Stays
  <2>1. /\ UNCHANGED hist /\ AcceptGuard(m, prop[p])
        /\ \A q \in ProposalIds : prop'[q] = IF q = p THEN Accepted(m, prop[p]) ELSE prop[q]
    BY <1>0, <1>3 DEF Accept, envVars
  <2>2. prop[p] \in ProposalValues
    BY <1>0
  <2>3. Accepted(m, prop[p]).proposedTime = prop[p].proposedTime
    BY <2>2 DEF Accepted, ProposalValues
  <2>4. prop[p].votes # VetoValue
    <3>1. prop[p].executedTime = 0 /\ StatusOf(prop[p], now, total) \notin {"Defeated", "Invalid"}
      BY <2>1, <2>2, ExecutedStatus DEF AcceptGuard, OpenStatuses
    <3>2. QED
      BY <3>1 DEF StatusOf
  <2>5. QED
    BY <2>1, <2>3, <2>4
<1>4. ASSUME NEW power \in Powers, NEW ms \in SUBSET Members, ChangePower(power, ms)
      PROVE  Stays
  BY <1>4 DEF ChangePower, PowerMoves, govVars
<1>5. ASSUME NEW n \in 1 .. MaxTotal, IncreaseTotal(n)
      PROVE  Stays
  BY <1>5 DEF IncreaseTotal, TotalGrows, govVars
<1>6. CASE Tick
  BY <1>6 DEF Tick, TimePasses, govVars
<1>7. QED
  BY <1>1, <1>2, <1>3, <1>4, <1>5, <1>6, Uncounting DEF Next, OtherStep

\* The step in which a vote to veto is counted: the proposal was open to votes and
\* only a veto changes it; the count passes exactly when the share is reached.
LEMMA BallotCounted ==
  ASSUME TypeOK, BallotInv, NEW m \in Members, NEW p \in ProposalIds, VoteToVeto(m, p)
  PROVE  /\ ballots' = [ballots EXCEPT ![p][m] = @ + 1]
         /\ vetoVotes' = [vetoVotes EXCEPT ![p] = VotesLeft(Against(p)')]
         /\ VetoPasses(Against(p)') <=> ShareReached(Against(p))'
         /\ IF VetoPasses(Against(p)') THEN Veto(VetoHost, p) ELSE UNCHANGED vars
         /\ prop[p].proposedTime # 0 /\ prop[p].executedTime = 0 /\ prop[p].votes # VetoValue
         /\ prop'[p].proposedTime = prop[p].proposedTime
         /\ prop'[p].executedTime = 0
         /\ UNCHANGED <<now, total, hist>>
         /\ \A q \in ProposalIds \ {p} : prop'[q] = prop[q]
         /\ Against(p)' \in Nat
<1>0. prop \in [ProposalIds -> ProposalValues]
  BY DEF TypeOK
<1>1. Status(p) = "Voting" /\ total # 0
  BY DEF VoteToVeto
<1>2. prop[p].proposedTime # 0 /\ prop[p].executedTime = 0 /\ prop[p].votes # VetoValue
  <2>1. prop[p].executedTime = 0
    BY <1>0, <1>1, ExecutedStatus DEF Status, OpenStatuses
  <2>2. QED
    BY <1>1, <2>1 DEF Status, StatusOf
<1>3. Veto(VetoHost, p) \/ UNCHANGED vars
  BY DEF VoteToVeto
<1>4. /\ UNCHANGED <<now, total, hist>>
      /\ \A q \in ProposalIds \ {p} : prop'[q] = prop[q]
      /\ prop'[p].proposedTime = prop[p].proposedTime
      /\ prop'[p].executedTime = prop[p].executedTime
  BY <1>0, <1>3 DEF Veto, envVars, vars, ProposalValues
<1>5. ballots' = [ballots EXCEPT ![p][m] = @ + 1]
  BY DEF VoteToVeto
<1>6. /\ Against(p) \in Nat
      /\ Against(p)' = Against(p) + CountedPower(m, prop[p])
  BY <1>2, <1>4, <1>5, AgainstGrows
<1>7. vetoVotes[p] = Against(p)
  BY <1>2 DEF BallotInv
<1>8. CountedPower(m, prop[p]) \in Nat
  BY <1>2, Weights DEF CountedPower
<1>9. Against(p)' = vetoVotes[p] + CountedPower(m, prop[p]) /\ Against(p)' \in Nat
  BY <1>6, <1>7, <1>8
<1>10. /\ vetoVotes' = [vetoVotes EXCEPT ![p] = VotesLeft(Against(p)')]
       /\ IF VetoPasses(Against(p)') THEN Veto(VetoHost, p) ELSE UNCHANGED vars
  BY <1>9 DEF VoteToVeto
<1>11. VetoPasses(Against(p)') <=> ShareReached(Against(p))'
  <2>1. PICK votes : votes = Against(p)'
    OBVIOUS
  <2>2. votes * Bps \in Nat /\ total \in Nat \ {0} /\ PassThresholdBps \in Nat
    BY <1>1, <1>9, <2>1, PowerAssumption DEF Bps, TypeOK
  <2>3. (votes * Bps) \div total >= PassThresholdBps <=> votes * Bps >= PassThresholdBps * total
    BY <2>2, QuotientBound
  <2>4. ShareReached(Against(p))' <=> votes * Bps >= PassThresholdBps * total
    BY <1>4, <2>1 DEF ShareReached
  <2>5. VetoPasses(Against(p)') <=> (votes * Bps) \div total >= PassThresholdBps
    BY <2>1 DEF VetoPasses
  <2>6. QED
    BY <2>3, <2>4, <2>5
<1>12. QED
  BY <1>2, <1>4, <1>5, <1>9, <1>10, <1>11

\* The invariant of the ballots.
LEMMA BallotInvariant == VetoSpec => []BallotInv
<1>1. VetoInit => BallotInv
  BY DEF VetoInit, Init, Unproposed, BallotInv
<1>2. TypeOK /\ TypeOK' /\ EngineInv /\ CountInv /\ BallotInv /\ [VetoNext]_vetoVars => BallotInv'
  <2> SUFFICES ASSUME TypeOK, TypeOK', EngineInv, CountInv, BallotInv, [VetoNext]_vetoVars
               PROVE  BallotInv'
    OBVIOUS
  <2>1. CASE UNCHANGED <<vetoVotes, ballots>>
    BY <2>1, VetoStepRefines, VetoesStay, BallotFrame
  <2>2. ASSUME NEW m \in Members, NEW p \in ProposalIds, VoteToVeto(m, p)
        PROVE  BallotInv'
    <3>1. /\ vetoVotes' = [vetoVotes EXCEPT ![p] = VotesLeft(Against(p)')]
          /\ ballots' = [ballots EXCEPT ![p][m] = @ + 1]
          /\ IF VetoPasses(Against(p)') THEN Veto(VetoHost, p) ELSE UNCHANGED vars
          /\ prop[p].proposedTime # 0 /\ prop'[p].proposedTime = prop[p].proposedTime
          /\ UNCHANGED hist /\ \A q \in ProposalIds \ {p} : prop'[q] = prop[q]
          /\ Against(p)' \in Nat
      BY <2>2, BallotCounted
    <3>2. VotesLeft(Against(p)') \in Nat
      BY <3>1 DEF VotesLeft
    <3>3. vetoVotes' \in [ProposalIds -> Nat] /\ ballots' \in [ProposalIds -> [Members -> Nat]]
      <4>1. \A n \in Nat : n + 1 \in Nat
        OBVIOUS
      <4>2. QED
        BY <3>1, <3>2, <4>1 DEF BallotInv
    <3>4. prop'[p].votes # VetoValue => vetoVotes'[p] = Against(p)'
      <4>1. CASE VetoPasses(Against(p)')
        <5>1. prop'[p].votes = VetoValue
          BY <3>1, <4>1 DEF Veto, TypeOK, ProposalValues
        <5>2. QED
          BY <5>1
      <4>2. CASE ~VetoPasses(Against(p)')
        BY <3>1, <4>2 DEF VotesLeft, BallotInv
      <4>3. QED
        BY <4>1, <4>2
    <3>5. ASSUME NEW q \in ProposalIds \ {p}
          PROVE  /\ vetoVotes'[q] = vetoVotes[q] /\ ballots'[q] = ballots[q]
                 /\ prop'[q] = prop[q] /\ Against(q)' = Against(q)
      <4>1. vetoVotes'[q] = vetoVotes[q] /\ ballots'[q] = ballots[q] /\ prop'[q] = prop[q]
        BY <3>1 DEF BallotInv
      <4>2. QED
        BY <3>1, <4>1 DEF Against
    <3>6. ASSUME NEW q \in ProposalIds
          PROVE  /\ prop'[q].proposedTime = 0 =>
                      vetoVotes'[q] = 0 /\ \A x \in Members : ballots'[q][x] = 0
                 /\ prop'[q].proposedTime # 0 /\ prop'[q].votes # VetoValue =>
                      vetoVotes'[q] = Against(q)'
      BY <3>1, <3>4, <3>5 DEF BallotInv
    <3>7. QED
      BY <3>3, <3>6 DEF BallotInv
  <2>3. QED
    BY <2>1, <2>2 DEF VetoNext, vetoVars
<1>3. QED
  BY <1>1, <1>2, VetoedPartyIsParty, TypeCorrect, EngineInvariant, CountInvariant, PTL
     DEF VetoSpec

\* Votes to accept never add up to the mark of a veto if the party has less power
\* than it.
TotalBelowVeto == InitialTotal < VetoValue /\ MaxTotal < VetoValue

\* The total is one that the party started with or was raised to.
KnownTotal == total \in {InitialTotal} \cup 1 .. MaxTotal

\* No other total comes about.
LEMMA TotalIsKnown == Spec => []KnownTotal
<1>1. Init => KnownTotal
  BY DEF Init, KnownTotal
<1>2. /\ TypeOK /\ TypeOK' /\ EngineInv /\ CountInv
      /\ KnownTotal /\ [Next]_vars
      => KnownTotal'
  <2> SUFFICES ASSUME TypeOK, TypeOK', EngineInv, CountInv,
                      KnownTotal, [Next]_vars
               PROVE  KnownTotal'
    OBVIOUS
  <2>1. CASE UNCHANGED total
    BY <2>1 DEF KnownTotal
  <2>2. ASSUME NEW n \in 1 .. MaxTotal, IncreaseTotal(n)
        PROVE  KnownTotal'
    BY <2>2 DEF IncreaseTotal, TotalGrows, KnownTotal
  <2>3. ASSUME ~\E n \in 1 .. MaxTotal : IncreaseTotal(n)
        PROVE  UNCHANGED total
    BY <2>3, Uncounting
       DEF Next, OtherStep, Uncounted, Propose, Accept, ChangePower, PowerMoves, Tick, TimePasses,
           envVars
  <2>4. QED
    BY <2>1, <2>2, <2>3
<1>3. QED
  BY <1>1, <1>2, TypeCorrect, EngineInvariant, CountInvariant, PTL DEF Spec

\* A vote to accept vetoes nothing.
LEMMA AcceptedIsNoVeto ==
  ASSUME TypeOK, CountInv, total < VetoValue, NEW m, NEW p, NEW v, Votes(m, p, v)
  PROVE  Accepted(m, v).votes # VetoValue
<1>1. /\ m \in Members /\ v \in ProposalValues /\ AcceptGuard(m, v)
      /\ VotesCounted(v, hist, now, total)
  BY DEF Votes
<1>2. PICK w : w = Accepted(m, v)
  OBVIOUS
<1>3. w \in ProposalValues /\ w.proposedTime # 0
  BY <1>1, <1>2, AcceptedType
<1>4. w.votes = SumFunctionOnSet(hist[w.proposedTime - 1], w.voters) /\ total # 0
  <2>1. Accepted(m, v).votes
          = SumFunctionOnSet(hist[Accepted(m, v).proposedTime - 1], Accepted(m, v).voters)
    BY <1>1, VoteCounts
  <2>2. VotesCounted(Accepted(m, v), hist, now, total)
    BY <1>1, VoteCounts
  <2>3. QED
    BY <1>2, <1>3, <2>1, <2>2, Zenon DEF VotesCounted
<1>5. PICK h : h = hist[w.proposedTime - 1]
  OBVIOUS
<1>6. w.proposedTime - 1 \in Times
  BY <1>3, TimeAssumption DEF ProposalValues, Times
<1>7. h \in [Members -> 0 .. Uint96Max] /\ SumFunctionOnSet(h, Members) <= total
  BY <1>4, <1>5, <1>6 DEF TypeOK, CountInv, TotalCovers
<1>8. \A x \in Members : h[x] \in Nat
  BY <1>7, PowerAssumption
<1>9. SumFunctionOnSet(h, w.voters) <= SumFunctionOnSet(h, Members)
  <2>1. w.voters \in SUBSET Members
    BY <1>3 DEF ProposalValues
  <2>2. QED
    BY <1>8, <2>1, SumSubset, PowerAssumption
<1>10. SumFunctionOnSet(h, Members) \in Int
  <2>1. \A x \in Members : h[x] \in Int
    BY <1>8
  <2>2. QED
    BY <2>1, SumType, PowerAssumption
<1>11. w.votes = SumFunctionOnSet(h, w.voters)
  BY <1>4, <1>5, Zenon
<1>12. {w.votes, total, VetoValue} \subseteq Int
  BY <1>3, PowerAssumption DEF ProposalValues, TypeOK, VetoValue
<1>13. QED
  BY <1>2, <1>7, <1>9, <1>10, <1>11, <1>12

\* Only a host's veto makes a proposal vetoed.
LEMMA HostsVeto ==
  ASSUME TypeOK, TypeOK', EngineInv, CountInv, total < VetoValue,
         NEW p \in ProposalIds, prop[p].votes # VetoValue, prop'[p].votes = VetoValue
  PROVE  /\ \A h \in isHost : HostStep(h) => Veto(h, p)
         /\ ~EngineStep /\ ~OtherStep
<1>0. /\ prop \in [ProposalIds -> ProposalValues]
      /\ \A q \in ProposalIds : prop[q] \in ProposalValues
  BY DEF TypeOK
<1>1. prop'[p] # prop[p]
  OBVIOUS
<1>2. ASSUME NEW h \in isHost, HostStep(h)
      PROVE  Veto(h, p)
  BY <1>0, <1>1, <1>2 DEF HostStep, Veto, AbdicateHost
<1>3. ~EngineStep
  <2>1. ASSUME NEW m, NEW q \in ProposalIds, NEW d, ExecuteBegin(m, q, d)
        PROVE  FALSE
    <3>1. Begun(prop[q], Status(q)).votes = prop[q].votes
      BY <1>0 DEF Begun, ProposalValues
    <3>2. \A r \in ProposalIds : prop'[r].votes = prop[r].votes
      BY <1>0, <2>1, <3>1 DEF ExecuteBegin
    <3>3. QED
      BY <3>2
  <2>2. ~ReturnComplete
    BY <1>1 DEF ReturnComplete, govVars
  <2>3. ASSUME NEW d, ReturnPartial(d)
        PROVE  FALSE
    <3>1. PICK q : q = Last(stack)
      OBVIOUS
    <3>2. prop' = [prop EXCEPT ![q].completedTime = 0]
      BY <2>3, <3>1 DEF ReturnPartial
    <3>3. prop'[p].votes = prop[p].votes
      BY <1>0, <3>2 DEF ProposalValues
    <3>4. QED
      BY <3>3
  <2>4. QED
    BY <2>1, <2>2, <2>3 DEF EngineStep
<1>4. ASSUME NEW m, NEW q, NEW v, Votes(m, q, v)
      PROVE  FALSE
  <2>1. prop' = [prop EXCEPT ![q] = Accepted(m, v)]
    BY <1>4 DEF Votes
  <2>2. Accepted(m, v).votes # VetoValue
    BY <1>4, AcceptedIsNoVeto
  <2>3. prop'[p] \in {prop[p], Accepted(m, v)}
    BY <1>0, <2>1
  <2>4. QED
    BY <2>2, <2>3
<1>5. ~OtherStep
  <2>1. ASSUME NEW m \in Members, NEW t \in MaxExecutableTimes, NEW c \in CancelDelays,
               Propose(m, t, c)
        PROVE  FALSE
    BY <1>4, <2>1, VotingSteps
  <2>2. ASSUME NEW m \in Members, NEW q \in ProposalIds, Accept(m, q)
        PROVE  FALSE
    BY <1>4, <2>2, VotingSteps
  <2>3. ASSUME NEW m \in Members, NEW q \in ProposalIds, Cancel(m, q)
        PROVE  FALSE
    <3>1. prop'[p].votes = prop[p].votes
      BY <1>0, <2>3 DEF Cancel, ProposalValues
    <3>2. QED
      BY <3>1
  <2>4. QED
    BY <1>1, <2>1, <2>2, <2>3
       DEF OtherStep, ChangePower, IncreaseTotal, SetDisabled, Tick, govVars
<1>6. QED
  BY <1>2, <1>3, <1>5

\* Members veto together in the step that brings what was cast against a proposal to
\* the share that passes one, and not before; nothing else but another host vetoes.
\* Holds for parties with less than 2^96-1 votes in all, the mark of a veto.
THEOREM VetoComesWithShare == TotalBelowVeto => (VetoSpec => VetoAtShare)
<1> SUFFICES ASSUME TotalBelowVeto PROVE VetoSpec => VetoAtShare
  OBVIOUS
<1> DEFINE Step(p) ==
      /\ ballots'[p] # ballots[p] =>
           (Status(p)' = "Defeated" <=> ShareReached(Against(p))')
      /\ ballots'[p] = ballots[p] /\ prop[p].votes # VetoValue /\ prop'[p].votes = VetoValue =>
           \E h \in isHost \ {VetoHost} : Veto(h, p)
<1>1. /\ TypeOK /\ TypeOK' /\ EngineInv /\ CountInv /\ BallotInv
      /\ KnownTotal /\ [VetoNext]_vetoVars
      => [\A p \in ProposalIds : Step(p)]_vetoVars
  <2> SUFFICES ASSUME TypeOK, TypeOK', EngineInv, CountInv, BallotInv,
                      KnownTotal, VetoNext, NEW p \in ProposalIds
               PROVE  Step(p)
    BY Zenon
  <2>0. total < VetoValue
    <3>1. {InitialTotal, MaxTotal, VetoValue} \subseteq Nat
      BY PowerAssumption DEF VetoValue
    <3>2. QED
      BY <3>1 DEF TotalBelowVeto, KnownTotal
  <2>1. CASE /\ (\E h \in isHost \ {VetoHost} : HostStep(h)) \/ EngineStep \/ OtherStep
             /\ UNCHANGED <<vetoVotes, ballots>>
    BY <2>0, <2>1, HostsVeto
  <2>2. ASSUME NEW m \in Members, NEW q \in ProposalIds, VoteToVeto(m, q)
        PROVE  Step(p)
    <3>1. CASE q = p
      <4>1. ballots'[p] # ballots[p]
        <5>1. ballots'[p][m] = ballots[p][m] + 1 /\ ballots[p][m] \in Nat
          BY <2>2, <3>1, BallotCounted DEF BallotInv
        <5>2. QED
          BY <5>1
      <4>2. /\ VetoPasses(Against(p)') <=> ShareReached(Against(p))'
            /\ IF VetoPasses(Against(p)') THEN Veto(VetoHost, p) ELSE UNCHANGED vars
            /\ prop'[p].proposedTime # 0 /\ prop'[p].executedTime = 0
        BY <2>2, <3>1, BallotCounted
      <4>3. CASE VetoPasses(Against(p)')
        <5>1. prop'[p].votes = VetoValue
          BY <4>2, <4>3 DEF Veto, TypeOK, ProposalValues
        <5>2. Status(p)' = "Defeated"
          BY <4>2, <5>1 DEF Status, StatusOf
        <5>3. QED
          BY <4>1, <4>2, <4>3, <5>2
      <4>4. CASE ~VetoPasses(Against(p)')
        <5>1. UNCHANGED vars /\ Status(p) = "Voting"
          BY <2>2, <3>1, <4>2, <4>4 DEF VoteToVeto
        <5>2. Status(p)' = "Voting"
          BY <5>1 DEF Status, vars
        <5>3. QED
          BY <4>1, <4>2, <4>4, <5>2
      <4>5. QED
        BY <4>3, <4>4
    <3>2. CASE q # p
      BY <2>2, <3>2, BallotCounted DEF BallotInv
    <3>3. QED
      BY <3>1, <3>2
  <2>3. QED
    BY <2>1, <2>2 DEF VetoNext
<1>2. QED
  BY <1>1, VetoedPartyIsParty, TypeCorrect, EngineInvariant, CountInvariant, BallotInvariant,
     TotalIsKnown, PTL DEF VetoSpec, VetoAtShare

----------------------------------------------------------------------------
(* A listing party is a party                                              *)

\* A step that returns is one of the engine.
LEMMA ReturnRefines == TypeOK /\ Return => EngineStep
<1> SUFFICES ASSUME TypeOK, Return PROVE EngineStep
  OBVIOUS
<1>0. now \in Times /\ (stack # <<>> => Running \in ProposalIds)
  BY DEF TypeOK, Running, Last
<1>1. CASE StartAuction
  <2>1. Timeout(Running) \in {ZoraTimeout, SafetyTimeout}
    BY DEF Timeout
  <2>2. QED
    BY <1>0, <1>1, <2>1, ProgressAssumption DEF StartAuction, EngineStep
<1>2. CASE StartOrder
  BY <1>0, <1>2, ProgressAssumption DEF StartOrder, OrderExpiry, EngineStep
<1>3. CASE FinishAuction \/ FinishOrder
  BY <1>3 DEF FinishAuction, FinishOrder, EngineStep
<1>4. CASE OtherReturn
  BY <1>4, ProgressAssumption DEF OtherReturn, EngineStep
<1>5. QED
  BY <1>1, <1>2, <1>3, <1>4 DEF Return

\* A step of the listings is one of the party, or none.
LEMMA ListingStepRefines == TypeOK /\ [ListingNext]_listingVars => [Next]_vars
<1> SUFFICES ASSUME TypeOK, [ListingNext]_listingVars PROVE [Next]_vars
  OBVIOUS
<1>1. CASE (\E h \in isHost : HostStep(h)) \/ OtherStep
  BY <1>1 DEF Next
<1>2. CASE \E m \in Members, p \in ProposalIds, d \in Progress \cup {NoData} : Begin(m, p, d)
  BY <1>2 DEF Begin, EngineStep, Next
<1>3. CASE Return
  BY <1>3, ReturnRefines DEF Next
<1>4. CASE Bid \/ EndAuction \/ \E p \in ProposalIds : Fill(p)
  BY <1>4 DEF Bid, EndAuction, Fill, Market
<1>5. CASE UNCHANGED listingVars
  BY <1>5 DEF listingVars, vars
<1>6. QED
  BY <1>1, <1>2, <1>3, <1>4, <1>5 DEF ListingNext

\* The types of the party, which say that progress data is what a step may return.
LEMMA ListingTypes == ListingSpec => []TypeOK
<1>1. ListingInit => TypeOK
  BY InitType DEF ListingInit
<1>2. TypeOK /\ [ListingNext]_listingVars => TypeOK'
  BY ListingStepRefines, NextType
<1>3. QED
  BY <1>1, <1>2, PTL DEF ListingSpec

\* Every step of a listing, of a market or of others is a step of the party, or none:
\* what is proved of every party holds of one that lists its NFTs.
THEOREM ListingPartyIsParty == ListingSpec => Spec
<1>1. ListingInit => Init
  BY DEF ListingInit
<1>2. QED
  BY <1>1, ListingStepRefines, ListingTypes, PTL DEF ListingSpec, Spec

----------------------------------------------------------------------------
(* What a listing in progress finds                                        *)

\* The progress data of the proposal in progress, before and during its step.
Pending == IF stack = <<>> THEN engine.next ELSE call.data

MarketInv ==
  /\ orders = [p \in ProposalIds |-> orders[p]]
  /\ nft \in {"party", "zora", "sold"}
  /\ auction \in [by : ProposalIds \cup {0}, bid : Times]
  /\ nft = "zora" <=> auction.by # 0
  /\ auction.by = 0 => auction.bid = 0
  /\ filled # {} => nft = "sold"

\* While a listing waits for its auction there is no other, no order can be
\* filled, and the safety auction stays open for its whole time.
AuctionInv ==
  LET p == engine.current
  IN  p # 0 /\ kind[p] # "Other" /\ OnZora([data |-> Pending]) =>
        /\ ~approved
        /\ auction.by \in {0, p}
        /\ Pending.expiry \in Nat
        /\ kind[p] = "OpenSea" => prop[p].executedTime + SafetyTimeout <= Pending.expiry

\* A step is told of unanimity only if there was.
CallInv ==
  stack # <<>> /\ call.unanimous => prop[stack[1]].votes * Bps >= UnanimousBps * InitialTotal

ListingInv == MarketInv /\ AuctionInv /\ CallInv

PartyInv == TypeOK /\ EngineInv /\ ApprovalInv

\* The party's own invariants hold of a party that lists.
LEMMA PartyInvariant == ListingSpec => []PartyInv
BY ListingPartyIsParty, TypeCorrect, EngineInvariant, ApprovalInvariant, PTL DEF PartyInv

\* The proposal that the engine waits for or runs has been executed before.
LEMMA CurrentExecuted ==
  ASSUME PartyInv, engine.current # 0
  PROVE  LET p == engine.current
         IN  /\ p \in ProposalIds
             /\ Status(p) \in {"InProgress", "Complete"}
             /\ prop[p].proposedTime # 0 /\ prop[p].executedTime # 0 /\ p <= lastProposalId
<1>1. engine.current \in ProposalIds
  BY DEF PartyInv, TypeOK, ProposalIds
<1>2. Status(engine.current) \in {"InProgress", "Complete"}
  <2>1. CASE stack = <<>>
    BY <1>1, <2>1 DEF PartyInv, EngineInv, EngineAgrees
  <2>2. CASE stack # <<>>
    BY <2>2, OneExecution DEF PartyInv
  <2>3. QED
    BY <2>1, <2>2
<1>3. prop[engine.current].proposedTime # 0 /\ prop[engine.current].executedTime # 0
  BY <1>1, <1>2, ExecutedStatus DEF PartyInv, TypeOK, Status
<1>4. QED
  BY <1>1, <1>2, <1>3, UsedIds DEF PartyInv

\* What members and hosts do while a proposal is in progress does not change it,
\* unless they cancel it.
LEMMA MembersAside ==
  ASSUME PartyInv, (\E h \in isHost : HostStep(h)) \/ OtherStep
  PROVE  /\ UNCHANGED stack
         /\ \/ UNCHANGED engine /\ (engine.current # 0 => prop'[engine.current] = prop[engine.current])
            \/ engine' = IdleEngine /\ stack = <<>>
<1> DEFINE c == engine.current
           Goal == /\ UNCHANGED stack
                   /\ \/ UNCHANGED engine /\ (c # 0 => prop'[c] = prop[c])
                      \/ engine' = IdleEngine /\ stack = <<>>
<1>0. /\ prop \in [ProposalIds -> ProposalValues]
      /\ c # 0 => /\ c \in ProposalIds /\ prop[c] \in ProposalValues
                  /\ Status(c) \notin OpenStatuses /\ c <= lastProposalId
  <2>1. c # 0 => c \in ProposalIds /\ prop[c].executedTime # 0 /\ c <= lastProposalId
    BY CurrentExecuted
  <2>2. QED
    BY <2>1, ExecutedStatus DEF PartyInv, TypeOK, Status
<1>1. ASSUME NEW p \in ProposalIds, p # c, NEW v, prop' = [prop EXCEPT ![p] = v],
             UNCHANGED <<engine, stack>>
      PROVE  Goal
  BY <1>0, <1>1
<1>2. ASSUME NEW h \in isHost, NEW p \in ProposalIds, Veto(h, p)
      PROVE  Goal
  <2>1. p # c
    BY <1>0, <1>2 DEF Veto, Vetoable, ProposalIds
  <2>2. QED
    BY <1>1, <1>2, <2>1 DEF Veto
<1>3. ASSUME NEW m \in Members, NEW t \in MaxExecutableTimes, NEW d \in CancelDelays,
             Propose(m, t, d)
      PROVE  Goal
  <2>1. lastProposalId + 1 # c
    BY <1>0 DEF PartyInv, TypeOK, ProposalIds
  <2>2. QED
    BY <1>1, <1>3, <2>1 DEF Propose
<1>4. ASSUME NEW m \in Members, NEW p \in ProposalIds, Accept(m, p)
      PROVE  Goal
  <2>1. p # c
    BY <1>0, <1>4 DEF Accept, AcceptGuard, Status, ProposalIds
  <2>2. QED
    BY <1>1, <1>4, <2>1 DEF Accept
<1>5. ASSUME NEW m \in Members, NEW p \in ProposalIds, Cancel(m, p)
      PROVE  Goal
  <2>1. stack = <<>>
    BY <1>5 DEF Cancel, PartyInv, EngineInv, EngineAgrees
  <2>2. QED
    BY <1>5, <2>1 DEF Cancel, EngineCancelled
<1>6. CASE UNCHANGED <<prop, engine, stack>>
  BY <1>6
<1>7. QED
  BY <1>2, <1>3, <1>4, <1>5, <1>6
     DEF HostStep, OtherStep, AbdicateHost, ChangePower, PowerMoves, IncreaseTotal, TotalGrows,
         SetDisabled, Tick, TimePasses, govVars, envVars

\* A step that leaves market, call and the proposal in progress alone.
LEMMA ListingAside ==
  ASSUME PartyInv, ListingInv,
         UNCHANGED <<stack, kind, call>>, UNCHANGED marketVars,
         \/ UNCHANGED engine /\ (engine.current # 0 => prop'[engine.current] = prop[engine.current])
         \/ engine' = IdleEngine /\ stack = <<>>
  PROVE  ListingInv'
<1>1. MarketInv'
  BY DEF ListingInv, MarketInv, marketVars
<1>2. CASE UNCHANGED engine /\ (engine.current # 0 => prop'[engine.current] = prop[engine.current])
  <2>1. AuctionInv'
    BY <1>2 DEF ListingInv, AuctionInv, Pending, OnZora, marketVars
  <2>2. CallInv'
    <3>1. stack # <<>> => stack[1] = engine.current /\ engine.current # 0
      BY OneExecution DEF PartyInv, ProposalIds
    <3>2. QED
      BY <1>2, <3>1 DEF ListingInv, CallInv
  <2>3. QED
    BY <1>1, <2>1, <2>2 DEF ListingInv
<1>3. CASE engine' = IdleEngine /\ stack = <<>>
  BY <1>1, <1>3 DEF ListingInv, AuctionInv, CallInv, IdleEngine
<1>4. QED
  BY <1>2, <1>3

\* The running step: which proposal it is of, and what of it stays as it is.
LEMMA RunningStep ==
  ASSUME PartyInv, stack # <<>>
  PROVE  /\ Running \in ProposalIds /\ Running # 0
         /\ stack[1] = Running /\ engine.current = Running
         /\ Pending = call.data
         /\ \A d : ReturnPartial(d) =>
              /\ stack' = <<>> /\ engine'.current = Running /\ engine'.next = d
              /\ prop'[Running].executedTime = prop[Running].executedTime
              /\ prop'[Running].completedTime = 0
              /\ UNCHANGED now
         /\ ReturnComplete => stack' = <<>> /\ engine' = IdleEngine /\ UNCHANGED <<now, prop>>
<1>1. /\ Running \in ProposalIds /\ Running # 0 /\ stack[1] = Running
      /\ engine.current = Running /\ Front(stack) = <<>>
  BY OneExecution DEF PartyInv, Running, ProposalIds
<1>2. Pending = call.data
  BY DEF Pending
<1>3. ASSUME NEW d, ReturnPartial(d)
      PROVE  /\ stack' = <<>> /\ engine'.current = Running /\ engine'.next = d
             /\ prop'[Running].executedTime = prop[Running].executedTime
             /\ prop'[Running].completedTime = 0
             /\ UNCHANGED now
  <2>1. prop \in [ProposalIds -> ProposalValues] /\ prop[Running] \in ProposalValues
    BY <1>1 DEF PartyInv, TypeOK
  <2>2. prop'[Running] = [prop[Running] EXCEPT !.completedTime = 0]
    BY <1>1, <1>3, <2>1 DEF ReturnPartial, Running
  <2>3. /\ prop'[Running].executedTime = prop[Running].executedTime
        /\ prop'[Running].completedTime = 0
    BY <2>1, <2>2 DEF ProposalValues
  <2>4. engine' = [engine EXCEPT !.next = d] /\ stack' = <<>> /\ UNCHANGED now
    BY <1>1, <1>3 DEF ReturnPartial, envVars
  <2>5. engine \in [current : 0 .. MaxProposals, next : Progress \cup {NoData, GuardHash}]
    BY DEF PartyInv, TypeOK
  <2>6. engine'.current = engine.current /\ engine'.next = d
    BY <2>4, <2>5
  <2>7. QED
    BY <1>1, <2>3, <2>4, <2>6
<1>4. ReturnComplete => stack' = <<>> /\ engine' = IdleEngine /\ UNCHANGED <<now, prop>>
  BY <1>1 DEF ReturnComplete, govVars, envVars
<1>5. QED
  BY <1>1, <1>2, <1>3, <1>4

\* A step begins with the progress data that the engine kept for it.
LEMMA BeginStep ==
  ASSUME PartyInv, PartyInv', ListingInv,
         NEW m \in Members, NEW p \in ProposalIds, NEW d \in Progress \cup {NoData}, Begin(m, p, d)
  PROVE  ListingInv'
<1>1. /\ ExecuteBegin(m, p, d) /\ call' = [data |-> d, unanimous |-> UnanimousFlag(p)]
      /\ UNCHANGED kind /\ UNCHANGED marketVars
  BY DEF Begin
<1>2. stack = <<>>
  BY <1>1 DEF ExecuteBegin, EngineAdmits, PartyInv, EngineInv, EngineAgrees
<1>3. /\ stack' = <<p>> /\ stack' # <<>> /\ stack'[1] = p /\ p # 0
      /\ engine'.current = p /\ engine.next = d
      /\ Status(p) \in {"Ready", "InProgress"}
  BY <1>1, <1>2 DEF ExecuteBegin, EngineAdmits, Executable, ProposalIds
<1>4. Pending' = d /\ Pending = d
  BY <1>1, <1>2, <1>3 DEF Pending
<1>5. prop[p] \in ProposalValues /\ prop'[p] = Begun(prop[p], Status(p))
  BY <1>1 DEF ExecuteBegin, PartyInv, TypeOK
<1>6. /\ prop'[p].votes = prop[p].votes
      /\ Status(p) = "InProgress" => prop'[p].executedTime = prop[p].executedTime
  BY <1>5 DEF Begun, ProposalValues
<1>7. MarketInv'
  BY <1>1 DEF ListingInv, MarketInv, marketVars
<1>8. AuctionInv'
  <2>1. CASE engine.current = 0
    <3>1. d = NoData
      BY <1>2, <1>3, <2>1 DEF PartyInv, EngineInv, EngineAgrees
    <3>2. d.step # "ListedOnZora"
      BY <3>1, ProgressAssumption
    <3>3. QED
      BY <1>4, <3>2 DEF AuctionInv, OnZora
  <2>2. CASE engine.current # 0
    <3>1. engine.current = p
      BY <1>1, <2>2 DEF ExecuteBegin, EngineAdmits
    <3>2. Status(p) = "InProgress"
      BY <1>2, <3>1 DEF PartyInv, EngineInv, EngineAgrees
    <3>3. prop'[p].executedTime = prop[p].executedTime
      BY <1>6, <3>2
    <3>4. AuctionInv
      BY DEF ListingInv
    <3>5. QED
      BY <1>1, <1>3, <1>4, <3>1, <3>3, <3>4 DEF AuctionInv, OnZora, marketVars
  <2>3. QED
    BY <2>1, <2>2
<1>9. CallInv'
  <2> SUFFICES ASSUME UnanimousFlag(p)
               PROVE  prop[p].votes * Bps >= UnanimousBps * InitialTotal
    BY <1>1, <1>3, <1>6 DEF CallInv
  <2>1. ExecutionApproved(prop[p]) /\ TimesPast(prop[p], now, total)
    BY DEF PartyInv, ApprovalInv
  <2>2. prop[p].passedTime # 0
    <3>1. CASE Status(p) = "Ready"
      BY <3>1 DEF Status, StatusOf
    <3>2. CASE Status(p) = "InProgress"
      <4>1. prop[p].executedTime # 0
        BY <1>5, <3>2, ExecutedStatus DEF Status
      <4>2. QED
        BY <2>1, <4>1 DEF ExecutionApproved
    <3>3. QED
      BY <1>3, <3>1, <3>2
  <2>3. total \in Nat \ {0} /\ InitialTotal \in Nat /\ InitialTotal <= total
    BY <2>1, <2>2, PowerAssumption DEF TimesPast, PartyInv, TypeOK, ApprovalInv
  <2>4. prop[p].votes \in Nat
    BY <1>5, PowerAssumption DEF ProposalValues
  <2>5. prop[p].votes * Bps >= UnanimousBps * total
    <3>1. prop[p].votes * Bps \in Nat /\ UnanimousBps \in Nat
      BY <2>4 DEF Bps, UnanimousBps
    <3>2. (prop[p].votes * Bps) \div total >= UnanimousBps
      BY DEF UnanimousFlag, IsUnanimous
    <3>3. QED
      BY <2>3, <3>1, <3>2, QuotientBound
  <2>6. QED
    BY <2>3, <2>4, <2>5 DEF Bps, UnanimousBps
<1>10. QED
  BY <1>7, <1>8, <1>9 DEF ListingInv

\* A step that returns leaves what the invariant says of the next one.
LEMMA ReturnStep ==
  ASSUME PartyInv, PartyInv', ListingInv, Return
  PROVE  ListingInv'
<1> DEFINE p == Running
<1>0. stack # <<>> /\ UNCHANGED kind
  BY DEF Return, StartAuction, StartOrder, FinishAuction, FinishOrder, OtherReturn, Returned
<1>1. /\ p \in ProposalIds /\ p # 0 /\ stack[1] = p /\ engine.current = p /\ Pending = call.data
      /\ \A d : ReturnPartial(d) =>
           /\ stack' = <<>> /\ engine'.current = p /\ engine'.next = d
           /\ prop'[p].executedTime = prop[p].executedTime /\ UNCHANGED now
      /\ ReturnComplete => stack' = <<>> /\ engine' = IdleEngine
  BY <1>0, RunningStep
<1>2. MarketInv
  BY DEF ListingInv
<1>3. ReturnComplete => AuctionInv' /\ CallInv'
  BY <1>1 DEF AuctionInv, CallInv, IdleEngine
<1>4. \A d : ReturnPartial(d) => stack' = <<>> /\ Pending' = d /\ engine'.current = p
  BY <1>1 DEF Pending
<1>5. now \in Nat /\ now \in Times
  BY TimeAssumption DEF PartyInv, TypeOK, Times
<1>6. CASE StartAuction
  <2> DEFINE d == [step |-> "ListedOnZora", expiry |-> now + Timeout(p)]
  <2>1. /\ ReturnPartial(d) /\ nft' = "zora" /\ auction' = [by |-> p, bid |-> 0]
        /\ approved' = FALSE /\ UNCHANGED <<orders, filled>> /\ nft = "party"
    BY <1>6 DEF StartAuction, StartsAuction
  <2>2. MarketInv'
    <3>1. 0 \in Times
      BY TimeAssumption DEF Times
    <3>2. filled' = {} /\ filled = {}
      BY <1>2, <2>1 DEF MarketInv
    <3>3. QED
      BY <1>1, <1>2, <2>1, <3>1, <3>2 DEF MarketInv
  <2>3. prop[p].executedTime \in Nat /\ prop[p].executedTime <= now
    <3>1. TimesPast(prop[p], now, total) /\ prop[p] \in ProposalValues
      BY <1>1 DEF PartyInv, ApprovalInv, TypeOK
    <3>2. QED
      BY <3>1, TimeAssumption DEF TimesPast, ProposalValues, Times
  <2>4. /\ Timeout(p) \in Nat /\ SafetyTimeout \in Nat
        /\ kind[p] = "OpenSea" => Timeout(p) = SafetyTimeout
    BY ListingAssumption DEF Timeout
  <2>5. Pending'.expiry = now + Timeout(p)
    BY <1>4, <2>1
  <2>6. Pending'.expiry \in Nat
    BY <1>5, <2>4, <2>5
  <2>7. kind[p] = "OpenSea" => prop'[p].executedTime + SafetyTimeout <= Pending'.expiry
    BY <1>1, <1>5, <2>1, <2>3, <2>4, <2>5
  <2>8. AuctionInv'
    BY <1>0, <1>4, <2>1, <2>6, <2>7 DEF AuctionInv
  <2>9. CallInv'
    BY <1>4, <2>1 DEF CallInv
  <2>10. QED
    BY <2>2, <2>8, <2>9 DEF ListingInv
<1>7. CASE StartOrder
  <2>1. /\ ReturnPartial([step |-> "ListedOnOpenSea", expiry |-> OrderExpiry(p)])
        /\ nft' = "party" /\ auction' = NoAuction /\ UNCHANGED filled
        /\ orders' = [orders EXCEPT ![p] = OrderExpiry(p)]
        /\ nft = "party" \/ auction.by = p
    BY <1>7 DEF StartOrder, StartsOrder, Relists, Expired
  <2>2. filled = {}
    BY <1>1, <1>2, <2>1 DEF MarketInv
  <2>3. 0 \in Times
    BY TimeAssumption DEF Times
  <2>4. orders' = [q \in ProposalIds |-> orders'[q]]
    BY <1>2, <2>1 DEF MarketInv
  <2>5. MarketInv'
    BY <2>1, <2>2, <2>3, <2>4 DEF MarketInv, NoAuction
  <2>6. Pending'.step = "ListedOnOpenSea" /\ stack' = <<>>
    BY <1>4, <2>1
  <2>7. AuctionInv' /\ CallInv'
    BY <2>6 DEF AuctionInv, CallInv, OnZora
  <2>8. QED
    BY <2>5, <2>7 DEF ListingInv
<1>8. CASE FinishAuction
  <2>1. ReturnComplete /\ UNCHANGED <<orders, filled>>
    BY <1>8 DEF FinishAuction
  <2>2. \/ UNCHANGED <<nft, auction>>
        \/ /\ nft' \in {"sold", "party"} /\ auction' = NoAuction
           /\ nft = "zora"
    <3>1. AuctionOver => auction.by # 0
      BY <1>2 DEF AuctionOver, MarketInv
    <3>2. Expired(p, call) => auction.by # 0
      BY <1>1 DEF Expired
    <3>3. QED
      BY <1>2, <1>8, <3>1, <3>2 DEF FinishAuction, Won, MarketInv
  <2>3. 0 \in Times
    BY TimeAssumption DEF Times
  <2>4. MarketInv'
    BY <1>2, <2>1, <2>2, <2>3 DEF MarketInv, NoAuction
  <2>5. QED
    BY <1>3, <2>1, <2>4 DEF ListingInv
<1>9. CASE FinishOrder
  <2>1. ReturnComplete /\ UNCHANGED <<nft, auction, orders, filled>>
    BY <1>9 DEF FinishOrder
  <2>2. MarketInv'
    BY <1>2, <2>1 DEF MarketInv
  <2>3. QED
    BY <1>3, <2>1, <2>2 DEF ListingInv
<1>10. CASE OtherReturn
  <2>1. /\ ReturnComplete \/ ReturnPartial(OtherData)
        /\ UNCHANGED marketVars /\ kind[p] = "Other"
    BY <1>10 DEF OtherReturn
  <2>2. MarketInv'
    BY <1>2, <2>1 DEF MarketInv, marketVars
  <2>3. ReturnPartial(OtherData) => AuctionInv' /\ CallInv'
    BY <1>0, <1>4, <2>1 DEF AuctionInv, CallInv
  <2>4. QED
    BY <1>3, <2>1, <2>2, <2>3 DEF ListingInv
<1>11. QED
  BY <1>6, <1>7, <1>8, <1>9, <1>10 DEF Return

\* Bidders and buyers keep it.
LEMMA MarketStep ==
  ASSUME PartyInv, ListingInv, Bid \/ EndAuction \/ \E p \in ProposalIds : Fill(p)
  PROVE  ListingInv'
<1>1. UNCHANGED <<now, prop, engine, stack, kind, call>> /\ UNCHANGED orders
  BY DEF Bid, EndAuction, Fill, Market, vars
<1>2. Pending' = Pending /\ (CallInv => CallInv')
  BY <1>1 DEF Pending, CallInv
<1>3. now \in Times /\ 0 \in Times
  BY TimeAssumption DEF PartyInv, TypeOK, Times
<1>4. CASE Bid
  <2>1. /\ auction' = [auction EXCEPT !.bid = now] /\ UNCHANGED <<nft, filled, approved>>
        /\ auction.by # 0 /\ auction \in [by : ProposalIds \cup {0}, bid : Times]
    BY <1>4 DEF Bid, ListingInv, MarketInv
  <2>2. auction'.by = auction.by /\ auction' \in [by : ProposalIds \cup {0}, bid : Times]
    BY <1>3, <2>1
  <2>3. MarketInv'
    BY <1>1, <2>1, <2>2 DEF ListingInv, MarketInv
  <2>4. AuctionInv'
    BY <1>1, <1>2, <2>1, <2>2 DEF ListingInv, AuctionInv, OnZora
  <2>5. QED
    BY <1>2, <2>3, <2>4 DEF ListingInv
<1>5. CASE EndAuction
  <2>1. /\ nft' \in {"sold", "party"} /\ auction' = NoAuction /\ UNCHANGED <<filled, approved>>
        /\ auction.bid # 0
    BY <1>5 DEF EndAuction, AuctionOver
  <2>2. nft = "zora" /\ filled = {}
    BY <2>1 DEF ListingInv, MarketInv
  <2>3. MarketInv'
    BY <1>1, <1>3, <2>1, <2>2 DEF ListingInv, MarketInv, NoAuction
  <2>4. AuctionInv'
    BY <1>1, <1>2, <2>1 DEF ListingInv, AuctionInv, OnZora, NoAuction
  <2>5. QED
    BY <1>2, <2>3, <2>4 DEF ListingInv
<1>6. ASSUME NEW p \in ProposalIds, Fill(p)
      PROVE  ListingInv'
  <2>1. nft = "party" /\ nft' = "sold" /\ approved' = FALSE /\ UNCHANGED auction
    BY <1>6 DEF Fill, Fillable
  <2>2. MarketInv'
    BY <1>1, <2>1 DEF ListingInv, MarketInv
  <2>3. AuctionInv'
    BY <1>1, <1>2, <2>1 DEF ListingInv, AuctionInv, OnZora
  <2>4. QED
    BY <1>2, <2>2, <2>3 DEF ListingInv
<1>7. QED
  BY <1>4, <1>5, <1>6

\* The invariant of the listings and of the markets.
LEMMA ListingInvariant == ListingSpec => []ListingInv
<1>1. ListingInit => ListingInv
  <2> SUFFICES ASSUME ListingInit PROVE ListingInv
    OBVIOUS
  <2>1. engine = IdleEngine /\ stack = <<>>
    BY DEF ListingInit, Init
  <2>2. AuctionInv /\ CallInv
    BY <2>1 DEF AuctionInv, CallInv, IdleEngine
  <2>3. 0 \in Times
    BY TimeAssumption DEF Times
  <2>4. MarketInv
    BY <2>3 DEF ListingInit, MarketInv, NoAuction
  <2>5. QED
    BY <2>2, <2>4 DEF ListingInv
<1>2. PartyInv /\ PartyInv' /\ ListingInv /\ [ListingNext]_listingVars => ListingInv'
  <2> SUFFICES ASSUME PartyInv, PartyInv', ListingInv, [ListingNext]_listingVars
               PROVE  ListingInv'
    OBVIOUS
  <2>1. CASE /\ (\E h \in isHost : HostStep(h)) \/ OtherStep
             /\ UNCHANGED <<kind, isPrecious, call>>
             /\ UNCHANGED marketVars
    BY <2>1, MembersAside, ListingAside
  <2>2. CASE \E m \in Members, p \in ProposalIds, d \in Progress \cup {NoData} : Begin(m, p, d)
    BY <2>2, BeginStep
  <2>3. CASE Return
    BY <2>3, ReturnStep
  <2>4. CASE Bid \/ EndAuction \/ \E p \in ProposalIds : Fill(p)
    BY <2>4, MarketStep
  <2>5. CASE UNCHANGED listingVars
    BY <2>5, ListingAside DEF listingVars, marketVars
  <2>6. QED
    BY <2>1, <2>2, <2>3, <2>4, <2>5 DEF ListingNext
<1>3. QED
  BY <1>1, <1>2, PartyInvariant, PTL DEF ListingSpec

----------------------------------------------------------------------------
(* What listings promise                                                   *)

\* Unless the safety auction is switched off, a precious NFT is listed on OpenSea only
\* with unanimity or after an auction that nobody bid on for all of its time.
THEOREM PreciousIsAuctioned == SafetyTimeout # 0 => (ListingSpec => AuctionedFirst)
<1> SUFFICES ASSUME SafetyTimeout # 0 PROVE ListingSpec => AuctionedFirst
  OBVIOUS
<1> DEFINE Auctioned ==
      \A p \in ProposalIds :
        OrderStarts(p) /\ isPrecious /\ prop[p].votes * Bps < UnanimousBps * InitialTotal =>
          /\ auction = [by |-> p, bid |-> 0]
          /\ prop[p].executedTime + SafetyTimeout <= now
<1>1. PartyInv /\ ListingInv /\ [ListingNext]_listingVars => [Auctioned]_listingVars
  <2> SUFFICES ASSUME PartyInv, ListingInv, ListingNext, NEW p \in ProposalIds,
                      OrderStarts(p), isPrecious,
                      prop[p].votes * Bps < UnanimousBps * InitialTotal
               PROVE  /\ auction = [by |-> p, bid |-> 0]
                      /\ prop[p].executedTime + SafetyTimeout <= now
    OBVIOUS
  <2>1. StartOrder
    BY DEF OrderStarts, ListingNext, Begin, Return, StartAuction, FinishAuction, FinishOrder,
           OtherReturn, Bid, EndAuction, Fill, marketVars
  <2>2. /\ stack # <<>>
        /\ StartsOrder(Running, call) \/ Relists(Running, call)
        /\ orders' = [orders EXCEPT ![Running] = OrderExpiry(Running)]
    BY <2>1 DEF StartOrder
  <2>3. p = Running
    BY <2>2 DEF OrderStarts, ListingInv, MarketInv
  <2>4. stack[1] = p /\ engine.current = p /\ p # 0 /\ Pending = call.data
    BY <2>2, <2>3, RunningStep
  <2>5. ~call.unanimous
    <3>1. prop[p].votes \in Nat /\ InitialTotal \in Nat
      BY PowerAssumption DEF PartyInv, TypeOK, ProposalValues
    <3>2. call.unanimous => prop[p].votes * Bps >= UnanimousBps * InitialTotal
      BY <2>2, <2>4 DEF ListingInv, CallInv
    <3>3. QED
      BY <3>1, <3>2 DEF Bps, UnanimousBps
  <2>6. Expired(p, call) /\ kind[p] = "OpenSea"
    BY <2>2, <2>3, <2>5 DEF StartsOrder, NeedsAuction, Relists
  <2>7. /\ Pending.expiry \in Nat /\ prop[p].executedTime + SafetyTimeout <= Pending.expiry
        /\ Pending.expiry <= now /\ auction = [by |-> p, bid |-> 0]
    BY <2>4, <2>6 DEF Expired, OnZora, ListingInv, AuctionInv
  <2>8. now \in Nat /\ prop[p].executedTime \in Nat /\ SafetyTimeout \in Nat
    BY TimeAssumption, ListingAssumption DEF PartyInv, TypeOK, ProposalValues, Times
  <2>9. QED
    BY <2>7, <2>8
<1>2. QED
  BY <1>1, PartyInvariant, ListingInvariant, PTL DEF ListingSpec, AuctionedFirst

\* When a listing has come to its end, neither an order nor an auction is left that
\* could take the NFT from the party.
THEOREM EndedIsSafe == ListingSpec => EndedListingIsSafe
<1> DEFINE Safe ==
      \A p \in ProposalIds :
        stack = <<p>> /\ stack' = <<>> /\ prop'[p].completedTime # 0 /\ kind[p] # "Other" =>
          /\ nft' # "zora" /\ auction' = NoAuction
          /\ \A q \in ProposalIds : ~Fillable(q)'
<1>1. PartyInv /\ ListingInv /\ ListingInv' /\ [ListingNext]_listingVars => [Safe]_listingVars
  <2> SUFFICES ASSUME PartyInv, ListingInv, ListingInv', ListingNext, NEW p \in ProposalIds,
                      stack = <<p>>, stack' = <<>>, prop'[p].completedTime # 0,
                      kind[p] # "Other"
               PROVE  /\ nft' # "zora" /\ auction' = NoAuction
                      /\ \A q \in ProposalIds : ~Fillable(q)'
    OBVIOUS
  <2>1. stack # <<>> /\ stack[1] = p /\ stack' # stack
    OBVIOUS
  <2>2. Running = p /\ engine.current = p /\ p # 0 /\ Pending = call.data
    BY <2>1, RunningStep
  <2>3. \A d : ~ReturnPartial(d)
    BY <2>1, <2>2, RunningStep
  <2>4. FinishAuction \/ FinishOrder
    <3>1. CASE (\E h \in isHost : HostStep(h)) \/ OtherStep
      BY <2>1, <3>1, MembersAside
    <3>2. CASE \E m \in Members, q \in ProposalIds, d \in Progress \cup {NoData} : Begin(m, q, d)
      <4>1. engine.next = GuardHash
        BY <2>1 DEF PartyInv, EngineInv, EngineAgrees
      <4>2. QED
        BY <3>2, <4>1 DEF Begin, ExecuteBegin, EngineAdmits
    <3>3. CASE Bid \/ EndAuction \/ \E q \in ProposalIds : Fill(q)
      BY <2>1, <3>3 DEF Bid, EndAuction, Fill, Market
    <3>4. CASE Return
      BY <2>2, <2>3, <3>4 DEF Return, StartAuction, StartOrder, OtherReturn
    <3>5. QED
      BY <3>1, <3>2, <3>3, <3>4 DEF ListingNext
  <2>5. MarketInv'
    BY DEF ListingInv
  <2>6. auction'.by = 0 => nft' # "zora" /\ auction' = NoAuction
    BY <2>5 DEF MarketInv, NoAuction
  <2>7. CASE FinishAuction
    <3>1. OnZora(call)
      BY <2>2, <2>7 DEF FinishAuction, EndedByOther, Won, Expired
    <3>2. ~approved /\ auction.by \in {0, p}
      BY <2>2, <3>1 DEF ListingInv, AuctionInv, OnZora
    <3>3. auction'.by = 0
      BY <2>2, <2>7, <3>2 DEF FinishAuction, EndedByOther, NoAuction
    <3>4. approved' = approved
      BY <2>7 DEF FinishAuction
    <3>5. QED
      BY <2>6, <3>2, <3>3, <3>4 DEF Fillable
  <2>8. CASE FinishOrder
    <3>1. /\ OrderOver(p, call) /\ approved' = ApprovalLeft(p)
          /\ UNCHANGED <<nft, auction, filled>>
      BY <2>2, <2>8 DEF FinishOrder
    <3>2. CASE p \in filled
      <4>1. nft = "sold" /\ auction.by = 0
        BY <3>2 DEF ListingInv, MarketInv
      <4>2. QED
        BY <2>6, <3>1, <4>1 DEF Fillable
    <3>3. CASE p \notin filled
      <4>1. nft = "party" /\ auction.by = 0 /\ ~approved'
        BY <3>1, <3>3 DEF OrderOver, ApprovalLeft, ListingInv, MarketInv
      <4>2. QED
        BY <2>6, <3>1, <4>1 DEF Fillable
    <3>4. QED
      BY <3>2, <3>3
  <2>9. QED
    BY <2>4, <2>7, <2>8
<1>2. QED
  BY <1>1, PartyInvariant, ListingInvariant, PTL DEF ListingSpec, EndedListingIsSafe

=============================================================================
