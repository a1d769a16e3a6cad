----------------------- MODULE PartyVotingPower_proofs ----------------------
(***************************************************************************)
(* Proofs about PartyVotingPower: its type invariant, the order of the     *)
(* snapshots, and that no operation writes the past.  All of them rest on  *)
(* one observation: whatever an operation does to the snapshots of an      *)
(* account, in however many steps, is to leave them or to record one       *)
(* snapshot of the present second.                                         *)
(***************************************************************************)
EXTENDS PartyVotingPower, SequenceTheorems, SumTheorems, TLAPS

\* Snapshots within an operation, whose powers may still be below zero.
Entries ==
  [timestamp : 0 .. MaxTime, delegated : Int, intrinsic : Int, isDelegated : BOOLEAN]

----------------------------------------------------------------------------
(* Recording a snapshot                                                    *)

\* Recording e makes it the last snapshot and leaves the others alone; it takes the
\* place of the last one only if both are of the same second.
LEMMA RecordedEntries ==
  ASSUME NEW s \in Seq(Entries), NEW e \in Entries
  PROVE  LET r == Recorded(s, e)
         IN  /\ r \in Seq(Entries)
             /\ Len(r) \in Nat \ {0} /\ r[Len(r)] = e
             /\ \/ Len(r) = Len(s) + 1
                \/ Len(r) = Len(s) /\ s[Len(s)].timestamp = e.timestamp
             /\ \A i \in 1 .. Len(r) - 1 : i \in 1 .. Len(s) /\ r[i] = s[i]
<1>0. Len(s) \in Nat /\ (s # <<>> => Len(s) # 0)
  BY EmptySeq
<1>1. CASE s # <<>> /\ s[Len(s)].timestamp = e.timestamp
  <2>1. Recorded(s, e) = [s EXCEPT ![Len(s)] = e]
    BY <1>1 DEF Recorded
  <2>2. Len(s) \in 1 .. Len(s)
    BY <1>0, <1>1
  <2>3. QED
    BY <1>0, <1>1, <2>1, <2>2
<1>2. CASE ~(s # <<>> /\ s[Len(s)].timestamp = e.timestamp)
  <2>1. Recorded(s, e) = Append(s, e)
    BY <1>2 DEF Recorded
  <2>2. QED
    BY <1>0, <2>1
<1>3. QED
  BY <1>1, <1>2

\* Of two snapshots recorded in one second the second remains.
LEMMA RecordedTwice ==
  ASSUME NEW s \in Seq(Entries), NEW d \in Entries, NEW e \in Entries,
         d.timestamp = e.timestamp
  PROVE  Recorded(Recorded(s, d), e) = Recorded(s, e)
<1>0. PICK r : r = Recorded(s, d)
  OBVIOUS
<1>1. /\ r \in Seq(Entries) /\ Len(r) \in Nat \ {0} /\ r[Len(r)] = d /\ r # <<>>
      /\ Len(s) \in Nat /\ (s # <<>> => Len(s) # 0)
  <2>1. r \in Seq(Entries) /\ Len(r) \in Nat \ {0} /\ r[Len(r)] = d
    BY <1>0, RecordedEntries
  <2>2. QED
    BY <2>1, EmptySeq
<1>2. Recorded(r, e) = [r EXCEPT ![Len(r)] = e]
  BY <1>1 DEF Recorded
<1>3. CASE s # <<>> /\ s[Len(s)].timestamp = e.timestamp
  <2>1. r = [s EXCEPT ![Len(s)] = d] /\ Recorded(s, e) = [s EXCEPT ![Len(s)] = e]
    BY <1>0, <1>3 DEF Recorded
  <2>2. Len(r) = Len(s)
    BY <2>1
  <2>3. [r EXCEPT ![Len(r)] = e] = [s EXCEPT ![Len(s)] = e]
    BY <1>1, <2>1, <2>2
  <2>4. QED
    BY <1>0, <1>2, <2>1, <2>3
<1>4. CASE ~(s # <<>> /\ s[Len(s)].timestamp = e.timestamp)
  <2>1. r = Append(s, d) /\ Recorded(s, e) = Append(s, e)
    BY <1>0, <1>4 DEF Recorded
  <2>2. Len(r) = Len(s) + 1
    BY <2>1
  <2>3. PICK q : q = [r EXCEPT ![Len(r)] = e]
    OBVIOUS
  <2>4. q \in Seq(Entries) /\ Len(q) = Len(s) + 1 /\ q[Len(q)] = e
        /\ \A i \in 1 .. Len(s) : q[i] = s[i]
    <3>1. /\ q \in Seq(Entries) /\ Len(q) = Len(r) /\ q[Len(r)] = e
          /\ \A i \in 1 .. Len(r) : i # Len(r) => q[i] = r[i]
      BY <1>1, <2>3
    <3>2. \A i \in 1 .. Len(s) : r[i] = s[i] /\ i \in 1 .. Len(r) /\ i # Len(r)
      BY <1>1, <2>1, <2>2
    <3>3. QED
      BY <2>2, <3>1, <3>2
  <2>5. /\ Append(s, e) \in Seq(Entries) /\ Len(Append(s, e)) = Len(s) + 1
        /\ Append(s, e)[Len(s) + 1] = e
        /\ \A i \in 1 .. Len(s) : Append(s, e)[i] = s[i]
    OBVIOUS
  <2>6. \A i \in 1 .. Len(q) : q[i] = Append(s, e)[i]
    BY <1>1, <2>4, <2>5
  <2>7. q = Append(s, e)
    BY <2>4, <2>5, <2>6, SeqEqual
  <2>8. QED
    BY <1>0, <1>2, <2>1, <2>3, <2>7
<1>5. QED
  BY <1>3, <1>4

\* What an operation did to the snapshots s of an account, when they now are r.
Written(s, r) ==
  \/ r = s
  \/ \E e \in Entries : e.timestamp = now /\ r = Recorded(s, e)

\* Written snapshots are snapshots.
LEMMA WrittenType ==
  ASSUME NEW s \in Seq(Entries), NEW r, Written(s, r)
  PROVE  r \in Seq(Entries)
BY RecordedEntries DEF Written

\* Writing twice at one time is writing once: the second replaces the first.
LEMMA WrittenTwice ==
  ASSUME NEW s \in Seq(Entries), NEW r, NEW q, Written(s, r), Written(r, q)
  PROVE  Written(s, q)
<1>1. CASE q = r \/ r = s
  BY <1>1 DEF Written
<1>2. CASE ~(q = r \/ r = s)
  <2>1. PICK d \in Entries : d.timestamp = now /\ r = Recorded(s, d)
    BY <1>2 DEF Written
  <2>2. PICK e \in Entries : e.timestamp = now /\ q = Recorded(r, e)
    BY <1>2 DEF Written
  <2>3. q = Recorded(s, e)
    BY <2>1, <2>2, RecordedTwice
  <2>4. QED
    BY <2>2, <2>3 DEF Written
<1>3. QED
  BY <1>1, <1>2

\* The snapshots s are in the order of time and none is later than t.
InOrder(s, t) ==
  /\ \A i, j \in 1 .. Len(s) : i < j => s[i].timestamp < s[j].timestamp
  /\ \A i \in 1 .. Len(s) : s[i].timestamp <= t

\* Writing keeps the order, and the snapshots of earlier seconds.
LEMMA WrittenKeeps ==
  ASSUME NEW s \in Seq(Entries), NEW r, Written(s, r), now \in Nat, InOrder(s, now)
  PROVE  /\ InOrder(r, now)
         /\ \A i \in DOMAIN s : s[i].timestamp < now => i \in DOMAIN r /\ r[i] = s[i]
<1>1. CASE r = s
  BY <1>1
<1>2. ASSUME NEW e \in Entries, e.timestamp = now, r = Recorded(s, e)
      PROVE  /\ InOrder(r, now)
             /\ \A i \in DOMAIN s : s[i].timestamp < now => i \in DOMAIN r /\ r[i] = s[i]
  <2>1. /\ r \in Seq(Entries)
        /\ Len(r) \in Nat \ {0} /\ r[Len(r)] = e /\ Len(s) \in Nat
        /\ Len(r) = Len(s) + 1 \/ (Len(r) = Len(s) /\ s[Len(s)].timestamp = now)
        /\ \A i \in 1 .. Len(r) - 1 : i \in 1 .. Len(s) /\ r[i] = s[i]
    <3>1. /\ Recorded(s, e) \in Seq(Entries)
          /\ Len(Recorded(s, e)) \in Nat \ {0} /\ Recorded(s, e)[Len(Recorded(s, e))] = e
          /\ \/ Len(Recorded(s, e)) = Len(s) + 1
             \/ Len(Recorded(s, e)) = Len(s) /\ s[Len(s)].timestamp = e.timestamp
          /\ \A i \in 1 .. Len(Recorded(s, e)) - 1 :
               i \in 1 .. Len(s) /\ Recorded(s, e)[i] = s[i]
      BY RecordedEntries, Zenon
    <3>2. Len(s) \in Nat
      OBVIOUS
    <3>3. QED
      BY <1>2, <3>1, <3>2
  <2>2. \A i \in 1 .. Len(s) : s[i].timestamp \in Int
    <3>1. \A i \in 1 .. Len(s) : s[i] \in Entries
      OBVIOUS
    <3>2. \A d \in Entries : d.timestamp \in Int
      BY PowerNumbers DEF Entries
    <3>3. QED
      BY <3>1, <3>2
  <2>3. \A i \in 1 .. Len(r) - 1 : s[i].timestamp < now
    <3>1. CASE Len(r) = Len(s)
      BY <2>1, <2>2, <3>1 DEF InOrder
    <3>2. CASE Len(r) = Len(s) + 1
      <4>1. SUFFICES ASSUME s # <<>>, s[Len(s)].timestamp = now PROVE FALSE
        <5>1. \A i \in 1 .. Len(s) : i < Len(s) => s[i].timestamp < s[Len(s)].timestamp
          BY <2>1 DEF InOrder
        <5>2. \A i \in 1 .. Len(s) : s[i].timestamp <= now
          BY DEF InOrder
        <5>3. s # <<>> => Len(s) \in 1 .. Len(s)
          BY <2>1, EmptySeq
        <5>4. s[Len(s)].timestamp < now \/ s = <<>>
          BY <2>2, <5>2, <5>3
        <5>5. QED
          BY <2>1, <2>2, <3>2, <5>1, <5>2, <5>4
      <4>2. Recorded(s, e) = [s EXCEPT ![Len(s)] = e]
        BY <1>2, <4>1 DEF Recorded
      <4>3. QED
        BY <1>2, <2>1, <3>2, <4>2
    <3>3. QED
      BY <2>1, <3>1, <3>2
  <2>4. \A i \in 1 .. Len(r) : i # Len(r) =>
          i \in 1 .. Len(s) /\ r[i] = s[i] /\ r[i].timestamp < now
    BY <2>1, <2>3
  <2>5. r[Len(r)].timestamp = now
    BY <1>2, <2>1
  <2>6. \A i, j \in 1 .. Len(r) : i < j => r[i].timestamp < r[j].timestamp
    <3> SUFFICES ASSUME NEW i \in 1 .. Len(r), NEW j \in 1 .. Len(r), i < j
        PROVE  r[i].timestamp < r[j].timestamp
      OBVIOUS
    <3>1. i # Len(r)
      BY <2>1
    <3>2. CASE j = Len(r)
      BY <2>4, <2>5, <3>1, <3>2
    <3>3. CASE j # Len(r)
      BY <2>4, <3>1, <3>3 DEF InOrder
    <3>4. QED
      BY <3>2, <3>3
  <2>7. \A i \in 1 .. Len(r) : r[i].timestamp <= now
    BY <2>2, <2>4, <2>5 DEF InOrder
  <2>8. \A i \in 1 .. Len(s) : s[i].timestamp < now => i \in 1 .. Len(r) /\ r[i] = s[i]
    <3>1. CASE Len(r) = Len(s) + 1
      BY <2>1, <3>1
    <3>2. CASE Len(r) = Len(s) /\ s[Len(s)].timestamp = now
      <4>1. ASSUME NEW i \in 1 .. Len(s), s[i].timestamp < now
            PROVE  i \in 1 .. Len(r) - 1
        <5>1. i # Len(s)
          BY <3>2, <4>1
        <5>2. QED
          BY <2>1, <3>2, <5>1
      <4>2. QED
        BY <2>1, <4>1
    <3>3. QED
      BY <2>1, <3>1, <3>2
  <2>9. DOMAIN s = 1 .. Len(s) /\ DOMAIN r = 1 .. Len(r)
    BY <2>1
  <2>10. QED
    BY <2>6, <2>7, <2>8, <2>9 DEF InOrder
<1>3. QED
  BY <1>1, <1>2 DEF Written

----------------------------------------------------------------------------
(* Adjusting the power of accounts                                         *)

\* What an operation did to the snapshots ss of all accounts, when they now are rr.
AllWritten(ss, rr) ==
  /\ rr \in [Accounts -> Seq(Entries)]
  /\ \A u \in Accounts : Written(ss[u], rr[u])

\* Likewise for the snapshots of all accounts.
LEMMA AllWrittenTwice ==
  ASSUME NEW ss \in [Accounts -> Seq(Entries)], NEW rr, NEW qq,
         AllWritten(ss, rr), AllWritten(rr, qq)
  PROVE  AllWritten(ss, qq)
<1>1. ASSUME NEW u \in Accounts PROVE Written(ss[u], qq[u])
  <2>1. ss[u] \in Seq(Entries) /\ Written(ss[u], rr[u]) /\ Written(rr[u], qq[u])
    BY DEF AllWritten
  <2>2. QED
    BY <2>1, WrittenTwice
<1>2. QED
  BY <1>1 DEF AllWritten

\* To write nothing is to write.
LEMMA NothingWritten ==
  ASSUME NEW ss \in [Accounts -> Seq(Entries)]
  PROVE  AllWritten(ss, ss)
BY DEF AllWritten, Written

\* The latest snapshot is one, of an account that has none too.
LEMMA LastEntry ==
  ASSUME NEW ss \in [Accounts -> Seq(Entries)], NEW v \in Accounts
  PROVE  LastSnap(ss, v) \in Entries
<1>1. CASE ss[v] = <<>>
  BY <1>1, PowerNumbers DEF LastSnap, NoSnap, Entries
<1>2. CASE ss[v] # <<>>
  <2>1. ss[v] \in Seq(Entries)
    OBVIOUS
  <2>2. Len(ss[v]) \in Nat /\ Len(ss[v]) # 0
    BY <1>2, <2>1, EmptySeq
  <2>3. ss[v][Len(ss[v])] \in Entries
    BY <2>1, <2>2
  <2>4. QED
    BY <1>2, <2>3 DEF LastSnap, Last
<1>3. QED
  BY <1>1, <1>2

\* Inserting a snapshot of the present writes the snapshots of one account.
LEMMA InsertWrites ==
  ASSUME NEW ss \in [Accounts -> Seq(Entries)], NEW v \in Accounts,
         NEW e \in Entries, e.timestamp = now
  PROVE  AllWritten(ss, Insert(ss, v, e))
<1>1. ss[v] \in Seq(Entries) /\ Recorded(ss[v], e) \in Seq(Entries)
  BY RecordedEntries
<1>2. Insert(ss, v, e) = [ss EXCEPT ![v] = Recorded(ss[v], e)]
  BY DEF Insert
<1>3. Written(ss[v], Recorded(ss[v], e))
  BY DEF Written
<1>4. \A u \in Accounts : u # v => Written(ss[u], ss[u])
  BY DEF Written
<1>5. QED
  BY <1>1, <1>2, <1>3, <1>4 DEF AllWritten

\* Moving delegated power to or from one account writes at most its snapshots.
LEMMA RedelegatedWrites ==
  ASSUME now \in 0 .. MaxTime, NEW ss \in [Accounts -> Seq(Entries)],
         NEW v \in Accounts, NEW delta \in Int
  PROVE  AllWritten(ss, Redelegated(ss, v, delta))
<1>0. PICK last : last = LastSnap(ss, v)
  OBVIOUS
<1>1. last \in Entries
  BY <1>0, LastEntry
<1>2. PICK n : n = last.delegated + delta
  OBVIOUS
<1>3. PICK e : e = [last EXCEPT !.timestamp = now, !.delegated = n]
  OBVIOUS
<1>4. e \in Entries /\ e.timestamp = now
  <2>1. n \in Int
    BY <1>1, <1>2 DEF Entries
  <2>2. QED
    BY <1>1, <1>3, <2>1 DEF Entries
<1>5. Redelegated(ss, v, delta) = Insert(ss, v, e)
  BY <1>0, <1>1, <1>2, <1>3 DEF Redelegated, Entries
<1>6. QED
  BY <1>4, <1>5, InsertWrites

\* _rebalanceDelegates writes at the current time only.
LEMMA RebalancedWrites ==
  ASSUME now \in 0 .. MaxTime, NEW ss \in [Accounts -> Seq(Entries)],
         NEW v \in Accounts, NEW from \in Accounts, NEW to \in Accounts,
         NEW before \in Int, NEW after \in Int
  PROVE  AllWritten(ss, Rebalanced(ss, v, from, to, before, after))
<1>0. PICK left : left = IF from \notin {v, to} THEN Redelegated(ss, from, -before) ELSE ss
  OBVIOUS
<1>1. AllWritten(ss, left)
  <2>1. -before \in Int
    OBVIOUS
  <2>2. AllWritten(ss, Redelegated(ss, from, -before)) /\ AllWritten(ss, ss)
    BY <2>1, RedelegatedWrites, NothingWritten
  <2>3. QED
    BY <1>0, <2>2
<1>2. PICK delta : delta = IF to = from THEN after - before ELSE after
  OBVIOUS
<1>3. AllWritten(left, Redelegated(left, to, delta))
  <2>1. delta \in Int
    BY <1>2
  <2>2. left \in [Accounts -> Seq(Entries)]
    BY <1>1 DEF AllWritten
  <2>3. QED
    BY <2>1, <2>2, RedelegatedWrites
<1>4. Rebalanced(ss, v, from, to, before, after)
        = IF to = v THEN left ELSE Redelegated(left, to, delta)
  BY <1>0, <1>2 DEF Rebalanced
<1>5. AllWritten(ss, Redelegated(left, to, delta))
  BY <1>1, <1>3, AllWrittenTwice
<1>6. QED
  BY <1>1, <1>4, <1>5

Delegations == [Accounts -> Accounts \cup {None}]

\* Adjusting the power of an account writes snapshots of the present only.
LEMMA AdjustedWrites ==
  ASSUME now \in 0 .. MaxTime, NEW l, l.snaps \in [Accounts -> Seq(Entries)],
         l.delegations \in Delegations,
         NEW v \in Accounts, NEW delta \in Int, NEW d \in Accounts \cup {None}
  PROVE  /\ AllWritten(l.snaps, Adjusted(l, v, delta, d).snaps)
         /\ Adjusted(l, v, delta, d).delegations \in Delegations
<1>1. PICK from : from = CurrentDelegate(l.delegations, v)
  OBVIOUS
<1>2. PICK to : to = IF d = None THEN from ELSE d
  OBVIOUS
<1>3. from \in Accounts /\ to \in Accounts
  BY <1>1, <1>2 DEF CurrentDelegate, Delegations
<1>4. PICK old \in Entries : old = LastSnap(l.snaps, v)
  BY LastEntry
<1>5. PICK held \in Int : held = old.intrinsic + delta
  BY DEF Entries
<1>6. old.intrinsic \in Int
  BY DEF Entries
<1>7. PICK own : own = [old EXCEPT !.timestamp = now, !.intrinsic = held,
                                   !.isDelegated = (to # v)]
  OBVIOUS
<1>8. own \in Entries /\ own.timestamp = now
  BY <1>7 DEF Entries
<1>9. PICK rr : rr = Insert(l.snaps, v, own)
  OBVIOUS
<1>10. AllWritten(l.snaps, rr) /\ rr \in [Accounts -> Seq(Entries)]
  BY <1>8, <1>9, InsertWrites DEF AllWritten
<1>11. AllWritten(rr, Rebalanced(rr, v, from, to, old.intrinsic, held))
  BY <1>3, <1>6, <1>10, RebalancedWrites
<1>12. Adjusted(l, v, delta, d)
        = [snaps |-> Rebalanced(rr, v, from, to, old.intrinsic, held),
           delegations |-> [l.delegations EXCEPT ![v] = to]]
  BY <1>1, <1>2, <1>4, <1>5, <1>7, <1>9 DEF Adjusted
<1>13. AllWritten(l.snaps, Rebalanced(rr, v, from, to, old.intrinsic, held))
  BY <1>10, <1>11, AllWrittenTwice
<1>14. [l.delegations EXCEPT ![v] = to] \in Delegations
  BY <1>3 DEF Delegations
<1>15. QED
  BY <1>12, <1>13, <1>14

----------------------------------------------------------------------------
(* The invariants                                                          *)

NonNegative(e) == e.delegated >= 0 /\ e.intrinsic >= 0

\* What every operation does to the snapshots and delegations: it writes the present,
\* and no power it leaves is below zero.
Recording ==
  /\ AllWritten(snaps, snaps')
  /\ \A v \in Accounts : snaps'[v] = snaps[v] \/ NonNegative(LastSnap(snaps', v))
  /\ delegations' \in Delegations

\* The types of the contract's state in the terms of its history.
LEMMA TypesOfEntries ==
  ASSUME TypeOK
  PROVE  /\ now \in 0 .. MaxTime /\ now \in Nat
         /\ snaps \in [Accounts -> Seq(Entries)]
         /\ Ledger.snaps = snaps /\ Ledger.delegations = delegations
         /\ delegations \in Delegations
<1>1. Snapshots \subseteq Entries
  BY DEF Snapshots, Entries
<1>2. Seq(Snapshots) \subseteq Seq(Entries)
  BY <1>1
<1>3. now \in 0 .. MaxTime /\ now \in Nat
  BY PowerNumbers DEF TypeOK
<1>4. QED
  BY <1>2, <1>3 DEF TypeOK, Ledger, Delegations

\* A step that adjusts the ledger records what the history allows.
LEMMA AdjustRecords ==
  ASSUME NEW l, AllWritten(snaps, l.snaps), l.delegations \in Delegations, AdjustTo(l)
  PROVE  Recording
<1>1. snaps' = l.snaps /\ delegations' = l.delegations
  BY DEF AdjustTo
<1>2. \A v \in Accounts : NonNegative(LastSnap(snaps', v))
  BY <1>1 DEF AdjustTo, NoUnderflow, LastSnap, NonNegative
<1>3. QED
  BY <1>1, <1>2 DEF Recording

\* One adjustment of the power of an account records its snapshots.
LEMMA AdjustmentRecords ==
  ASSUME TypeOK, NEW v \in Accounts, NEW delta \in Int, NEW d \in Accounts \cup {None},
         AdjustTo(Adjusted(Ledger, v, delta, d))
  PROVE  Recording
<1>1. PICK l : l = Adjusted(Ledger, v, delta, d)
  OBVIOUS
<1>2. AllWritten(snaps, l.snaps) /\ l.delegations \in Delegations
  BY <1>1, TypesOfEntries, AdjustedWrites
<1>3. QED
  BY <1>1, <1>2, AdjustRecords

\* So do the two of a transfer.
LEMMA MoveRecords ==
  ASSUME TypeOK, NEW from \in Accounts, NEW to \in Accounts, NEW power \in Int,
         AdjustTo(Moved(from, to, power))
  PROVE  Recording
<1>1. PICK k : k = Adjusted(Ledger, from, -power, None)
  OBVIOUS
<1>2. PICK l : l = Adjusted(k, to, power, None)
  OBVIOUS
<1>3. AllWritten(snaps, k.snaps) /\ k.delegations \in Delegations
  <2>1. -power \in Int
    OBVIOUS
  <2>2. QED
    BY <1>1, <2>1, TypesOfEntries, AdjustedWrites
<1>4. AllWritten(k.snaps, l.snaps) /\ l.delegations \in Delegations
  BY <1>2, <1>3, TypesOfEntries, AdjustedWrites DEF AllWritten
<1>5. AllWritten(snaps, l.snaps)
  BY <1>3, <1>4, TypesOfEntries, AllWrittenTwice
<1>6. QED
  BY <1>1, <1>2, <1>4, <1>5, AdjustRecords DEF Moved

\* What is recorded has the type of snapshots.
LEMMA RecordingType ==
  ASSUME TypeOK, Recording
  PROVE  snaps' \in [Accounts -> Seq(Snapshots)] /\ delegations' \in Delegations
<1>1. ASSUME NEW v \in Accounts PROVE snaps'[v] \in Seq(Snapshots)
  <2>1. CASE snaps'[v] = snaps[v]
    BY <2>1 DEF TypeOK
  <2>2. CASE snaps'[v] # snaps[v]
    <3>1. PICK s \in Seq(Entries) : s = snaps[v] /\ s \in Seq(Snapshots)
      BY TypesOfEntries DEF TypeOK
    <3>2. PICK e \in Entries : snaps'[v] = Recorded(s, e)
      BY <2>2, <3>1 DEF Recording, AllWritten, Written
    <3>3. PICK r : r = Recorded(s, e)
      OBVIOUS
    <3>4. /\ r \in Seq(Entries) /\ Len(r) \in Nat \ {0} /\ r[Len(r)] = e
          /\ \A i \in 1 .. Len(r) - 1 : i \in 1 .. Len(s) /\ r[i] = s[i]
      <4>1. /\ Recorded(s, e) \in Seq(Entries)
            /\ Len(Recorded(s, e)) \in Nat \ {0} /\ Recorded(s, e)[Len(Recorded(s, e))] = e
            /\ \A i \in 1 .. Len(Recorded(s, e)) - 1 :
                 i \in 1 .. Len(s) /\ Recorded(s, e)[i] = s[i]
        BY RecordedEntries, Zenon
      <4>2. QED
        BY <3>3, <4>1
    <3>5. LastSnap(snaps', v) = e
      BY <3>2, <3>3, <3>4, EmptySeq DEF LastSnap, Last
    <3>6. e \in Snapshots
      BY <2>2, <3>5 DEF Recording, NonNegative, Entries, Snapshots
    <3>7. \A i \in 1 .. Len(r) : r[i] \in Snapshots
      <4>1. \A i \in 1 .. Len(s) : s[i] \in Snapshots
        BY <3>1
      <4>2. \A i \in 1 .. Len(r) : i = Len(r) \/ i \in 1 .. Len(r) - 1
        BY <3>4
      <4>3. QED
        BY <3>4, <3>6, <4>1, <4>2
    <3>8. r = [i \in 1 .. Len(r) |-> r[i]]
      BY <3>4
    <3>9. QED
      BY <3>2, <3>3, <3>4, <3>7, <3>8
  <2>3. QED
    BY <2>1, <2>2
<1>2. QED
  BY <1>1 DEF Recording, AllWritten

\* Every step records snapshots of the present, or none, and time never goes back.
LEMMA StepRecords ==
  ASSUME TypeOK, [Next]_vpVars
  PROVE  Recording /\ now <= now'
<1>0. /\ \A c \in Cards : cards[c].power \in Int /\ -cards[c].power \in Int
                          /\ (cards[c].owner # None => cards[c].owner \in Accounts)
      /\ \A v \in Accounts : delegations[v] \in Accounts \cup {None}
      /\ minted \in Nat /\ total \in Nat
  BY DEF TypeOK
<1>00. ASSUME NEW n \in Grants PROVE Granted(n) \in Int
  BY <1>0, PowerNumbers DEF Granted
<1>000. ASSUME UNCHANGED powerVars, now' >= now
        PROVE  Recording /\ now <= now'
  <2>1. now <= now'
    BY <1>000, PowerNumbers DEF TypeOK
  <2>2. AllWritten(snaps, snaps') /\ delegations' \in Delegations
    BY <1>000, TypesOfEntries, NothingWritten DEF powerVars
  <2>3. QED
    BY <1>000, <2>1, <2>2 DEF Recording, powerVars
<1>1. ASSUME NEW a \in isAuthority, NEW v \in Accounts, NEW n \in Grants,
             NEW d \in Accounts \cup {None}, Mint(a, v, n, d)
      PROVE  Recording /\ now <= now'
  <2>1. PICK e : e = IF delegations[v] # None THEN delegations[v] ELSE d
    OBVIOUS
  <2>2. e \in Accounts \cup {None} /\ Granted(n) \in Int
    BY <1>0, <1>00, <2>1
  <2>3. AdjustTo(Adjusted(Ledger, v, Granted(n), e)) /\ UNCHANGED now
    BY <1>1, <2>1 DEF Mint
  <2>4. QED
    BY <2>2, <2>3, AdjustmentRecords DEF TypeOK
<1>2. ASSUME NEW a \in isAuthority, NEW c \in Cards, NEW n \in Grants, AddVotingPower(a, c, n)
      PROVE  Recording /\ now <= now'
  <2>1. Granted(n) \in Int /\ cards[c].owner \in Accounts
    BY <1>0, <1>00, <1>2 DEF AddVotingPower
  <2>2. AdjustTo(Adjusted(Ledger, cards[c].owner, Granted(n), None)) /\ UNCHANGED now
    BY <1>2 DEF AddVotingPower
  <2>3. QED
    BY <2>1, <2>2, AdjustmentRecords DEF TypeOK
<1>3. ASSUME NEW a \in isAuthority, NEW n \in Increases, IncreaseTotalVotingPower(a, n)
      PROVE  Recording /\ now <= now'
  BY <1>3, <1>000 DEF IncreaseTotalVotingPower, TypeOK
<1>4. ASSUME NEW s, NEW c \in Cards, Burn(s, c)
      PROVE  Recording /\ now <= now'
  <2>1. -cards[c].power \in Int /\ cards[c].owner \in Accounts
    BY <1>0, <1>4 DEF Burn
  <2>2. AdjustTo(Adjusted(Ledger, cards[c].owner, -cards[c].power, None)) /\ UNCHANGED now
    BY <1>4 DEF Burn
  <2>3. QED
    BY <2>1, <2>2, AdjustmentRecords DEF TypeOK
<1>5. ASSUME NEW c \in Cards, NEW to \in Accounts, TransferFrom(c, to)
      PROVE  Recording /\ now <= now'
  <2>1. cards[c].power \in Int /\ cards[c].owner \in Accounts
    BY <1>0, <1>5 DEF TransferFrom
  <2>2. AdjustTo(Moved(cards[c].owner, to, cards[c].power)) /\ UNCHANGED now
    BY <1>5 DEF TransferFrom
  <2>3. QED
    BY <2>1, <2>2, MoveRecords DEF TypeOK
<1>6. ASSUME NEW v \in Accounts, NEW d \in Accounts \cup {None}, DelegateVotingPower(v, d)
      PROVE  Recording /\ now <= now'
  <2>1. AdjustTo(Adjusted(Ledger, v, 0, d)) /\ UNCHANGED now
    BY <1>6 DEF DelegateVotingPower
  <2>2. QED
    BY <2>1, AdjustmentRecords DEF TypeOK
<1>7. ASSUME NEW a, AddAuthority(a) \/ AbdicateAuthority(a)
      PROVE  Recording /\ now <= now'
  BY <1>7, <1>000 DEF AddAuthority, AbdicateAuthority, TypeOK
<1>8. ASSUME Tick
      PROVE  Recording /\ now <= now'
  BY <1>8, <1>000 DEF Tick, TypeOK
<1>9. CASE UNCHANGED vpVars
  BY <1>9, <1>000 DEF vpVars, powerVars, TypeOK
<1>10. QED
  BY <1>1, <1>2, <1>3, <1>4, <1>5, <1>6, <1>7, <1>8, <1>9 DEF Next

\* The types hold: no power of a card or of a snapshot, nor what was minted, falls
\* below zero, whatever members and authorities do.
THEOREM TypesHold == Spec => []TypeOK
<1>1. Init => TypeOK
  BY PowerNumbers, PowerAccounts DEF Init, TypeOK, NoCard
<1>2. TypeOK /\ [Next]_vpVars => TypeOK'
  <2> SUFFICES ASSUME TypeOK, [Next]_vpVars PROVE TypeOK'
    OBVIOUS
  <2>0. snaps' \in [Accounts -> Seq(Snapshots)] /\ delegations' \in [Accounts -> Accounts \cup {None}]
    BY StepRecords, RecordingType DEF Delegations
  <2>00. /\ cards \in [Cards -> [owner : Accounts \cup {None}, power : Nat]]
         /\ minted \in Nat /\ total \in Nat /\ now \in 1 .. MaxTime /\ tokenCount \in 0 .. MaxCards
         /\ isAuthority \subseteq AuthorityAccounts
    BY DEF TypeOK
  <2>000. ASSUME cards' \in [Cards -> [owner : Accounts \cup {None}, power : Nat]],
                 minted' \in Nat, total' \in Nat, now' \in 1 .. MaxTime,
                 tokenCount' \in 0 .. MaxCards, isAuthority' \subseteq AuthorityAccounts
          PROVE  TypeOK'
    BY <2>0, <2>000 DEF TypeOK
  <2>1. ASSUME NEW a \in isAuthority, NEW n \in Grants, GrantGuard(a, n)
        PROVE  Granted(n) \in Nat
    BY <2>1, <2>00, PowerNumbers DEF Granted, GrantGuard
  <2>2. ASSUME NEW a \in isAuthority, NEW v \in Accounts, NEW n \in Grants,
               NEW d \in Accounts \cup {None}, Mint(a, v, n, d)
        PROVE  TypeOK'
    <3>1. Granted(n) \in Nat
      BY <2>1, <2>2 DEF Mint
    <3>2. /\ tokenCount' \in Cards /\ minted' = minted + Granted(n)
          /\ cards' = [cards EXCEPT ![tokenCount + 1] = [owner |-> v, power |-> Granted(n)]]
          /\ UNCHANGED <<now, total, isAuthority>>
      BY <2>2 DEF Mint
    <3>3. cards' \in [Cards -> [owner : Accounts \cup {None}, power : Nat]]
      BY <2>00, <3>1, <3>2
    <3>4. tokenCount' \in 0 .. MaxCards
      BY <3>2, PowerNumbers DEF Cards
    <3>5. minted' \in Nat
      BY <2>00, <3>1, <3>2
    <3>6. QED
      BY <2>00, <2>000, <3>2, <3>3, <3>4, <3>5
  <2>3. ASSUME NEW a \in isAuthority, NEW c \in Cards, NEW n \in Grants, AddVotingPower(a, c, n)
        PROVE  TypeOK'
    <3>1. Granted(n) \in Nat
      BY <2>1, <2>3 DEF AddVotingPower
    <3>2. /\ minted' = minted + Granted(n)
          /\ cards' = [cards EXCEPT ![c].power = @ + Granted(n)]
          /\ UNCHANGED <<now, tokenCount, total, isAuthority>>
      BY <2>3 DEF AddVotingPower
    <3>3. cards' \in [Cards -> [owner : Accounts \cup {None}, power : Nat]]
      <4>1. cards[c] \in [owner : Accounts \cup {None}, power : Nat]
        BY <2>00
      <4>2. cards[c].power + Granted(n) \in Nat
        BY <3>1, <4>1
      <4>3. QED
        BY <2>00, <3>2, <4>1, <4>2
    <3>4. minted' \in Nat
      BY <2>00, <3>1, <3>2
    <3>5. QED
      BY <2>00, <2>000, <3>2, <3>3, <3>4
  <2>4. ASSUME NEW a \in isAuthority, NEW n \in Increases, IncreaseTotalVotingPower(a, n)
        PROVE  TypeOK'
    BY <2>4, <2>0, <2>00, PowerNumbers DEF IncreaseTotalVotingPower, cardVars, TypeOK
  <2>5. ASSUME NEW s, NEW c \in Cards, Burn(s, c)
        PROVE  TypeOK'
    <3>1. /\ cards[c].power <= minted /\ minted' = minted - cards[c].power
          /\ cards' = [cards EXCEPT ![c] = NoCard]
          /\ UNCHANGED <<now, tokenCount, total, isAuthority>>
      BY <2>5 DEF Burn
    <3>2. cards[c].power \in Nat /\ NoCard \in [owner : Accounts \cup {None}, power : Nat]
      BY <2>00 DEF NoCard
    <3>3. cards' \in [Cards -> [owner : Accounts \cup {None}, power : Nat]]
      BY <2>00, <3>1, <3>2
    <3>4. minted' \in Nat
      BY <2>00, <3>1, <3>2
    <3>5. QED
      BY <2>00, <2>000, <3>1, <3>3, <3>4
  <2>6. ASSUME NEW c \in Cards, NEW to \in Accounts, TransferFrom(c, to)
        PROVE  TypeOK'
    <3>1. /\ cards' = [cards EXCEPT ![c].owner = to]
          /\ UNCHANGED <<now, tokenCount, minted, total, isAuthority>>
      BY <2>6 DEF TransferFrom
    <3>2. cards' \in [Cards -> [owner : Accounts \cup {None}, power : Nat]]
      BY <2>00, <3>1
    <3>3. QED
      BY <2>00, <2>000, <3>1, <3>2
  <2>7. ASSUME NEW v, NEW d, DelegateVotingPower(v, d)
        PROVE  TypeOK'
    BY <2>7, <2>0, <2>00 DEF DelegateVotingPower, cardVars, TypeOK
  <2>8. ASSUME NEW a \in AuthorityAccounts, AddAuthority(a) \/ AbdicateAuthority(a)
        PROVE  TypeOK'
    BY <2>8, <2>0, <2>00 DEF AddAuthority, AbdicateAuthority, cardVars, TypeOK
  <2>9. ASSUME Tick
        PROVE  TypeOK'
    BY <2>9, <2>0, <2>00, PowerNumbers DEF Tick, cardVars, TypeOK
  <2>10. CASE UNCHANGED vpVars
    BY <2>10, <2>00, <2>0 DEF vpVars, TypeOK
  <2>11. QED
    BY <2>00, <2>2, <2>3, <2>4, <2>5, <2>6, <2>7, <2>8, <2>9, <2>10 DEF Next
<1>3. QED
  BY <1>1, <1>2, PTL DEF Spec

\* SnapshotsInOrder in the terms of one account.
LEMMA OrderOfAccounts ==
  ASSUME NEW ss \in [Accounts -> Seq(Entries)], NEW t
  PROVE  (\A v \in Accounts : InOrder(ss[v], t)) <=>
           \A v \in Accounts :
             /\ \A i, j \in DOMAIN ss[v] : i < j => ss[v][i].timestamp < ss[v][j].timestamp
             /\ \A i \in DOMAIN ss[v] : ss[v][i].timestamp <= t
<1>1. \A v \in Accounts : DOMAIN ss[v] = 1 .. Len(ss[v])
  OBVIOUS
<1>2. QED
  BY <1>1 DEF InOrder

\* A step keeps the order, and what was written in an earlier second.
LEMMA StepKeeps ==
  ASSUME TypeOK, TypeOK', SnapshotsInOrder, [Next]_vpVars
  PROVE  /\ SnapshotsInOrder'
         /\ \A v \in Accounts : \A i \in DOMAIN snaps[v] :
              snaps[v][i].timestamp < now =>
                i \in DOMAIN snaps'[v] /\ snaps'[v][i] = snaps[v][i]
<1>1. /\ snaps \in [Accounts -> Seq(Entries)] /\ snaps' \in [Accounts -> Seq(Entries)]
      /\ Recording /\ now \in Nat /\ now' \in Nat /\ now <= now'
  <2>1. Recording /\ now <= now'
    BY StepRecords
  <2>2. now' \in Nat
    BY PowerNumbers DEF TypeOK
  <2>3. QED
    BY <2>1, <2>2, TypesOfEntries DEF Recording, AllWritten
<1>2. \A v \in Accounts : InOrder(snaps[v], now)
  BY <1>1, OrderOfAccounts DEF SnapshotsInOrder
<1>3. ASSUME NEW v \in Accounts
      PROVE  /\ InOrder(snaps'[v], now)
             /\ \A i \in DOMAIN snaps[v] :
                  snaps[v][i].timestamp < now =>
                    i \in DOMAIN snaps'[v] /\ snaps'[v][i] = snaps[v][i]
  <2>1. Written(snaps[v], snaps'[v]) /\ snaps[v] \in Seq(Entries)
    BY <1>1 DEF Recording, AllWritten
  <2>2. QED
    BY <1>1, <1>2, <2>1, WrittenKeeps
<1>4. ASSUME NEW v \in Accounts PROVE InOrder(snaps'[v], now')
  <2>1. \A i \in 1 .. Len(snaps'[v]) : snaps'[v][i].timestamp \in Int
    <3>1. \A i \in 1 .. Len(snaps'[v]) : snaps'[v][i] \in Entries
      BY <1>1
    <3>2. \A e \in Entries : e.timestamp \in Int
      BY PowerNumbers DEF Entries
    <3>3. QED
      BY <3>1, <3>2
  <2>2. QED
    BY <1>1, <1>3, <2>1 DEF InOrder
<1>5. SnapshotsInOrder'
  BY <1>1, <1>4, OrderOfAccounts DEF SnapshotsInOrder
<1>6. QED
  BY <1>3, <1>5

\* The snapshots of every account are in the order of time, which is what the binary
\* search relies on.
LEMMA OrderHolds == Spec => []SnapshotsInOrder
<1>1. Init => SnapshotsInOrder
  BY DEF Init, SnapshotsInOrder
<1>2. TypeOK /\ TypeOK' /\ SnapshotsInOrder /\ [Next]_vpVars => SnapshotsInOrder'
  BY StepKeeps
<1>3. QED
  BY <1>1, <1>2, TypesHold, PTL DEF Spec

\* No operation writes a snapshot of an earlier second, so what a vote counts does
\* not depend on what members do after the proposal.
THEOREM PastStays == Spec => PastIsImmutable
<1>1. TypeOK /\ TypeOK' /\ SnapshotsInOrder /\ [Next]_vpVars =>
        [\A v \in Accounts : \A i \in DOMAIN snaps[v] :
           snaps[v][i].timestamp < now =>
             i \in DOMAIN snaps'[v] /\ snaps'[v][i] = snaps[v][i]]_vpVars
  BY StepKeeps
<1>2. QED
  BY <1>1, TypesHold, OrderHolds, PTL DEF Spec, PastIsImmutable

\* The index a caller offers is used only if it is that of the latest snapshot up to
\* the time asked for.
OfferedIndexIsLatest ==
  \A v \in Accounts, t \in 0 .. MaxTime, hint \in Nat :
    HintHolds(snaps[v], t, hint) =>
      \A i \in 1 .. Len(snaps[v]) : snaps[v][i].timestamp <= t <=> i <= hint + 1

\* getVotingPowerAt with a hint never answers from another snapshot than the latest
\* up to the time asked for, whatever the hint.
THEOREM OfferIsVerified == Spec => []OfferedIndexIsLatest
<1>1. TypeOK /\ SnapshotsInOrder => OfferedIndexIsLatest
  <2> SUFFICES ASSUME TypeOK, SnapshotsInOrder, NEW v \in Accounts, NEW t \in 0 .. MaxTime,
                      NEW hint \in Nat, HintHolds(snaps[v], t, hint),
                      NEW i \in 1 .. Len(snaps[v])
      PROVE  snaps[v][i].timestamp <= t <=> i <= hint + 1
    BY DEF OfferedIndexIsLatest
  <2>1. PICK s \in Seq(Entries) : s = snaps[v]
    BY TypesOfEntries
  <2>2. \A j \in 1 .. Len(s) : s[j].timestamp \in Int
    <3>1. \A j \in 1 .. Len(s) : s[j] \in Entries
      OBVIOUS
    <3>2. \A e \in Entries : e.timestamp \in Int
      BY PowerNumbers DEF Entries
    <3>3. QED
      BY <3>1, <3>2
  <2>3. \A j, k \in 1 .. Len(s) : j < k => s[j].timestamp < s[k].timestamp
    BY <2>1 DEF SnapshotsInOrder
  <2>4. Len(s) \in Nat /\ hint + 1 \in 1 .. Len(s) /\ s[hint + 1].timestamp <= t
    BY <2>1, <2>2 DEF HintHolds, TooRecent
  <2>5. hint + 1 = Len(s) \/ (hint + 2 \in 1 .. Len(s) /\ s[hint + 2].timestamp > t)
    BY <2>1, <2>4 DEF HintHolds, TooRecent
  <2>6. CASE i <= hint + 1
    <3>1. i = hint + 1 \/ s[i].timestamp < s[hint + 1].timestamp
      BY <2>1, <2>3, <2>4, <2>6
    <3>2. QED
      BY <2>1, <2>2, <2>4, <2>6, <3>1
  <2>7. CASE ~(i <= hint + 1)
    <3>1. hint + 2 \in 1 .. Len(s) /\ s[hint + 2].timestamp > t
      BY <2>1, <2>4, <2>5, <2>7
    <3>2. i = hint + 2 \/ s[hint + 2].timestamp < s[i].timestamp
      BY <2>1, <2>3, <2>7, <3>1
    <3>3. s[i].timestamp \in Int /\ s[hint + 2].timestamp \in Int /\ t \in Int
      BY <2>1, <2>2, <3>1, PowerNumbers
    <3>4. s[i].timestamp > t
      BY <3>1, <3>2, <3>3
    <3>5. QED
      BY <2>1, <2>7, <3>3, <3>4
  <2>8. QED
    BY <2>6, <2>7
<1>2. QED
  BY <1>1, TypesHold, OrderHolds, PTL

\* Of a party that has a total from the start no more power is ever minted than it.
PowerWithinTotal == InitialTotal # 0 => total # 0 /\ minted <= total

\* mint() and addVotingPower() cut what they grant off at the total, which never shrinks.
THEOREM PowerIsWithinTotal == Spec => []PowerWithinTotal
<1>1. Init => PowerWithinTotal
  BY PowerNumbers DEF Init, PowerWithinTotal
<1>2. TypeOK /\ PowerWithinTotal /\ [Next]_vpVars => PowerWithinTotal'
  <2> SUFFICES ASSUME TypeOK, PowerWithinTotal, [Next]_vpVars, InitialTotal # 0
      PROVE  total' # 0 /\ minted' <= total'
    BY DEF PowerWithinTotal
  <2>0. minted \in Nat /\ total \in Nat \ {0} /\ minted <= total
    BY DEF TypeOK, PowerWithinTotal
  <2>1. ASSUME NEW n \in Nat PROVE Granted(n) \in Nat /\ minted + Granted(n) <= total
    BY <2>0 DEF Granted
  <2>2. ASSUME NEW a \in isAuthority, NEW v, NEW n \in Grants, NEW d, Mint(a, v, n, d)
        PROVE  total' # 0 /\ minted' <= total'
    BY <2>0, <2>1, <2>2, PowerNumbers DEF Mint
  <2>3. ASSUME NEW a \in isAuthority, NEW c, NEW n \in Grants, AddVotingPower(a, c, n)
        PROVE  total' # 0 /\ minted' <= total'
    BY <2>0, <2>1, <2>3, PowerNumbers DEF AddVotingPower
  <2>4. ASSUME NEW a \in isAuthority, NEW n \in Increases, IncreaseTotalVotingPower(a, n)
        PROVE  total' # 0 /\ minted' <= total'
    BY <2>0, <2>4, PowerNumbers DEF IncreaseTotalVotingPower, cardVars
  <2>5. ASSUME NEW s, NEW c \in Cards, Burn(s, c)
        PROVE  total' # 0 /\ minted' <= total'
    <3>1. cards[c].power \in Nat
      BY DEF TypeOK
    <3>2. minted' = minted - cards[c].power /\ total' = total
      BY <2>5 DEF Burn
    <3>3. QED
      BY <2>0, <3>1, <3>2
  <2>6. ASSUME UNCHANGED <<minted, total>>
        PROVE  total' # 0 /\ minted' <= total'
    BY <2>0, <2>6
  <2>7. QED
    BY <2>2, <2>3, <2>4, <2>5, <2>6
       DEF Next, TransferFrom, DelegateVotingPower, AddAuthority, AbdicateAuthority, Tick,
           cardVars, vpVars
<1>3. QED
  BY <1>1, <1>2, TypesHold, PTL DEF Spec

----------------------------------------------------------------------------
(* Running sums                                                            *)

\* A snapshot that is inserted is the last of its account; the others keep theirs.
LEMMA LastInserted ==
  ASSUME NEW ss \in [Accounts -> Seq(Entries)], NEW v \in Accounts,
         NEW e \in Entries, NEW u \in Accounts
  PROVE  LastSnap(Insert(ss, v, e), u) = IF u = v THEN e ELSE LastSnap(ss, u)
<1>1. Insert(ss, v, e) = [ss EXCEPT ![v] = Recorded(ss[v], e)]
  BY DEF Insert
<1>2. CASE u # v
  <2>1. Insert(ss, v, e)[u] = ss[u]
    BY <1>1, <1>2
  <2>2. QED
    BY <1>2, <2>1 DEF LastSnap
<1>3. CASE u = v
  <2>1. PICK r : r = Recorded(ss[v], e)
    OBVIOUS
  <2>2. Insert(ss, v, e)[u] = r
    BY <1>1, <1>3, <2>1
  <2>3. r \in Seq(Entries) /\ Len(r) \in Nat \ {0} /\ r[Len(r)] = e
    BY <2>1, RecordedEntries
  <2>4. r # <<>>
    BY <2>3, EmptySeq
  <2>5. QED
    BY <1>3, <2>2, <2>3, <2>4 DEF LastSnap, Last
<1>4. QED
  BY <1>2, <1>3

\* What rr says of account u, but for delta more of delegated power, is what ss says.
Delegates(ss, rr, u, delta) ==
  /\ LastSnap(rr, u).intrinsic = LastSnap(ss, u).intrinsic
  /\ LastSnap(rr, u).isDelegated = LastSnap(ss, u).isDelegated
  /\ LastSnap(rr, u).delegated = LastSnap(ss, u).delegated + delta

\* Redelegated changes the delegated power of one account.
LEMMA RedelegatedSum ==
  ASSUME now \in 0 .. MaxTime, NEW ss \in [Accounts -> Seq(Entries)],
         NEW v \in Accounts, NEW delta \in Int, NEW u \in Accounts
  PROVE  Delegates(ss, Redelegated(ss, v, delta), u, IF u = v THEN delta ELSE 0)
<1>1. PICK last \in Entries : last = LastSnap(ss, v)
  BY LastEntry
<1>2. PICK n \in Int : n = last.delegated + delta
  BY DEF Entries
<1>3. PICK e : e = [last EXCEPT !.timestamp = now, !.delegated = n]
  OBVIOUS
<1>4. e \in Entries
  BY <1>3 DEF Entries
<1>5. /\ e.intrinsic = last.intrinsic /\ e.isDelegated = last.isDelegated
      /\ e.delegated = last.delegated + delta
  BY <1>2, <1>3 DEF Entries
<1>6. Redelegated(ss, v, delta) = Insert(ss, v, e)
  BY <1>1, <1>2, <1>3 DEF Redelegated, Entries
<1>7. LastSnap(Insert(ss, v, e), u) = IF u = v THEN e ELSE LastSnap(ss, u)
  BY <1>4, LastInserted
<1>8. LastSnap(ss, u) \in Entries
  BY LastEntry
<1>9. LastSnap(ss, u).delegated \in Int
  BY <1>8 DEF Entries
<1>10. QED
  BY <1>1, <1>5, <1>6, <1>7, <1>9 DEF Delegates

\* What the delegated power of w gains when v moves from delegate from to delegate to,
\* and its power from before to after.
Gain(w, v, from, to, before, after) ==
  (IF w = to /\ to # v THEN after ELSE 0) - (IF w = from /\ from # v THEN before ELSE 0)

\* The old delegate loses what the voter had before, the new one gets what it has
\* after, be they one or two; a voter is no delegate of its own.
LEMMA RebalancedSum ==
  ASSUME now \in 0 .. MaxTime, NEW ss \in [Accounts -> Seq(Entries)],
         NEW v \in Accounts, NEW from \in Accounts, NEW to \in Accounts,
         NEW before \in Int, NEW after \in Int, NEW u \in Accounts
  PROVE  Delegates(ss, Rebalanced(ss, v, from, to, before, after), u,
                   Gain(u, v, from, to, before, after))
<1>0. PICK left : left = IF from \notin {v, to} THEN Redelegated(ss, from, -before) ELSE ss
  OBVIOUS
<1>1. -before \in Int /\ LastSnap(ss, u).delegated \in Int
  <2>1. LastSnap(ss, u) \in Entries
    BY LastEntry
  <2>2. QED
    BY <2>1 DEF Entries
<1>2. Delegates(ss, left, u, IF from \notin {v, to} /\ u = from THEN -before ELSE 0)
  <2>1. CASE from \notin {v, to}
    BY <1>0, <1>1, <2>1, RedelegatedSum
  <2>2. CASE from \in {v, to}
    BY <1>0, <1>1, <2>2 DEF Delegates
  <2>3. QED
    BY <2>1, <2>2
<1>3. left \in [Accounts -> Seq(Entries)]
  <2>1. AllWritten(ss, Redelegated(ss, from, -before))
    BY <1>1, RedelegatedWrites
  <2>2. QED
    BY <1>0, <2>1 DEF AllWritten
<1>4. PICK delta : delta = IF to = from THEN after - before ELSE after
  OBVIOUS
<1>40. delta \in Int
  BY <1>4
<1>5. Delegates(left, Redelegated(left, to, delta), u, IF u = to THEN delta ELSE 0)
  BY <1>3, <1>40, RedelegatedSum
<1>6. Rebalanced(ss, v, from, to, before, after)
        = IF to = v THEN left ELSE Redelegated(left, to, delta)
  BY <1>0, <1>4 DEF Rebalanced
<1>7. CASE to = v
  BY <1>1, <1>2, <1>6, <1>7 DEF Delegates, Gain
<1>8. CASE to # v
  <2>1. PICK rr : rr = Redelegated(left, to, delta)
    OBVIOUS
  <2>2. Delegates(left, rr, u, IF u = to THEN delta ELSE 0)
    BY <1>5, <2>1
  <2>3. Rebalanced(ss, v, from, to, before, after) = rr
    BY <1>6, <1>8, <2>1
  <2>4. /\ LastSnap(rr, u).intrinsic = LastSnap(ss, u).intrinsic
        /\ LastSnap(rr, u).isDelegated = LastSnap(ss, u).isDelegated
    BY <1>2, <2>2 DEF Delegates
  <2>5. PICK x \in Int : x = LastSnap(ss, u).delegated
    BY <1>1
  <2>6. LastSnap(rr, u).delegated
          = (x + IF from \notin {v, to} /\ u = from THEN -before ELSE 0)
              + IF u = to THEN delta ELSE 0
    BY <1>2, <2>2, <2>5 DEF Delegates
  <2>7. (x + IF from \notin {v, to} /\ u = from THEN -before ELSE 0)
              + (IF u = to THEN delta ELSE 0)
          = x + Gain(u, v, from, to, before, after)
    BY <1>4, <1>8 DEF Gain
  <2>8. QED
    BY <2>3, <2>4, <2>5, <2>6, <2>7 DEF Delegates
<1>9. QED
  BY <1>7, <1>8

\* Who delegates to v.
Delegating(ds, v) == {u \in Accounts \ {v} : ds[u] = v}

Powers == [Accounts -> Int]

\* The last snapshots of ss stand for the powers h of the accounts, delegated as ds says.
Matches(ss, ds, h) ==
  \A v \in Accounts :
    /\ LastSnap(ss, v).intrinsic = h[v]
    /\ LastSnap(ss, v).delegated = SumFunctionOnSet(h, Delegating(ds, v))
    /\ LastSnap(ss, v).isDelegated = (CurrentDelegate(ds, v) # v)

\* Powers g are powers h but for n more of account v.
Gained(h, g, v, n) ==
  h \in Powers /\ v \in Accounts /\ n \in Int /\ g = [h EXCEPT ![v] = @ + n]

\* So they are powers, and all of them together are n more.
LEMMA GainedSum ==
  ASSUME NEW h, NEW g, NEW v, NEW n, Gained(h, g, v, n)
  PROVE  /\ g \in Powers
         /\ SumFunctionOnSet(g, Accounts) = SumFunctionOnSet(h, Accounts) + n
<1>1. /\ \A x \in Accounts : h[x] \in Int /\ g[x] \in Int
      /\ \A x \in Accounts \ {v} : h[x] = g[x]
      /\ v \in Accounts /\ g[v] = h[v] + n /\ n \in Int
  BY DEF Gained, Powers
<1>2. g \in Powers
  BY <1>1 DEF Gained, Powers
<1>3. SumFunctionOnSet(g, Accounts) = SumFunctionOnSet(h, Accounts) + g[v] - h[v]
  BY <1>1, PowerAccounts, SumChange
<1>4. SumFunctionOnSet(h, Accounts) \in Int /\ h[v] \in Int
  BY <1>1, PowerAccounts, SumType
<1>5. QED
  BY <1>1, <1>2, <1>3, <1>4

\* _adjustVotingPower keeps the snapshots true: of the power it is told of, and of
\* whoever delegates to whom.
LEMMA AdjustedMatches ==
  ASSUME now \in 0 .. MaxTime, NEW l, l.snaps \in [Accounts -> Seq(Entries)],
         l.delegations \in Delegations,
         NEW h \in Powers, Matches(l.snaps, l.delegations, h),
         NEW v \in Accounts, NEW delta \in Int, NEW d \in Accounts \cup {None},
         NEW g, Gained(h, g, v, delta)
  PROVE  Matches(Adjusted(l, v, delta, d).snaps, Adjusted(l, v, delta, d).delegations, g)
<1>0. PICK s \in [Accounts -> Seq(Entries)], del \in Delegations :
        s = l.snaps /\ del = l.delegations
  OBVIOUS
<1>00. Matches(s, del, h)
  BY <1>0
<1>1. PICK from : from = CurrentDelegate(del, v)
  OBVIOUS
<1>2. PICK to : to = IF d = None THEN from ELSE d
  OBVIOUS
<1>3. from \in Accounts /\ to \in Accounts
  BY <1>1, <1>2 DEF CurrentDelegate, Delegations
<1>4. PICK old \in Entries : old = LastSnap(s, v)
  BY LastEntry
<1>5. PICK held \in Int : held = old.intrinsic + delta
  BY DEF Entries
<1>6. old.intrinsic = h[v] /\ h[v] \in Int
  BY <1>00, <1>4 DEF Matches, Powers
<1>7. PICK own : own = [old EXCEPT !.timestamp = now, !.intrinsic = held,
                                   !.isDelegated = (to # v)]
  OBVIOUS
<1>8. /\ own \in Entries
      /\ own.intrinsic = held /\ own.delegated = old.delegated /\ own.isDelegated = (to # v)
  BY <1>7 DEF Entries
<1>9. PICK ss : ss = Insert(s, v, own)
  OBVIOUS
<1>10. ss \in [Accounts -> Seq(Entries)]
  BY <1>7, <1>8, <1>9, InsertWrites DEF AllWritten, Entries
<1>11. PICK rr : rr = Rebalanced(ss, v, from, to, old.intrinsic, held)
  OBVIOUS
<1>12. PICK ds : ds = [del EXCEPT ![v] = to]
  OBVIOUS
<1>13. Adjusted(l, v, delta, d) = [snaps |-> rr, delegations |-> ds]
  BY <1>0, <1>1, <1>2, <1>4, <1>5, <1>7, <1>9, <1>11, <1>12 DEF Adjusted
<1>14. g = [h EXCEPT ![v] = held]
  BY <1>5, <1>6 DEF Powers, Gained
<1>16. ASSUME NEW u \in Accounts
       PROVE  /\ LastSnap(rr, u).intrinsic = g[u]
              /\ LastSnap(rr, u).delegated = SumFunctionOnSet(g, Delegating(ds, u))
              /\ LastSnap(rr, u).isDelegated = (CurrentDelegate(ds, u) # u)
  <2>1. LastSnap(ss, u) = IF u = v THEN own ELSE LastSnap(s, u)
    <3>1. own \in Entries
      BY <1>8
    <3>2. LastSnap(Insert(s, v, own), u) = IF u = v THEN own ELSE LastSnap(s, u)
      BY ONLY <3>1, s \in [Accounts -> Seq(Entries)], v \in Accounts, u \in Accounts, LastInserted
    <3>3. QED
      BY <1>9, <3>2
  <2>2. Delegates(ss, rr, u, Gain(u, v, from, to, old.intrinsic, held))
    BY <1>3, <1>6, <1>10, <1>11, RebalancedSum
  <2>3. LastSnap(rr, u).intrinsic = g[u]
    BY <1>00, <1>4, <1>8, <1>14, <2>1, <2>2 DEF Delegates, Matches, Powers
  <2>4. LastSnap(rr, u).isDelegated = (CurrentDelegate(ds, u) # u)
    <3>1. CurrentDelegate(ds, u) = IF u = v THEN to ELSE CurrentDelegate(del, u)
      BY <1>3, <1>12, PowerAccounts DEF CurrentDelegate, Delegations
    <3>2. LastSnap(rr, u).isDelegated = LastSnap(ss, u).isDelegated
      BY <2>2 DEF Delegates
    <3>3. CASE u = v
      BY <1>8, <2>1, <3>1, <3>2, <3>3
    <3>4. CASE u # v
      BY <1>00, <2>1, <3>1, <3>2, <3>4 DEF Matches
    <3>5. QED
      BY <3>3, <3>4
  <2>5. LastSnap(ss, u).delegated = SumFunctionOnSet(h, Delegating(del, u))
    BY <1>00, <1>4, <1>8, <2>1 DEF Matches
  <2>6. SumFunctionOnSet(g, Delegating(ds, u))
          = SumFunctionOnSet(h, Delegating(del, u)) + Gain(u, v, from, to, h[v], held)
    <3>1. PICK T \in SUBSET Accounts : T = Delegating(del, u)
      BY DEF Delegating
    <3>2. PICK U \in SUBSET Accounts : U = Delegating(ds, u)
      BY DEF Delegating
    <3>3. v \in T <=> u = from /\ from # v
      BY <1>1, <3>1, PowerAccounts DEF Delegating, CurrentDelegate, Delegations
    <3>4. v \in U <=> u = to /\ to # v
      BY <1>12, <3>2 DEF Delegating, Delegations
    <3>5. T \ {v} = U \ {v}
      BY <1>12, <3>1, <3>2 DEF Delegating, Delegations
    <3>6. /\ \A x \in Accounts : h[x] \in Int /\ g[x] \in Int
          /\ \A x \in Accounts \ {v} : h[x] = g[x]
          /\ g[v] = held
      BY <1>14 DEF Powers
    <3>7. Moves(h, g, v, T, U)
      BY <3>5, <3>6, PowerAccounts, FS_Subset DEF Moves
    <3>8. /\ SumFunctionOnSet(h, T) \in Int
          /\ SumFunctionOnSet(g, U) = SumFunctionOnSet(h, T)
                                         - (IF v \in T THEN h[v] ELSE 0)
                                         + (IF v \in U THEN g[v] ELSE 0)
      BY <3>7, SumMoved
    <3>9. SumFunctionOnSet(g, U)
            = SumFunctionOnSet(h, T) + Gain(u, v, from, to, h[v], held)
      BY <3>3, <3>4, <3>6, <3>8 DEF Gain
    <3>10. QED
      BY <3>1, <3>2, <3>9
  <2>7. LastSnap(rr, u).delegated = SumFunctionOnSet(g, Delegating(ds, u))
    BY <1>6, <2>2, <2>5, <2>6 DEF Delegates
  <2>8. QED
    BY <2>3, <2>4, <2>7
<1>17. QED
  <2>1. Matches(rr, ds, g)
    BY <1>16 DEF Matches
  <2>2. QED
    BY <1>13, <2>1

----------------------------------------------------------------------------
(* The power of cards                                                      *)

CardStates == [Cards -> [owner : Accounts \cup {None}, power : Nat]]

PowersOf(cs) == [c \in Cards |-> cs[c].power]

OwnedBy(cs, v) == {c \in Cards : cs[c].owner = v}

HeldIn(cs) == [v \in Accounts |-> SumFunctionOnSet(PowersOf(cs), OwnedBy(cs, v))]

AllPowerOf(cs) == SumFunctionOnSet(PowersOf(cs), Cards)

\* Card c changes, and no other.
OneCard(cs, ct, c) ==
  /\ cs \in CardStates /\ ct \in CardStates /\ c \in Cards
  /\ \A x \in Cards \ {c} : cs[x] = ct[x]

\* There are finitely many cards, and accounts hold whole numbers of power.
LEMMA HeldType ==
  ASSUME NEW cs \in CardStates
  PROVE  /\ IsFiniteSet(Cards)
         /\ HeldIn(cs) \in Powers
         /\ \A v \in Accounts : HeldIn(cs)[v] \in Nat
         /\ AllPowerOf(cs) \in Nat
<1>1. IsFiniteSet(Cards)
  BY PowerNumbers, FS_Interval DEF Cards
<1>2. \A c \in Cards : PowersOf(cs)[c] \in Nat
  BY DEF PowersOf, CardStates
<1>3. AllPowerOf(cs) \in Nat
  BY <1>1, <1>2, SumType DEF AllPowerOf
<1>4. ASSUME NEW v \in Accounts PROVE HeldIn(cs)[v] \in Nat
  <2>1. OwnedBy(cs, v) \subseteq Cards
    BY DEF OwnedBy
  <2>2. IsFiniteSet(OwnedBy(cs, v))
    BY <1>1, <2>1, FS_Subset
  <2>3. SumFunctionOnSet(PowersOf(cs), OwnedBy(cs, v)) \in Nat
    BY <1>2, <2>1, <2>2, SumType
  <2>4. QED
    BY <2>3 DEF HeldIn
<1>5. HeldIn(cs) \in Powers
  BY <1>4 DEF HeldIn, Powers
<1>6. QED
  BY <1>1, <1>3, <1>4, <1>5

\* What one card does to the power of its owners and to all power.
LEMMA OneCardSums ==
  ASSUME NEW cs, NEW ct, NEW c, OneCard(cs, ct, c)
  PROVE  /\ \A v \in Accounts :
              HeldIn(ct)[v] = HeldIn(cs)[v] - (IF cs[c].owner = v THEN cs[c].power ELSE 0)
                                            + (IF ct[c].owner = v THEN ct[c].power ELSE 0)
         /\ AllPowerOf(ct) = AllPowerOf(cs) - cs[c].power + ct[c].power
<1>0. cs \in CardStates /\ ct \in CardStates /\ c \in Cards
  BY DEF OneCard
<1>1. PICK f : f = PowersOf(cs)
  OBVIOUS
<1>2. PICK g : g = PowersOf(ct)
  OBVIOUS
<1>3. /\ \A x \in Cards : f[x] \in Int /\ g[x] \in Int
      /\ \A x \in Cards \ {c} : f[x] = g[x]
      /\ f[c] = cs[c].power /\ g[c] = ct[c].power
  BY <1>1, <1>2 DEF OneCard, PowersOf, CardStates
<1>4. ASSUME NEW v \in Accounts
      PROVE  HeldIn(ct)[v] = HeldIn(cs)[v] - (IF cs[c].owner = v THEN cs[c].power ELSE 0)
                                           + (IF ct[c].owner = v THEN ct[c].power ELSE 0)
  <2>1. PICK T \in SUBSET Cards : T = OwnedBy(cs, v)
    BY DEF OwnedBy
  <2>2. PICK U \in SUBSET Cards : U = OwnedBy(ct, v)
    BY DEF OwnedBy
  <2>3. T \ {c} = U \ {c}
    BY <2>1, <2>2 DEF OneCard, OwnedBy
  <2>4. Moves(f, g, c, T, U)
    BY <1>0, <1>3, <2>3, HeldType, FS_Subset DEF Moves
  <2>5. SumFunctionOnSet(g, U) = SumFunctionOnSet(f, T) - (IF c \in T THEN f[c] ELSE 0)
                                                        + (IF c \in U THEN g[c] ELSE 0)
    BY <2>4, SumMoved
  <2>6. (c \in T <=> cs[c].owner = v) /\ (c \in U <=> ct[c].owner = v)
    BY <1>0, <2>1, <2>2 DEF OwnedBy
  <2>7. HeldIn(ct)[v] = SumFunctionOnSet(g, U) /\ HeldIn(cs)[v] = SumFunctionOnSet(f, T)
    BY <1>1, <1>2, <2>1, <2>2 DEF HeldIn
  <2>8. QED
    BY <1>3, <2>5, <2>6, <2>7
<1>5. SumFunctionOnSet(g, Cards) = SumFunctionOnSet(f, Cards) + g[c] - f[c]
  BY <1>0, <1>3, HeldType, SumChange
<1>6. AllPowerOf(ct) = AllPowerOf(cs) - cs[c].power + ct[c].power
  <2>1. f[c] \in Int /\ g[c] \in Int /\ SumFunctionOnSet(f, Cards) \in Int
    BY <1>0, <1>1, <1>3, HeldType DEF AllPowerOf
  <2>2. QED
    BY <1>1, <1>2, <1>3, <1>5, <2>1 DEF AllPowerOf
<1>7. QED
  BY <1>4, <1>6

\* The card c changes hands or power: its old owner loses what it had, the new owner,
\* which may be the same, gets what it has.
LEMMA OneCardGained ==
  ASSUME NEW cs, NEW ct, NEW c, OneCard(cs, ct, c)
  PROVE  /\ ct[c].owner \in Accounts /\ cs[c].owner = None =>
              Gained(HeldIn(cs), HeldIn(ct), ct[c].owner, ct[c].power)
         /\ ct[c].owner = None /\ cs[c].owner \in Accounts =>
              Gained(HeldIn(cs), HeldIn(ct), cs[c].owner, -cs[c].power)
         /\ ct[c].owner = cs[c].owner /\ cs[c].owner \in Accounts =>
              Gained(HeldIn(cs), HeldIn(ct), cs[c].owner, ct[c].power - cs[c].power)
         /\ ct[c].power = cs[c].power /\ cs[c].owner \in Accounts /\ ct[c].owner \in Accounts =>
              \E h : /\ Gained(HeldIn(cs), h, cs[c].owner, -cs[c].power)
                    /\ Gained(h, HeldIn(ct), ct[c].owner, ct[c].power)
<1>1. PICK g : g = HeldIn(cs)
  OBVIOUS
<1>2. PICK k : k = HeldIn(ct)
  OBVIOUS
<1>3. g \in Powers /\ k \in Powers
  BY <1>1, <1>2, HeldType DEF OneCard
<1>4. PICK p \in Int : p = cs[c].power
  BY DEF OneCard, CardStates
<1>5. PICK q \in Int : q = ct[c].power
  BY DEF OneCard, CardStates
<1>6. PICK o : o = cs[c].owner
  OBVIOUS
<1>7. PICK w : w = ct[c].owner
  OBVIOUS
<1>8. \A v \in Accounts : k[v] = g[v] - (IF o = v THEN p ELSE 0) + (IF w = v THEN q ELSE 0)
  BY <1>1, <1>2, <1>4, <1>5, <1>6, <1>7, OneCardSums
<1>9. None \notin Accounts
  BY PowerAccounts
<1>10. w \in Accounts /\ o = None => Gained(g, k, w, q)
  BY <1>3, <1>8, <1>9 DEF Gained, Powers
<1>11. w = None /\ o \in Accounts => Gained(g, k, o, -p)
  BY <1>3, <1>8, <1>9 DEF Gained, Powers
<1>12. w = o /\ o \in Accounts => Gained(g, k, o, q - p)
  BY <1>3, <1>8 DEF Gained, Powers
<1>13. ASSUME p = q, o \in Accounts, w \in Accounts
       PROVE  \E h : Gained(g, h, o, -p) /\ Gained(h, k, w, q)
  <2>1. PICK h : h = [g EXCEPT ![o] = @ + (-p)]
    OBVIOUS
  <2>2. Gained(g, h, o, -p)
    BY <1>3, <1>13, <2>1 DEF Gained
  <2>3. h \in Powers
    BY <2>2, GainedSum
  <2>4. Gained(h, k, w, q)
    <3>1. \A v \in Accounts : g[v] \in Int /\ h[v] = IF v = o THEN g[v] - p ELSE g[v]
      BY <1>3, <2>1 DEF Powers
    <3>2. \A v \in Accounts : k[v] = IF v = w THEN h[v] + q ELSE h[v]
      BY <1>8, <1>13, <3>1
    <3>3. k = [h EXCEPT ![w] = @ + q]
      BY <1>3, <2>3, <3>2 DEF Powers
    <3>4. QED
      BY <1>13, <2>3, <1>3, <3>3 DEF Gained
  <2>5. QED
    BY <2>2, <2>4
<1>14. QED
  BY <1>1, <1>2, <1>4, <1>5, <1>6, <1>7, <1>10, <1>11, <1>12, <1>13

----------------------------------------------------------------------------
(* Binary search                                                           *)

\* The first k of the snapshots s, and they only, are up to time t.
Cut(s, t, k) ==
  /\ k \in 0 .. Len(s)
  /\ \A i \in 1 .. Len(s) : s[i].timestamp <= t <=> i <= k

\* Snapshots in order are cut by every time.
LEMMA CutExists ==
  ASSUME NEW s \in Seq(Entries), NEW t \in Int, NEW m, InOrder(s, m)
  PROVE  \E k : Cut(s, t, k)
<1>1. Len(s) \in Nat /\ \A i \in 1 .. Len(s) : s[i].timestamp \in Int
  <2>1. \A i \in 1 .. Len(s) : s[i] \in Entries
    OBVIOUS
  <2>2. \A e \in Entries : e.timestamp \in Int
    BY PowerNumbers DEF Entries
  <2>3. QED
    BY <2>1, <2>2
<1>2. PICK N : N = {n \in 0 .. Len(s) : n = Len(s) \/ s[n + 1].timestamp > t}
  OBVIOUS
<1>3. PICK k \in N : \A n \in N : k <= n
  <2>1. N \subseteq Nat /\ Len(s) \in N
    BY <1>1, <1>2
  <2>2. QED
    BY <2>1, LeastNatural
<1>4. k \in 0 .. Len(s) /\ (k = Len(s) \/ s[k + 1].timestamp > t)
  BY <1>2, <1>3
<1>5. ASSUME NEW i \in 1 .. Len(s), i <= k PROVE s[i].timestamp <= t
  <2>1. i - 1 \notin N
    BY <1>3, <1>4, <1>5, <1>1
  <2>2. i - 1 \in 0 .. Len(s) /\ i - 1 # Len(s) /\ (i - 1) + 1 = i
    BY <1>1
  <2>3. QED
    BY <1>1, <1>2, <2>1, <2>2
<1>6. ASSUME NEW i \in 1 .. Len(s), k < i PROVE s[i].timestamp > t
  <2>1. k + 1 \in 1 .. Len(s) /\ s[k + 1].timestamp > t
    BY <1>1, <1>4, <1>6
  <2>2. k + 1 = i \/ s[k + 1].timestamp < s[i].timestamp
    BY <1>1, <1>4, <1>6, <2>1 DEF InOrder
  <2>3. QED
    BY <1>1, <2>1, <2>2
<1>7. ASSUME NEW i \in 1 .. Len(s) PROVE s[i].timestamp <= t <=> i <= k
  BY <1>1, <1>4, <1>5, <1>6
<1>8. QED
  BY <1>4, <1>7 DEF Cut

\* One step of the binary search from the range r.
SearchStep(s, t, search, r) ==
  LET low == r[1]
      high == r[2]
      mid == (low + high) \div 2
  IN  IF low >= high THEN high
      ELSE IF TooRecent(s, mid, t) THEN search[<<low, mid>>]
      ELSE search[<<mid + 1, high>>]

Ranges(s) == (0 .. Len(s)) \X (0 .. Len(s))

\* What the search finds in a range: the cut, or the end nearest to it.
Nearest(k, r) ==
  IF r[1] >= r[2] \/ k > r[2] THEN r[2] ELSE IF k < r[1] THEN r[1] ELSE k

\* A step of the search is right if the searches of shorter ranges are: the middle
\* belongs to the side that it is compared to be on.
LEMMA StepFindsNearest ==
  ASSUME NEW s \in Seq(Entries), NEW t \in Int, NEW k, Cut(s, t, k), NEW f,
         NEW low \in 0 .. Len(s), NEW high \in 0 .. Len(s),
         \A r \in Ranges(s) : r[2] - r[1] < high - low => f[r] = Nearest(k, r)
  PROVE  SearchStep(s, t, f, <<low, high>>) = Nearest(k, <<low, high>>)
<1>1. Len(s) \in Nat /\ k \in 0 .. Len(s)
  BY DEF Cut
<1>2. \A i \in 1 .. Len(s) : s[i].timestamp \in Int
  <2>1. \A i \in 1 .. Len(s) : s[i] \in Entries
    OBVIOUS
  <2>2. \A e \in Entries : e.timestamp \in Int
    BY PowerNumbers DEF Entries
  <2>3. QED
    BY <2>1, <2>2
<1>3. CASE low >= high
  BY <1>3 DEF SearchStep, Nearest
<1>4. CASE low < high
  <2>1. PICK mid \in Int : mid = (low + high) \div 2 /\ low <= mid /\ mid < high
    BY <1>1, <1>4
  <2>2. mid + 1 \in 1 .. Len(s)
    BY <1>1, <2>1
  <2>3. TooRecent(s, mid, t) <=> k <= mid
    <3>1. s[mid + 1].timestamp <= t <=> mid + 1 <= k
      BY <2>2 DEF Cut
    <3>2. s[mid + 1].timestamp \in Int
      BY <1>2, <2>2
    <3>3. QED
      BY <1>1, <2>1, <3>1, <3>2 DEF TooRecent
  <2>4. SearchStep(s, t, f, <<low, high>>)
          = IF TooRecent(s, mid, t) THEN f[<<low, mid>>] ELSE f[<<mid + 1, high>>]
    BY <1>4, <2>1 DEF SearchStep
  <2>5. CASE k <= mid
    <3>1. <<low, mid>> \in Ranges(s) /\ mid - low < high - low
      BY <1>1, <2>1 DEF Ranges
    <3>2. f[<<low, mid>>] = Nearest(k, <<low, mid>>)
      BY <3>1
    <3>3. Nearest(k, <<low, mid>>) = Nearest(k, <<low, high>>)
      BY <1>1, <1>4, <2>1, <2>5 DEF Nearest
    <3>4. QED
      BY <2>3, <2>4, <2>5, <3>2, <3>3
  <2>6. CASE mid < k
    <3>1. <<mid + 1, high>> \in Ranges(s) /\ high - (mid + 1) < high - low
      BY <1>1, <2>1, <2>2 DEF Ranges
    <3>2. f[<<mid + 1, high>>] = Nearest(k, <<mid + 1, high>>)
      BY <3>1
    <3>3. Nearest(k, <<mid + 1, high>>) = Nearest(k, <<low, high>>)
      BY <1>1, <1>4, <2>1, <2>6 DEF Nearest
    <3>4. QED
      BY <1>1, <2>1, <2>3, <2>4, <2>6, <3>2, <3>3
  <2>7. QED
    BY <1>1, <2>1, <2>5, <2>6
<1>5. QED
  BY <1>3, <1>4

\* findVotingPowerSnapshotIndex finds the cut.  There is a function that its recursion
\* defines, namely the nearest index, and there is no other: of two, take the shortest
\* range on which they differ.
LEMMA FoundIsCut ==
  ASSUME NEW s \in Seq(Entries), NEW t \in Int, NEW k, Cut(s, t, k)
  PROVE  FindIndex(s, t) = k
<1> DEFINE Recursion(f) == f = [r \in Ranges(s) |-> SearchStep(s, t, f, r)]
<1>0. Len(s) \in Nat /\ k \in 0 .. Len(s)
  BY DEF Cut
<1>1. \A r \in Ranges(s) : /\ r = <<r[1], r[2]>>
                           /\ r[1] \in 0 .. Len(s) /\ r[2] \in 0 .. Len(s)
  BY DEF Ranges
<1>2. \E f : Recursion(f)
  <2>1. PICK f : f = [r \in Ranges(s) |-> Nearest(k, r)]
    OBVIOUS
  <2>2. ASSUME NEW r \in Ranges(s) PROVE f[r] = SearchStep(s, t, f, r)
    <3>1. PICK low \in 0 .. Len(s), high \in 0 .. Len(s) : r = <<low, high>>
      BY <1>1
    <3>2. SearchStep(s, t, f, <<low, high>>) = Nearest(k, <<low, high>>)
      BY <2>1, StepFindsNearest
    <3>3. QED
      BY <2>1, <3>1, <3>2
  <2>3. QED
    BY <2>1, <2>2
<1>3. PICK f : Recursion(f) /\ FindIndex(s, t) = f[<<0, Len(s)>>]
  BY <1>2 DEF FindIndex, SearchStep, Ranges
<1>4. ASSUME NEW r \in Ranges(s) PROVE f[r] = Nearest(k, r)
  <2> DEFINE Size(q) == IF q[2] < q[1] THEN 0 ELSE q[2] - q[1]
  <2>0. \A q \in Ranges(s) : Size(q) \in Nat
    BY <1>0, <1>1
  <2> HIDE DEF Size
  <2>1. PICK N : N = {n \in Nat : \E q \in Ranges(s) : f[q] # Nearest(k, q) /\ n = Size(q)}
    OBVIOUS
  <2>2. SUFFICES ASSUME N # {} PROVE FALSE
    BY <2>0, <2>1
  <2>3. PICK n \in N : \A m \in N : n <= m
    <3>1. N \subseteq Nat
      BY <2>1
    <3>2. QED
      BY <2>2, <3>1, LeastNatural
  <2>4. PICK low \in 0 .. Len(s), high \in 0 .. Len(s) :
          /\ f[<<low, high>>] # Nearest(k, <<low, high>>)
          /\ n = Size(<<low, high>>)
    <3>1. PICK q \in Ranges(s) : f[q] # Nearest(k, q) /\ n = Size(q)
      BY <2>1, <2>3
    <3>2. PICK low \in 0 .. Len(s), high \in 0 .. Len(s) : q = <<low, high>>
      BY DEF Ranges
    <3>3. f[<<low, high>>] # Nearest(k, <<low, high>>) /\ n = Size(<<low, high>>)
      BY <3>1, <3>2, Zenon
    <3>4. QED
      BY <3>3, Zenon
  <2>5. low < high
    <3>1. SUFFICES ASSUME low >= high PROVE FALSE
      BY <1>0
    <3>2. <<low, high>> \in Ranges(s)
      BY DEF Ranges
    <3>3. f[<<low, high>>] = SearchStep(s, t, f, <<low, high>>)
      BY <1>3, <3>2
    <3>4. QED
      BY <2>4, <3>1, <3>3 DEF SearchStep, Nearest
  <2>6. \A q \in Ranges(s) : q[2] - q[1] < high - low => f[q] = Nearest(k, q)
    <3> SUFFICES ASSUME NEW q \in Ranges(s), q[2] - q[1] < high - low, f[q] # Nearest(k, q)
                 PROVE  FALSE
      OBVIOUS
    <3>1. Size(q) \in N
      BY <2>0, <2>1
    <3>2. Size(<<low, high>>) <= Size(q)
      BY <2>3, <2>4, <3>1
    <3>3. QED
      BY <1>0, <1>1, <2>5, <3>2 DEF Size
  <2>7. f[<<low, high>>] = SearchStep(s, t, f, <<low, high>>)
    BY <1>3 DEF Ranges
  <2>8. QED
    BY <2>4, <2>6, <2>7, StepFindsNearest
<1>5. <<0, Len(s)>> \in Ranges(s)
  BY <1>0 DEF Ranges
<1>6. Nearest(k, <<0, Len(s)>>) = k
  BY <1>0 DEF Nearest
<1>7. QED
  BY <1>3, <1>4, <1>5, <1>6

\* What is looked for, in terms of the cut.
LEMMA LatestOfCut ==
  ASSUME NEW s \in Seq(Entries), NEW t \in Int, NEW k, Cut(s, t, k),
         NEW upTo, upTo = {i \in DOMAIN s : s[i].timestamp <= t}
  PROVE  /\ upTo = {} <=> k = 0
         /\ k # 0 => Max(upTo) = k
<1>1. Len(s) \in Nat /\ DOMAIN s = 1 .. Len(s) /\ k \in 0 .. Len(s)
  BY DEF Cut
<1>2. \A i : i \in upTo <=> i \in 1 .. k
  BY <1>1 DEF Cut
<1>3. k # 0 => Max(upTo) = k
  <2>1. SUFFICES ASSUME k # 0 PROVE Max(upTo) = k
    OBVIOUS
  <2>2. k \in upTo /\ \A y \in upTo : k >= y
    BY <1>1, <1>2, <2>1
  <2>3. \A x \in upTo : (\A y \in upTo : x >= y) => x = k
    BY <1>1, <1>2, <2>2
  <2>4. QED
    BY <2>2, <2>3 DEF Max
<1>4. QED
  BY <1>1, <1>2, <1>3

\* An offered index that passes the check is that of the cut.
LEMMA HintIsCut ==
  ASSUME NEW s \in Seq(Entries), NEW t \in Int, NEW k, Cut(s, t, k), NEW hint \in Nat,
         HintHolds(s, t, hint)
  PROVE  hint + 1 = k
<1>1. Len(s) \in Nat /\ k \in 0 .. Len(s)
  BY DEF Cut
<1>2. \A i \in 1 .. Len(s) : s[i].timestamp \in Int
  <2>1. \A i \in 1 .. Len(s) : s[i] \in Entries
    OBVIOUS
  <2>2. \A e \in Entries : e.timestamp \in Int
    BY PowerNumbers DEF Entries
  <2>3. QED
    BY <2>1, <2>2
<1>3. hint + 1 \in 1 .. Len(s) /\ s[hint + 1].timestamp <= t
  BY <1>1, <1>2 DEF HintHolds, TooRecent
<1>4. hint + 1 <= k
  BY <1>3 DEF Cut
<1>5. CASE hint = Len(s) - 1
  BY <1>1, <1>4, <1>5
<1>6. CASE hint # Len(s) - 1
  <2>1. hint + 2 \in 1 .. Len(s) /\ (hint + 1) + 1 = hint + 2
    BY <1>1, <1>3, <1>6
  <2>2. s[hint + 2].timestamp > t
    BY <1>6, <2>1 DEF HintHolds, TooRecent
  <2>3. ~(hint + 2 <= k)
    BY <1>2, <2>1, <2>2 DEF Cut
  <2>4. QED
    BY <1>1, <1>4, <2>3
<1>7. QED
  BY <1>5, <1>6

\* Of snapshots in order, the search and a verified hint give the latest up to t.
LEMMA SnapshotOfCut ==
  ASSUME NEW s \in Seq(Entries), NEW t \in Int, NEW k, Cut(s, t, k), NEW hint \in Nat
  PROVE  SnapshotAt(s, t, hint) = IF k = 0 THEN NoSnap ELSE s[k]
<1>1. CASE HintHolds(s, t, hint)
  <2>1. hint + 1 = k
    BY <1>1, HintIsCut
  <2>2. k # 0
    BY <2>1
  <2>3. QED
    BY <1>1, <2>1, <2>2 DEF SnapshotAt
<1>2. CASE ~HintHolds(s, t, hint)
  <2>1. FindIndex(s, t) = k
    BY FoundIsCut
  <2>2. QED
    BY <1>2, <2>1 DEF SnapshotAt
<1>3. QED
  BY <1>1, <1>2

\* getVotingPowerAt reads the latest snapshot up to the time it is asked for, by binary
\* search or from the caller's index, whatever the history and the index.
THEOREM SearchIsRight == Spec => []SearchFindsLatest
<1>1. ASSUME TypeOK, SnapshotsInOrder, NEW v \in Accounts, NEW t \in 0 .. MaxTime
      PROVE  LET upTo == {i \in DOMAIN snaps[v] : snaps[v][i].timestamp <= t}
             IN  \A hint \in 0 .. Len(snaps[v]) + 1 :
                   SnapshotAt(snaps[v], t, hint)
                     = IF upTo = {} THEN NoSnap ELSE snaps[v][Max(upTo)]
  <2>1. PICK s \in Seq(Entries) : s = snaps[v]
    BY <1>1, TypesOfEntries
  <2>2. t \in Int /\ \A hint \in 0 .. Len(s) + 1 : hint \in Nat
    BY PowerNumbers
  <2>3. InOrder(s, now)
    BY <1>1, <2>1, TypesOfEntries, OrderOfAccounts DEF SnapshotsInOrder
  <2>4. PICK k : Cut(s, t, k)
    BY <2>2, <2>3, CutExists
  <2>5. PICK upTo : upTo = {i \in DOMAIN s : s[i].timestamp <= t}
    OBVIOUS
  <2>6. (upTo = {} <=> k = 0) /\ (k # 0 => Max(upTo) = k)
    BY <2>2, <2>4, <2>5, LatestOfCut
  <2>7. ASSUME NEW hint \in 0 .. Len(s) + 1
        PROVE  SnapshotAt(s, t, hint) = IF upTo = {} THEN NoSnap ELSE s[Max(upTo)]
    <3>1. SnapshotAt(s, t, hint) = IF k = 0 THEN NoSnap ELSE s[k]
      BY <2>2, <2>4, SnapshotOfCut
    <3>2. QED
      BY <2>6, <3>1
  <2>8. QED
    BY <2>1, <2>5, <2>7, Zenon
<1>2. TypeOK /\ SnapshotsInOrder => SearchFindsLatest
  BY <1>1, Zenon DEF SearchFindsLatest
<1>3. QED
  BY <1>2, TypesHold, OrderHolds, PTL

----------------------------------------------------------------------------
(* Snapshots, cards and what was minted                                    *)

\* The last snapshots stand for the cards.
LedgerTrue == Matches(snaps, delegations, HeldIn(cards))

\* What was minted is the power of all cards, and that of all owners.
AllHeld ==
  /\ minted = AllPowerOf(cards)
  /\ minted = SumFunctionOnSet(HeldIn(cards), Accounts)

\* A card that was not minted yet is nobody's.
Unminted == \A c \in Cards : c > tokenCount => cards[c] = NoCard

PowerInvariant == LedgerTrue /\ AllHeld /\ Unminted

\* The state's parts as the lemmas on sums name them.
LEMMA SumsOfState ==
  ASSUME TypeOK
  PROVE  /\ cards \in CardStates
         /\ PowerOfCard = PowersOf(cards)
         /\ Held = HeldIn(cards)
         /\ \A v \in Accounts : PowerHeld(v) = HeldIn(cards)[v]
         /\ SumFunction(PowerOfCard) = AllPowerOf(cards)
<1>1. cards \in CardStates
  BY DEF TypeOK, CardStates
<1>2. PowerOfCard = PowersOf(cards)
  BY DEF PowerOfCard, PowersOf
<1>3. \A v : CardsOf(v) = OwnedBy(cards, v)
  BY DEF CardsOf, OwnedBy
<1>4. \A v : PowerHeld(v) = SumFunctionOnSet(PowersOf(cards), OwnedBy(cards, v))
  BY <1>2, <1>3 DEF PowerHeld
<1>5. Held = HeldIn(cards)
  BY <1>4, Zenon DEF Held, HeldIn
<1>6. \A v \in Accounts : PowerHeld(v) = HeldIn(cards)[v]
  BY <1>4 DEF HeldIn
<1>7. DOMAIN PowersOf(cards) = Cards
  BY DEF PowersOf
<1>8. SumFunction(PowerOfCard) = AllPowerOf(cards)
  BY <1>2, <1>7, Zenon DEF SumFunction, SumFunctionOnSet, FoldFunction, AllPowerOf
<1>9. QED
  BY <1>1, <1>2, <1>5, <1>6, <1>8

\* One adjustment follows one gain.
LEMMA AdjustmentMatches ==
  ASSUME TypeOK, LedgerTrue, NEW v \in Accounts, NEW n \in Int, NEW d \in Accounts \cup {None},
         AdjustTo(Adjusted(Ledger, v, n, d)), NEW g, Gained(HeldIn(cards), g, v, n)
  PROVE  Matches(snaps', delegations', g)
<1>1. PICK h \in Powers : h = HeldIn(cards)
  BY SumsOfState, HeldType
<1>2. PICK l : l = Ledger
  OBVIOUS
<1>3. /\ now \in 0 .. MaxTime /\ l.snaps \in [Accounts -> Seq(Entries)]
      /\ l.delegations \in Delegations /\ Matches(l.snaps, l.delegations, h)
  BY <1>1, <1>2, TypesOfEntries DEF LedgerTrue
<1>4. Matches(Adjusted(l, v, n, d).snaps, Adjusted(l, v, n, d).delegations, g)
  BY <1>1, <1>3, AdjustedMatches
<1>5. QED
  BY <1>2, <1>4 DEF AdjustTo

\* The two adjustments of a transfer follow the loss of one account and the gain of another.
LEMMA MoveMatches ==
  ASSUME TypeOK, LedgerTrue, NEW from \in Accounts, NEW to \in Accounts, NEW power \in Int,
         AdjustTo(Moved(from, to, power)),
         NEW h, Gained(HeldIn(cards), h, from, -power), NEW g, Gained(h, g, to, power)
  PROVE  Matches(snaps', delegations', g)
<1>1. PICK k \in Powers : k = HeldIn(cards)
  BY SumsOfState, HeldType
<1>2. PICK l : l = Ledger
  OBVIOUS
<1>3. /\ now \in 0 .. MaxTime /\ l.snaps \in [Accounts -> Seq(Entries)]
      /\ l.delegations \in Delegations /\ Matches(l.snaps, l.delegations, k)
      /\ -power \in Int
  BY <1>1, <1>2, TypesOfEntries DEF LedgerTrue
<1>4. PICK m : m = Adjusted(l, from, -power, None)
  OBVIOUS
<1>5. /\ m.snaps \in [Accounts -> Seq(Entries)] /\ m.delegations \in Delegations
  BY <1>3, <1>4, AdjustedWrites DEF AllWritten
<1>6. Matches(m.snaps, m.delegations, h) /\ h \in Powers
  BY <1>1, <1>3, <1>4, AdjustedMatches, GainedSum
<1>7. Matches(Adjusted(m, to, power, None).snaps, Adjusted(m, to, power, None).delegations, g)
  BY <1>3, <1>5, <1>6, AdjustedMatches
<1>8. QED
  BY <1>2, <1>4, <1>7 DEF AdjustTo, Moved

\* A card that is given, burned or given power: one account gains, and all power with it.
LEMMA CardStep ==
  ASSUME TypeOK, TypeOK', PowerInvariant, NEW c, OneCard(cards, cards', c),
         NEW v \in Accounts, NEW n \in Int, NEW d \in Accounts \cup {None},
         Gained(HeldIn(cards), HeldIn(cards'), v, n),
         n = cards'[c].power - cards[c].power, minted' = minted + n,
         AdjustTo(Adjusted(Ledger, v, n, d))
  PROVE  LedgerTrue' /\ AllHeld'
<1>1. PICK g : g = HeldIn(cards')
  OBVIOUS
<1>2. Matches(snaps', delegations', g)
  BY <1>1, AdjustmentMatches DEF PowerInvariant
<1>3. SumFunctionOnSet(g, Accounts) = minted + n
  BY <1>1, GainedSum DEF PowerInvariant, AllHeld
<1>4. PICK p \in Int, q \in Int : p = cards[c].power /\ q = cards'[c].power /\ n = q - p
  BY DEF OneCard, CardStates
<1>5. AllPowerOf(cards') = minted - p + q /\ minted \in Int
  <2>1. PICK ct : ct = cards'
    OBVIOUS
  <2>2. AllPowerOf(ct) = AllPowerOf(cards) - cards[c].power + ct[c].power
    BY ONLY OneCard(cards, cards', c), <2>1, OneCardSums
  <2>3. ct[c].power = q
    BY <1>4, <2>1
  <2>4. minted = AllPowerOf(cards) /\ minted \in Int
    BY DEF PowerInvariant, AllHeld, TypeOK
  <2>5. QED
    BY <1>4, <2>1, <2>2, <2>3, <2>4
<1>6. AllPowerOf(cards') = minted + n
  BY <1>4, <1>5
<1>7. QED
  BY <1>1, <1>2, <1>3, <1>6 DEF LedgerTrue, AllHeld

\* A transfer: one account loses what the other gains.
LEMMA TransferStep ==
  ASSUME TypeOK, TypeOK', PowerInvariant, NEW c, OneCard(cards, cards', c),
         NEW from \in Accounts, from = cards[c].owner,
         NEW to \in Accounts, to = cards'[c].owner,
         NEW power \in Int, power = cards[c].power, power = cards'[c].power,
         minted' = minted, AdjustTo(Moved(from, to, power))
  PROVE  LedgerTrue' /\ AllHeld'
<1>1. PICK g : g = HeldIn(cards')
  OBVIOUS
<1>2. PICK h : Gained(HeldIn(cards), h, from, -power) /\ Gained(h, g, to, power)
  BY <1>1, OneCardGained
<1>3. Matches(snaps', delegations', g)
  BY <1>2, MoveMatches DEF PowerInvariant
<1>4. PICK k : k = HeldIn(cards)
  OBVIOUS
<1>5. /\ SumFunctionOnSet(h, Accounts) = SumFunctionOnSet(k, Accounts) + (-power)
      /\ SumFunctionOnSet(g, Accounts) = SumFunctionOnSet(h, Accounts) + power
  BY <1>2, <1>4, GainedSum
<1>6. minted \in Int
  BY DEF TypeOK
<1>7. SumFunctionOnSet(g, Accounts) = minted
  BY <1>4, <1>5, <1>6 DEF PowerInvariant, AllHeld
<1>8. AllPowerOf(cards') = AllPowerOf(cards) - cards[c].power + cards'[c].power
  <2>1. PICK ct : ct = cards'
    OBVIOUS
  <2>2. AllPowerOf(ct) = AllPowerOf(cards) - cards[c].power + ct[c].power
    BY ONLY OneCard(cards, cards', c), <2>1, OneCardSums
  <2>3. QED
    BY <2>1, <2>2
<1>9. AllPowerOf(cards') = minted
  <2>1. AllPowerOf(cards') = minted - power + power
    BY <1>8 DEF PowerInvariant, AllHeld
  <2>2. QED
    BY <1>6, <2>1
<1>10. QED
  BY <1>1, <1>3, <1>7, <1>9 DEF LedgerTrue, AllHeld

\* Every step keeps the snapshots, the cards and what was minted in agreement.
LEMMA PowerStep ==
  ASSUME TypeOK, TypeOK', PowerInvariant, [Next]_vpVars
  PROVE  PowerInvariant'
<1>0. /\ cards \in CardStates /\ cards' \in CardStates
      /\ minted \in Nat /\ total \in Nat /\ tokenCount \in Nat
      /\ \A c \in Cards : cards[c].power \in Nat
      /\ \A v \in Accounts : delegations[v] \in Accounts \cup {None}
      /\ None \notin Accounts
  BY PowerNumbers, PowerAccounts DEF TypeOK, CardStates
<1>00. ASSUME NEW n \in Grants PROVE Granted(n) \in Int
  BY <1>0, PowerNumbers DEF Granted
<1>000. ASSUME UNCHANGED powerVars, UNCHANGED cardVars
        PROVE  PowerInvariant'
  BY <1>000 DEF powerVars, cardVars, PowerInvariant, LedgerTrue, AllHeld, Unminted
<1>1. ASSUME NEW a \in isAuthority, NEW v \in Accounts, NEW n \in Grants,
             NEW d \in Accounts \cup {None}, Mint(a, v, n, d)
      PROVE  PowerInvariant'
  <2>1. PICK e : e = IF delegations[v] # None THEN delegations[v] ELSE d
    OBVIOUS
  <2>2. PICK m \in Int : m = Granted(n)
    BY <1>00
  <2>3. PICK c : c = tokenCount + 1
    OBVIOUS
  <2>4. /\ c \in Cards /\ tokenCount' = c /\ minted' = minted + m
        /\ cards' = [cards EXCEPT ![c] = [owner |-> v, power |-> m]]
        /\ AdjustTo(Adjusted(Ledger, v, m, e)) /\ e \in Accounts \cup {None}
    BY <1>0, <1>1, <2>1, <2>2, <2>3 DEF Mint
  <2>5. cards[c] = NoCard
    BY <1>0, <2>3, <2>4 DEF PowerInvariant, Unminted
  <2>6. /\ OneCard(cards, cards', c)
        /\ cards[c].owner = None /\ cards[c].power = 0
        /\ cards'[c].owner = v /\ cards'[c].power = m
    BY <1>0, <2>4, <2>5 DEF OneCard, NoCard, CardStates
  <2>7. Gained(HeldIn(cards), HeldIn(cards'), v, m)
    BY <2>6, OneCardGained
  <2>8. m = cards'[c].power - cards[c].power
    BY <2>6
  <2>9. LedgerTrue' /\ AllHeld'
    BY <2>4, <2>6, <2>7, <2>8, CardStep
  <2>10. Unminted'
    BY <1>0, <2>3, <2>4, PowerNumbers DEF PowerInvariant, Unminted, Cards, CardStates
  <2>11. QED
    BY <2>9, <2>10 DEF PowerInvariant
<1>2. ASSUME NEW a \in isAuthority, NEW c \in Cards, NEW n \in Grants, AddVotingPower(a, c, n)
      PROVE  PowerInvariant'
  <2>1. PICK m \in Int : m = Granted(n)
    BY <1>00
  <2>2. PICK v : v = cards[c].owner
    OBVIOUS
  <2>3. /\ v \in Accounts /\ minted' = minted + m
        /\ cards' = [cards EXCEPT ![c].power = @ + m]
        /\ AdjustTo(Adjusted(Ledger, v, m, None)) /\ UNCHANGED tokenCount
    BY <1>0, <1>2, <2>1, <2>2 DEF AddVotingPower, CardStates
  <2>4. /\ OneCard(cards, cards', c)
        /\ cards'[c].owner = v /\ cards'[c].power = cards[c].power + m
    BY <1>0, <2>2, <2>3 DEF OneCard, CardStates
  <2>5. m = cards'[c].power - cards[c].power
    BY <1>0, <2>4
  <2>6. Gained(HeldIn(cards), HeldIn(cards'), v, m)
    BY <2>2, <2>3, <2>4, <2>5, OneCardGained
  <2>7. LedgerTrue' /\ AllHeld'
    BY <2>3, <2>4, <2>5, <2>6, CardStep
  <2>8. Unminted'
    BY <1>0, <2>2, <2>3, <2>4 DEF PowerInvariant, Unminted, NoCard, OneCard
  <2>9. QED
    BY <2>7, <2>8 DEF PowerInvariant
<1>3. ASSUME NEW s, NEW c \in Cards, Burn(s, c)
      PROVE  PowerInvariant'
  <2>1. PICK m \in Int : m = -cards[c].power
    BY <1>0
  <2>2. PICK v : v = cards[c].owner
    OBVIOUS
  <2>3. /\ v \in Accounts /\ minted' = minted + m
        /\ cards' = [cards EXCEPT ![c] = NoCard]
        /\ AdjustTo(Adjusted(Ledger, v, m, None)) /\ UNCHANGED tokenCount
    BY <1>0, <1>3, <2>1, <2>2 DEF Burn, CardStates
  <2>4. /\ OneCard(cards, cards', c)
        /\ cards'[c].owner = None /\ cards'[c].power = 0
    BY <1>0, <2>2, <2>3 DEF OneCard, CardStates, NoCard
  <2>5. m = cards'[c].power - cards[c].power
    BY <1>0, <2>1, <2>4
  <2>6. Gained(HeldIn(cards), HeldIn(cards'), v, m)
    BY <2>1, <2>2, <2>3, <2>4, OneCardGained
  <2>7. LedgerTrue' /\ AllHeld'
    BY <2>3, <2>4, <2>5, <2>6, CardStep
  <2>8. Unminted'
    BY <1>0, <2>3 DEF PowerInvariant, Unminted, CardStates
  <2>9. QED
    BY <2>7, <2>8 DEF PowerInvariant
<1>4. ASSUME NEW c \in Cards, NEW to \in Accounts, TransferFrom(c, to)
      PROVE  PowerInvariant'
  <2>1. PICK from : from = cards[c].owner
    OBVIOUS
  <2>2. PICK m \in Int : m = cards[c].power
    BY <1>0
  <2>3. /\ from \in Accounts /\ minted' = minted
        /\ cards' = [cards EXCEPT ![c].owner = to]
        /\ AdjustTo(Moved(from, to, m)) /\ UNCHANGED tokenCount
    BY <1>0, <1>4, <2>1, <2>2 DEF TransferFrom, CardStates
  <2>4. /\ OneCard(cards, cards', c)
        /\ cards'[c].owner = to /\ cards'[c].power = m
    BY <1>0, <2>2, <2>3 DEF OneCard, CardStates
  <2>5. LedgerTrue' /\ AllHeld'
    BY <2>1, <2>2, <2>3, <2>4, TransferStep
  <2>6. Unminted'
    BY <1>0, <2>1, <2>3, <2>4 DEF PowerInvariant, Unminted, NoCard, OneCard
  <2>7. QED
    BY <2>5, <2>6 DEF PowerInvariant
<1>5. ASSUME NEW v \in Accounts, NEW d \in Accounts \cup {None}, DelegateVotingPower(v, d)
      PROVE  PowerInvariant'
  <2>1. AdjustTo(Adjusted(Ledger, v, 0, d)) /\ UNCHANGED <<cards, tokenCount, minted>>
    BY <1>5 DEF DelegateVotingPower, cardVars
  <2>2. Gained(HeldIn(cards), HeldIn(cards), v, 0)
    <3>1. PICK g \in Powers : g = HeldIn(cards)
      BY <1>0, HeldType
    <3>2. g = [g EXCEPT ![v] = @ + 0]
      BY DEF Powers
    <3>3. QED
      BY <3>1, <3>2 DEF Gained
  <2>3. Matches(snaps', delegations', HeldIn(cards))
    BY <2>1, <2>2, AdjustmentMatches DEF PowerInvariant
  <2>4. QED
    BY <2>1, <2>3 DEF PowerInvariant, LedgerTrue, AllHeld, Unminted
<1>6. ASSUME NEW a \in isAuthority, NEW n \in Increases, IncreaseTotalVotingPower(a, n)
      PROVE  PowerInvariant'
  BY <1>6, <1>000 DEF IncreaseTotalVotingPower
<1>7. ASSUME NEW a, AddAuthority(a) \/ AbdicateAuthority(a)
      PROVE  PowerInvariant'
  BY <1>7, <1>000 DEF AddAuthority, AbdicateAuthority
<1>8. ASSUME Tick PROVE PowerInvariant'
  BY <1>8, <1>000 DEF Tick
<1>9. CASE UNCHANGED vpVars
  BY <1>9, <1>000 DEF vpVars, powerVars, cardVars
<1>10. QED
  BY <1>1, <1>2, <1>3, <1>4, <1>5, <1>6, <1>7, <1>8, <1>9 DEF Next

\* It holds at first, of accounts without cards.
LEMMA PowerInit ==
  ASSUME Init
  PROVE  PowerInvariant
<1>1. /\ \A c \in Cards : PowersOf(cards)[c] = 0 /\ cards[c] = NoCard
      /\ snaps = [v \in Accounts |-> <<>>] /\ delegations = [v \in Accounts |-> None]
      /\ minted = 0 /\ cards \in CardStates
  BY DEF Init, PowersOf, NoCard, CardStates
<1>2. IsFiniteSet(Cards)
  BY <1>1, HeldType
<1>3. AllPowerOf(cards) = 0
  BY <1>1, <1>2, SumOfZeros DEF AllPowerOf
<1>4. PICK h \in Powers : h = HeldIn(cards)
  BY <1>1, HeldType
<1>5. ASSUME NEW v \in Accounts PROVE h[v] = 0
  <2>1. OwnedBy(cards, v) = {}
    BY <1>1, PowerAccounts DEF OwnedBy, NoCard
  <2>2. QED
    BY <1>4, <2>1, SumEmpty DEF HeldIn
<1>6. SumFunctionOnSet(h, Accounts) = 0
  BY <1>5, PowerAccounts, SumOfZeros
<1>7. ASSUME NEW v \in Accounts
      PROVE  /\ LastSnap(snaps, v) = NoSnap
             /\ Delegating(delegations, v) = {}
             /\ CurrentDelegate(delegations, v) = v
  BY <1>1, PowerAccounts DEF LastSnap, Delegating, CurrentDelegate
<1>8. Matches(snaps, delegations, h)
  <2>1. SumFunctionOnSet(h, {}) = 0
    BY SumEmpty
  <2>2. ASSUME NEW v \in Accounts
        PROVE  /\ LastSnap(snaps, v).intrinsic = h[v]
               /\ LastSnap(snaps, v).delegated
                    = SumFunctionOnSet(h, Delegating(delegations, v))
               /\ LastSnap(snaps, v).isDelegated = (CurrentDelegate(delegations, v) # v)
    <3>1. LastSnap(snaps, v) = NoSnap
      BY <1>7
    <3>2. Delegating(delegations, v) = {} /\ CurrentDelegate(delegations, v) = v
      BY <1>7
    <3>3. /\ NoSnap.intrinsic = 0 /\ NoSnap.delegated = 0 /\ NoSnap.isDelegated = FALSE
      BY DEF NoSnap
    <3>4. SumFunctionOnSet(h, Delegating(delegations, v)) = 0
      BY <2>1, <3>2, Zenon
    <3>5. QED
      BY <1>5, <3>1, <3>2, <3>3, <3>4
  <2>3. QED
    BY <2>2 DEF Matches
<1>9. QED
  BY <1>1, <1>3, <1>4, <1>6, <1>8 DEF PowerInvariant, LedgerTrue, AllHeld, Unminted

\* So it always holds.
LEMMA PowerHolds == Spec => []PowerInvariant
<1>1. TypeOK /\ TypeOK' /\ PowerInvariant /\ [Next]_vpVars => PowerInvariant'
  BY PowerStep
<1>2. QED
  BY <1>1, PowerInit, TypesHold, PTL DEF Spec

\* The last snapshot of every account is the sum of its cards and of what others delegate
\* to it, after any sequence of mints, burns, transfers and delegations.
THEOREM SnapshotsAreTrue == Spec => []SnapshotsMatchCards
<1>1. TypeOK /\ PowerInvariant => SnapshotsMatchCards
  <2> SUFFICES ASSUME TypeOK, PowerInvariant, NEW v \in Accounts
               PROVE  /\ LastSnap(snaps, v).intrinsic = PowerHeld(v)
                      /\ LastSnap(snaps, v).delegated = SumFunctionOnSet(Held, DelegatorsOf(v))
                      /\ LastSnap(snaps, v).isDelegated = (CurrentDelegate(delegations, v) # v)
    BY DEF SnapshotsMatchCards
  <2>1. DelegatorsOf(v) = Delegating(delegations, v)
    BY DEF DelegatorsOf, Delegating
  <2>2. Held = HeldIn(cards) /\ PowerHeld(v) = HeldIn(cards)[v]
    BY SumsOfState
  <2>3. /\ LastSnap(snaps, v).intrinsic = HeldIn(cards)[v]
        /\ LastSnap(snaps, v).delegated
             = SumFunctionOnSet(HeldIn(cards), Delegating(delegations, v))
        /\ LastSnap(snaps, v).isDelegated = (CurrentDelegate(delegations, v) # v)
    BY DEF PowerInvariant, LedgerTrue, Matches
  <2>4. QED
    BY <2>1, <2>2, <2>3, Zenon
<1>2. QED
  BY <1>1, PowerHolds, TypesHold, PTL

----------------------------------------------------------------------------
(* The power of accounts, now and in the past                              *)

\* From now on the power of an account is that of its last snapshot.
LEMMA PowerNow ==
  ASSUME TypeOK, SnapshotsInOrder, NEW v \in Accounts, NEW t \in Int, now <= t
  PROVE  PowerAt(v, t) = PowerIn(LastSnap(snaps, v))
<1>1. PICK s \in Seq(Entries) : s = snaps[v]
  BY TypesOfEntries
<1>2. Len(s) \in Nat /\ (s = <<>> <=> Len(s) = 0)
  BY EmptySeq
<1>3. InOrder(s, now)
  BY <1>1, TypesOfEntries, OrderOfAccounts DEF SnapshotsInOrder
<1>4. \A i \in 1 .. Len(s) : s[i].timestamp \in Int
  <2>1. \A i \in 1 .. Len(s) : s[i] \in Entries
    OBVIOUS
  <2>2. \A e \in Entries : e.timestamp \in Int
    BY PowerNumbers DEF Entries
  <2>3. QED
    BY <2>1, <2>2
<1>5. Cut(s, t, Len(s))
  <2>1. now \in Int
    BY TypesOfEntries
  <2>2. \A i \in 1 .. Len(s) : s[i].timestamp <= t
    BY <1>3, <1>4, <2>1 DEF InOrder
  <2>3. QED
    BY <1>2, <2>2 DEF Cut
<1>6. SnapshotAt(s, t, Len(s)) = IF Len(s) = 0 THEN NoSnap ELSE s[Len(s)]
  BY <1>2, <1>5, SnapshotOfCut
<1>7. SnapshotAt(s, t, Len(s)) = LastSnap(snaps, v)
  BY <1>1, <1>2, <1>6 DEF LastSnap, Last
<1>8. QED
  BY <1>1, <1>7 DEF PowerAt

\* That is what the accounts hold that delegate to it, itself included if it does not
\* delegate away.
LEMMA PowerOfLast ==
  ASSUME NEW ss, NEW ds \in Delegations, NEW h \in Powers, Matches(ss, ds, h),
         NEW v \in Accounts
  PROVE  PowerIn(LastSnap(ss, v))
           = SumFunctionOnSet(h, {u \in Accounts : CurrentDelegate(ds, u) = v})
<1>1. PICK T \in SUBSET Accounts : T = Delegating(ds, v)
  BY DEF Delegating
<1>2. PICK U : U = {u \in Accounts : CurrentDelegate(ds, u) = v}
  OBVIOUS
<1>3. /\ LastSnap(ss, v).intrinsic = h[v]
      /\ LastSnap(ss, v).delegated = SumFunctionOnSet(h, T)
      /\ LastSnap(ss, v).isDelegated = (CurrentDelegate(ds, v) # v)
  BY <1>1 DEF Matches
<1>4. IsFiniteSet(T) /\ v \notin T
  BY <1>1, PowerAccounts, FS_Subset DEF Delegating
<1>5. \A x \in Accounts : h[x] \in Int
  BY DEF Powers
<1>6. SumFunctionOnSet(h, T) \in Int
  BY <1>4, <1>5, SumType
<1>7. CASE CurrentDelegate(ds, v) = v
  <2>1. U = T \cup {v}
    BY <1>1, <1>2, <1>7, PowerAccounts DEF Delegating, CurrentDelegate, Delegations
  <2>2. SumFunctionOnSet(h, T \cup {v}) = h[v] + SumFunctionOnSet(h, T)
    BY <1>4, <1>5, SumAdd
  <2>3. PowerIn(LastSnap(ss, v)) = h[v] + SumFunctionOnSet(h, T)
    BY <1>3, <1>7 DEF PowerIn
  <2>4. QED
    BY <1>2, <2>1, <2>2, <2>3, Zenon
<1>8. CASE CurrentDelegate(ds, v) # v
  <2>1. U = T
    BY <1>1, <1>2, <1>8, PowerAccounts DEF Delegating, CurrentDelegate, Delegations
  <2>2. PowerIn(LastSnap(ss, v)) = SumFunctionOnSet(h, T)
    <3>1. PICK x \in Int : x = SumFunctionOnSet(h, T)
      BY <1>6
    <3>2. LastSnap(ss, v).isDelegated = TRUE /\ LastSnap(ss, v).delegated = x
      BY <1>3, <1>8, <3>1
    <3>3. PowerIn(LastSnap(ss, v)) = x
      BY <3>2 DEF PowerIn
    <3>4. QED
      BY <3>1, <3>3
  <2>3. QED
    BY <1>2, <2>1, <2>2, Zenon
<1>9. QED
  BY <1>7, <1>8

\* The power of every account from now on, and that of all of them, which is what was
\* minted.
LEMMA PresentPower ==
  ASSUME TypeOK, SnapshotsInOrder, PowerInvariant, NEW t \in Int, now <= t
  PROVE  LET power == [v \in Accounts |-> PowerAt(v, t)]
         IN  /\ power = [v \in Accounts |->
                           SumFunctionOnSet(Held, {u \in Accounts :
                                                     CurrentDelegate(delegations, u) = v})]
             /\ \A v \in Accounts : power[v] = PowerIn(LastSnap(snaps, v))
             /\ SumFunctionOnSet(power, Accounts) = minted
<1>1. PICK h \in Powers : h = Held /\ h = HeldIn(cards)
  BY SumsOfState, HeldType
<1>2. PICK g : g = [v \in Accounts |-> PowerAt(v, t)]
  OBVIOUS
<1>3. delegations \in Delegations /\ Matches(snaps, delegations, h)
  BY <1>1, TypesOfEntries DEF PowerInvariant, LedgerTrue
<1>4. ASSUME NEW v \in Accounts
      PROVE  /\ g[v] = PowerIn(LastSnap(snaps, v))
             /\ g[v] = SumFunctionOnSet(h, {u \in Accounts : CurrentDelegate(delegations, u) = v})
  BY <1>2, <1>3, PowerNow, PowerOfLast
<1>5. g = [v \in Accounts |-> SumFunctionOnSet(Held, {u \in Accounts :
                                                        CurrentDelegate(delegations, u) = v})]
  BY <1>1, <1>2, <1>4
<1>6. PICK d : d = [u \in Accounts |-> CurrentDelegate(delegations, u)]
  OBVIOUS
<1>7. \A u \in Accounts : h[u] \in Int /\ d[u] \in Accounts
  BY <1>3, <1>6 DEF Powers, CurrentDelegate, Delegations
<1>8. ASSUME NEW v \in Accounts
      PROVE  g[v] = SumFunctionOnSet(h, {u \in Accounts : d[u] = v})
  <2>1. {u \in Accounts : d[u] = v} = {u \in Accounts : CurrentDelegate(delegations, u) = v}
    BY <1>6
  <2>2. QED
    BY <1>4, <2>1, Zenon
<1>9. SumFunctionOnSet(g, Accounts) = SumFunctionOnSet(h, Accounts)
  <2>1. Classes(h, d, g, Accounts, Accounts)
    BY <1>7, <1>8, PowerAccounts DEF Classes
  <2>2. QED
    BY <2>1, SumOfClasses
<1>10. SumFunctionOnSet(g, Accounts) = minted
  BY <1>1, <1>9 DEF PowerInvariant, AllHeld
<1>11. QED
  BY <1>2, <1>4, <1>5, <1>10

\* What was minted is the power of all cards, and the voting power of all accounts: moving
\* cards and delegations about neither makes nor loses any.
THEOREM MintedIsPower == Spec => []MintedIsAllPower
<1>1. TypeOK /\ SnapshotsInOrder /\ PowerInvariant /\ PowerWithinTotal => MintedIsAllPower
  <2> SUFFICES ASSUME TypeOK, SnapshotsInOrder, PowerInvariant, PowerWithinTotal
               PROVE  MintedIsAllPower
    OBVIOUS
  <2>1. minted = SumFunction(PowerOfCard)
    BY SumsOfState DEF PowerInvariant, AllHeld
  <2>2. PICK g : g = [v \in Accounts |-> PowerAt(v, now)]
    OBVIOUS
  <2>3. SumFunctionOnSet(g, Accounts) = minted /\ DOMAIN g = Accounts
    <3>1. now \in Int /\ now <= now
      BY TypesOfEntries
    <3>2. QED
      BY <2>2, <3>1, PresentPower
  <2>4. minted = SumFunction(g)
    BY <2>3, Zenon DEF SumFunction
  <2>5. QED
    BY <2>1, <2>2, <2>4 DEF MintedIsAllPower, PowerWithinTotal
<1>2. QED
  BY <1>1, PowerHolds, TypesHold, OrderHolds, PowerIsWithinTotal, PTL

----------------------------------------------------------------------------
(* The ledger of power                                                     *)

DelegateOf == [v \in Accounts |-> CurrentDelegate(delegations, v)]

History == [t \in 0 .. MaxTime |-> [v \in Accounts |-> PowerAt(v, t)]]

Active ==
  {v \in Accounts : LastSnap(snaps, v).intrinsic # 0 \/ LastSnap(snaps, v).delegated # 0}

\* Written snapshots answer for an earlier second as before.
LEMMA WrittenPast ==
  ASSUME now \in Nat, NEW s \in Seq(Entries), InOrder(s, now), NEW r, Written(s, r),
         NEW t \in Int, t < now
  PROVE  SnapshotAt(r, t, Len(r)) = SnapshotAt(s, t, Len(s))
<1>1. /\ r \in Seq(Entries) /\ InOrder(r, now)
      /\ \A i \in DOMAIN s : s[i].timestamp < now => i \in DOMAIN r /\ r[i] = s[i]
  BY WrittenType, WrittenKeeps
<1>2. Len(s) \in Nat /\ Len(r) \in Nat /\ DOMAIN s = 1 .. Len(s) /\ DOMAIN r = 1 .. Len(r)
  BY <1>1
<1>3. PICK j : Cut(s, t, j)
  BY CutExists
<1>4. PICK k : Cut(r, t, k)
  BY <1>1, CutExists
<1>5. /\ SnapshotAt(s, t, Len(s)) = IF j = 0 THEN NoSnap ELSE s[j]
      /\ SnapshotAt(r, t, Len(r)) = IF k = 0 THEN NoSnap ELSE r[k]
  BY <1>1, <1>2, <1>3, <1>4, SnapshotOfCut
<1>6. ASSUME NEW q \in Seq(Entries), NEW i \in 1 .. Len(q) PROVE q[i].timestamp \in Int
  <2>1. q[i] \in Entries
    OBVIOUS
  <2>2. \A e \in Entries : e.timestamp \in Int
    BY PowerNumbers DEF Entries
  <2>3. QED
    BY <2>1, <2>2
<1>7. \A i \in 1 .. j : i \in 1 .. k /\ r[i] = s[i]
  <2> SUFFICES ASSUME NEW i \in 1 .. j PROVE i \in 1 .. k /\ r[i] = s[i]
    OBVIOUS
  <2>1. i \in 1 .. Len(s) /\ s[i].timestamp <= t
    BY <1>2, <1>3 DEF Cut
  <2>2. i \in 1 .. Len(r) /\ r[i] = s[i]
    BY <1>1, <1>2, <1>6, <2>1
  <2>3. QED
    BY <1>2, <1>4, <2>1, <2>2 DEF Cut
<1>8. k <= j
  <2>1. SUFFICES ASSUME j < k PROVE FALSE
    BY <1>3, <1>4 DEF Cut
  <2>2. k \in 1 .. Len(r) /\ r[k].timestamp <= t
    BY <1>2, <1>3, <1>4, <2>1 DEF Cut
  <2>3. CASE r = s
    BY <1>3, <2>1, <2>2, <2>3 DEF Cut
  <2>4. CASE r # s
    <3>1. PICK e \in Entries : e.timestamp = now /\ r = Recorded(s, e)
      BY <2>4 DEF Written
    <3>2. /\ Recorded(s, e)[Len(Recorded(s, e))] = e
          /\ \A i \in 1 .. Len(Recorded(s, e)) - 1 :
               i \in 1 .. Len(s) /\ Recorded(s, e)[i] = s[i]
      BY RecordedEntries, Zenon
    <3>3. r[Len(r)] = e /\ \A i \in 1 .. Len(r) - 1 : i \in 1 .. Len(s) /\ r[i] = s[i]
      BY <3>1, <3>2
    <3>4. k # Len(r)
      BY <2>2, <3>1, <3>3
    <3>5. k \in 1 .. Len(s) /\ r[k] = s[k]
      <4>1. k \in 1 .. Len(r) - 1
        BY <1>2, <2>2, <3>4
      <4>2. QED
        BY <3>3, <4>1
    <3>6. QED
      BY <1>3, <2>1, <2>2, <3>5 DEF Cut
  <2>5. QED
    BY <2>3, <2>4
<1>9. j = k /\ (j # 0 => r[j] = s[j])
  <2>1. j \in Nat /\ k \in Nat
    BY <1>2, <1>3, <1>4 DEF Cut
  <2>2. j # 0 => j \in 1 .. j
    BY <2>1
  <2>3. QED
    BY <1>7, <1>8, <2>1, <2>2
<1>10. QED
  BY <1>5, <1>9

PowersFor(h, d) ==
  [v \in Accounts |-> SumFunctionOnSet(h, {u \in Accounts : d[u] = v})]

\* The state's parts in the terms of the ledger.
LedgerView ==
  /\ Held \in [Accounts -> Nat] /\ DelegateOf \in [Accounts -> Accounts]
  /\ \A t \in 0 .. MaxTime : now <= t => History[t] = PowersFor(Held, DelegateOf)
  /\ SumFunctionOnSet(PowersFor(Held, DelegateOf), Accounts) = minted
  /\ {v \in Accounts : PowersFor(Held, DelegateOf)[v] > 0} \subseteq Active

\* The invariants give it.
LEMMA LedgerState ==
  ASSUME TypeOK, SnapshotsInOrder, PowerInvariant
  PROVE  LedgerView
<1>1. Held \in [Accounts -> Nat]
  <2>1. Held = HeldIn(cards) /\ \A v \in Accounts : HeldIn(cards)[v] \in Nat
    BY SumsOfState, HeldType
  <2>2. QED
    BY <2>1 DEF Held
<1>2. DelegateOf \in [Accounts -> Accounts]
  BY DEF TypeOK, DelegateOf, CurrentDelegate
<1>3. PICK power : power = PowersFor(Held, DelegateOf)
  OBVIOUS
<1>4. \A v \in Accounts : {u \in Accounts : DelegateOf[u] = v}
                            = {u \in Accounts : CurrentDelegate(delegations, u) = v}
  BY DEF DelegateOf
<1>5. power = [v \in Accounts |->
                 SumFunctionOnSet(Held, {u \in Accounts : CurrentDelegate(delegations, u) = v})]
  BY <1>3, <1>4, Zenon DEF PowersFor
<1>6. ASSUME NEW t \in 0 .. MaxTime, now <= t
      PROVE  [v \in Accounts |-> PowerAt(v, t)] = power
  <2>1. t \in Int
    BY PowerNumbers
  <2>2. [v \in Accounts |-> PowerAt(v, t)]
          = [v \in Accounts |-> SumFunctionOnSet(Held, {u \in Accounts :
                                                     CurrentDelegate(delegations, u) = v})]
    BY <1>6, <2>1, PresentPower, Zenon
  <2>3. QED
    BY <1>5, <2>2, Zenon
<1>7. now \in 0 .. MaxTime /\ now <= now
  BY TypesOfEntries
<1>8. /\ \A v \in Accounts : power[v] = PowerIn(LastSnap(snaps, v))
      /\ SumFunctionOnSet(power, Accounts) = minted
  <2>1. PICK g : g = [v \in Accounts |-> PowerAt(v, now)]
    OBVIOUS
  <2>2. /\ \A v \in Accounts : g[v] = PowerIn(LastSnap(snaps, v))
        /\ SumFunctionOnSet(g, Accounts) = minted
    BY <1>7, <2>1, PresentPower
  <2>3. g = power
    BY <1>6, <1>7, <2>1
  <2>4. QED
    BY <2>2, <2>3
<1>9. {v \in Accounts : power[v] > 0} \subseteq Active
  BY <1>8 DEF Active, PowerIn
<1>10. \A t \in 0 .. MaxTime : now <= t => History[t] = power
  BY <1>6 DEF History
<1>11. QED
  BY <1>1, <1>2, <1>3, <1>8, <1>9, <1>10 DEF LedgerView

\* The ledger's sums are these.
LEMMA LedgerSums ==
  ASSUME NEW f, NEW S
  PROVE  PowerLedger!SumFunctionOnSet(f, S) = SumFunctionOnSet(f, S)
BY Zenon DEF SumFunctionOnSet, FoldFunctionOnSet, MapThenFoldSet, PowerLedger!SumFunctionOnSet,
       PowerLedger!FoldFunctionOnSet, PowerLedger!MapThenFoldSet

\* No step that writes snapshots changes what the past answers.
LEMMA PastPowers ==
  ASSUME TypeOK, TypeOK', SnapshotsInOrder, SnapshotsInOrder', Recording, now' = now,
         NEW t \in 0 .. MaxTime, t < now
  PROVE  History'[t] = History[t]
<1>1. now \in Nat
  BY PowerNumbers DEF TypeOK
<1>2. ASSUME NEW v \in Accounts
      PROVE  PowerAt(v, t)' = PowerAt(v, t)
  <2>1. PICK s \in Seq(Entries) : s = snaps[v]
    BY TypesOfEntries
  <2>2. PICK r : r = snaps'[v]
    OBVIOUS
  <2>3. InOrder(s, now) /\ Written(s, r)
    BY <2>1, <2>2, TypesOfEntries, OrderOfAccounts
       DEF SnapshotsInOrder, Recording, AllWritten
  <2>4. SnapshotAt(r, t, Len(r)) = SnapshotAt(s, t, Len(s))
    BY <1>1, <2>3, PowerNumbers, WrittenPast
  <2>5. QED
    BY <2>1, <2>2, <2>4 DEF PowerAt
<1>3. QED
  BY <1>2 DEF History

\* The total is not below what is minted, once there is a total.
WithinTotal == total # 0 => minted <= total

\* The first total covers all powers there were so far, as that of a crowdfund does.
StartCovers ==
  total = 0 /\ total' # 0 =>
    \A t \in 0 .. MaxTime : SumFunctionOnSet(History[t], Accounts) <= total'

\* Grants are cut off at the total, and the first total covers those before it.
LEMMA WithinTotalStep ==
  ASSUME TypeOK, LedgerView, WithinTotal, [Next]_vpVars, StartCovers
  PROVE  WithinTotal'
<1>0. minted \in Nat /\ total \in Nat
  BY DEF TypeOK
<1>1. ASSUME NEW n \in Nat, total # 0
      PROVE  Granted(n) \in Nat /\ minted + Granted(n) <= total
  BY <1>0, <1>1 DEF Granted, WithinTotal
<1>2. ASSUME NEW a \in isAuthority, NEW v, NEW n \in Grants, NEW d, Mint(a, v, n, d)
      PROVE  WithinTotal'
  BY <1>1, <1>2, PowerNumbers DEF Mint, WithinTotal
<1>3. ASSUME NEW a \in isAuthority, NEW c, NEW n \in Grants, AddVotingPower(a, c, n)
      PROVE  WithinTotal'
  BY <1>1, <1>3, PowerNumbers DEF AddVotingPower, WithinTotal
<1>4. ASSUME NEW a \in isAuthority, NEW n \in Increases, IncreaseTotalVotingPower(a, n)
      PROVE  WithinTotal'
  <2>1. n \in Nat /\ total' = total + n /\ minted' = minted
    BY <1>4, PowerNumbers DEF IncreaseTotalVotingPower, cardVars
  <2>2. CASE total # 0
    BY <1>0, <2>1, <2>2 DEF WithinTotal
  <2>3. CASE total = 0
    <3>1. now \in 0 .. MaxTime /\ now <= now
      BY TypesOfEntries
    <3>2. SumFunctionOnSet(History[now], Accounts) = minted
      BY <3>1, Zenon DEF LedgerView
    <3>3. total' # 0 => minted <= total'
      BY <2>3, <3>1, <3>2, Zenon DEF StartCovers
    <3>4. QED
      BY <2>1, <3>3 DEF WithinTotal
  <2>4. QED
    BY <2>2, <2>3
<1>5. ASSUME NEW s, NEW c \in Cards, Burn(s, c)
      PROVE  WithinTotal'
  <2>1. cards[c].power \in Nat
    BY DEF TypeOK
  <2>2. minted' = minted - cards[c].power /\ total' = total
    BY <1>5 DEF Burn
  <2>3. QED
    BY <1>0, <2>1, <2>2 DEF WithinTotal
<1>6. ASSUME UNCHANGED <<minted, total>>
      PROVE  WithinTotal'
  BY <1>6 DEF WithinTotal
<1>7. QED
  BY <1>2, <1>3, <1>4, <1>5, <1>6
     DEF Next, TransferFrom, DelegateVotingPower, AddAuthority, AbdicateAuthority, Tick,
         cardVars, vpVars

\* Every step that writes snapshots changes the ledger: what accounts hold or whom they
\* delegate to, and the present power with them.
LEMMA RecordingChanges ==
  ASSUME TypeOK, TypeOK', SnapshotsInOrder, SnapshotsInOrder',
         LedgerView', WithinTotal',
         Recording, UNCHANGED <<now, total>>
  PROVE  PowerLedger!Change
<1>1. now \in Nat /\ now' = now /\ total' = total
  BY PowerNumbers DEF TypeOK
<1>2. \A t \in 0 .. MaxTime : t < now => History'[t] = History[t]
  BY <1>1, PastPowers
<1>3. PICK h, d : h = Held' /\ d = DelegateOf'
  OBVIOUS
<1>4. PICK power : power = PowersFor(h, d)
  OBVIOUS
<1>40. /\ h \in [Accounts -> Nat] /\ d \in [Accounts -> Accounts]
       /\ \A t \in 0 .. MaxTime : now' <= t => History'[t] = power
       /\ SumFunctionOnSet(power, Accounts) = minted'
       /\ {v \in Accounts : power[v] > 0} \subseteq Active'
  BY <1>3, <1>4 DEF LedgerView
<1>5. History' = [t \in 0 .. MaxTime |-> IF t < now THEN History[t] ELSE power]
  <2>1. ASSUME NEW t \in 0 .. MaxTime
        PROVE  History'[t] = IF t < now THEN History[t] ELSE power
    <3>1. CASE t < now
      BY <1>2, <3>1
    <3>2. CASE ~(t < now)
      BY <1>1, <1>40, <3>2, PowerNumbers
    <3>3. QED
      BY <3>1, <3>2
  <2>2. QED
    BY <2>1 DEF History
<1>6. total # 0 => SumFunctionOnSet(power, Accounts) <= total
  BY <1>1, <1>40 DEF WithinTotal
<1>7. power = PowerLedger!PowerOf(h, d)
  BY <1>4, LedgerSums, Zenon DEF PowersFor, PowerLedger!PowerOf
<1>8. PowerLedger!Supporters(power) \subseteq Active'
  BY <1>40 DEF PowerLedger!Supporters
<1>9. total # 0 => PowerLedger!SumFunctionOnSet(power, Accounts) <= total
  BY <1>6, LedgerSums, Zenon
<1>10. History' = [t \in PowerLedger!Times |-> IF t < now THEN History[t] ELSE power]
  BY <1>5, Zenon DEF PowerLedger!Times
<1>11. PowerLedger!PowerMoves(power, Active')
  BY <1>1, <1>8, <1>9, <1>10, Zenon DEF PowerLedger!PowerMoves, History, Active
<1>12. QED
  BY <1>3, <1>40, <1>7, <1>11, Zenon DEF PowerLedger!Change, DelegateOf, Active

\* Nobody had power before a new party.
LEMMA HistoryAtStart ==
  ASSUME Init
  PROVE  \A t \in 0 .. MaxTime : History[t] = [v \in Accounts |-> 0]
<1>1. snaps = [v \in Accounts |-> <<>>]
  BY DEF Init
<1>2. ASSUME NEW v \in Accounts, NEW t \in 0 .. MaxTime PROVE PowerAt(v, t) = 0
  <2>1. PICK s : s = <<>> /\ s = snaps[v]
    BY <1>1
  <2>2. s \in Seq(Entries) /\ Len(s) = 0 /\ Cut(s, t, 0) /\ t \in Int
    BY <2>1, PowerNumbers DEF Cut
  <2>3. SnapshotAt(s, t, 0) = NoSnap
    BY <2>2, SnapshotOfCut
  <2>4. PowerIn(NoSnap) = 0
    BY DEF PowerIn, NoSnap
  <2>5. QED
    BY <2>1, <2>2, <2>3, <2>4 DEF PowerAt
<1>3. QED
  BY <1>2 DEF History

\* A new party has the ledger of accounts that hold nothing.
LEMMA LedgerInit ==
  ASSUME Init
  PROVE  PowerLedger!Init
<1>1. /\ now = 1 /\ snaps = [v \in Accounts |-> <<>>]
      /\ delegations = [v \in Accounts |-> None] /\ cards = [c \in Cards |-> NoCard]
      /\ total = InitialTotal
  BY DEF Init
<1>2. Held = [v \in Accounts |-> 0]
  <2>1. ASSUME NEW v \in Accounts PROVE PowerHeld(v) = 0
    <3>1. CardsOf(v) = {}
      BY <1>1, PowerAccounts DEF CardsOf, NoCard
    <3>2. QED
      BY <3>1, SumEmpty DEF PowerHeld
  <2>2. QED
    BY <2>1 DEF Held
<1>3. DelegateOf = [v \in Accounts |-> v]
  BY <1>1, PowerAccounts DEF DelegateOf, CurrentDelegate
<1>5. History = [t \in PowerLedger!Times |-> Held]
  <2>1. \A t \in 0 .. MaxTime : History[t] = Held
    BY <1>2, HistoryAtStart
  <2>2. QED
    BY <2>1, Zenon DEF History, PowerLedger!Times
<1>6. Active = PowerLedger!Supporters(Held)
  <2>1. Active = {}
    BY <1>1 DEF Active, LastSnap, NoSnap
  <2>2. PowerLedger!Supporters(Held) = {}
    BY <1>2 DEF PowerLedger!Supporters
  <2>3. QED
    BY <2>1, <2>2
<1>7. total # 0 => PowerLedger!SumFunctionOnSet(Held, Accounts) <= total
  <2>1. SumFunctionOnSet(Held, Accounts) = 0
    BY <1>2, PowerAccounts, SumOfZeros
  <2>2. InitialTotal \in Nat
    BY PowerNumbers
  <2>3. QED
    BY <1>1, <2>1, <2>2, LedgerSums
<1>8. PowerLedger!HistoryInit(Held)
  BY <1>1, <1>5, <1>6, <1>7, Zenon DEF PowerLedger!HistoryInit, History, Active
<1>9. QED
  BY <1>2, <1>3, <1>8, Zenon DEF PowerLedger!Init, DelegateOf

\* Every step is one of the ledger's.
LEMMA LedgerStep ==
  ASSUME TypeOK, TypeOK', SnapshotsInOrder, SnapshotsInOrder', LedgerView',
         WithinTotal', StartCovers, [Next]_vpVars
  PROVE  PowerLedger!Change \/ PowerLedger!Grow \/ PowerLedger!Pass
<1>0. now \in Nat /\ total \in Nat
  BY PowerNumbers DEF TypeOK
<1>1. Recording
  BY StepRecords
<1>2. CASE UNCHANGED <<now, total>>
  BY <1>1, <1>2, RecordingChanges
<1>3. ASSUME UNCHANGED <<snaps, delegations, cards>>
      PROVE  UNCHANGED <<Held, DelegateOf, History, Active>>
  BY <1>3 DEF Held, PowerHeld, PowerOfCard, CardsOf, DelegateOf, History, PowerAt, Active
<1>4. ASSUME NEW a \in isAuthority, NEW n \in Increases, IncreaseTotalVotingPower(a, n),
             total' # total
      PROVE  PowerLedger!Grow
  <2>1. /\ total' = total + n /\ now' = now /\ UNCHANGED <<snaps, delegations, cards>>
        /\ n \in Nat
    BY <1>4, PowerNumbers DEF IncreaseTotalVotingPower, powerVars, cardVars
  <2>2. total < total'
    BY <1>0, <1>4, <2>1
  <2>3. UNCHANGED <<Held, DelegateOf, History, Active>>
    BY <1>3, <2>1
  <2>30. ASSUME total = 0, NEW t \in PowerLedger!Times
         PROVE  PowerLedger!SumFunctionOnSet(History[t], Accounts) <= total'
    <3>1. total' # 0
      BY <2>30, <1>4
    <3>2. SumFunctionOnSet(History[t], Accounts) <= total'
      BY <2>30, <3>1, Zenon DEF StartCovers, PowerLedger!Times
    <3>3. QED
      BY <3>2, LedgerSums, Zenon
  <2>4. PowerLedger!TotalGrows(total')
    BY <2>1, <2>2, <2>3, <2>30, Zenon DEF PowerLedger!TotalGrows, History, Active
  <2>5. QED
    BY <2>3, <2>4, Zenon DEF PowerLedger!Grow, DelegateOf
<1>5. ASSUME Tick
      PROVE  PowerLedger!Pass
  <2>1. /\ now < MaxTime /\ now' = now + 1 /\ total' = total
        /\ UNCHANGED <<snaps, delegations, cards>>
    BY <1>5 DEF Tick, powerVars, cardVars
  <2>2. UNCHANGED <<Held, DelegateOf, History, Active>>
    BY <1>3, <2>1
  <2>3. PowerLedger!TimePasses
    BY <2>1, <2>2, Zenon DEF PowerLedger!TimePasses, History, Active
  <2>4. QED
    BY <2>2, <2>3, Zenon DEF PowerLedger!Pass, DelegateOf
<1>6. \/ UNCHANGED <<now, total>> \/ Tick
      \/ \E a \in isAuthority, n \in Increases : IncreaseTotalVotingPower(a, n) /\ total' # total
  BY DEF Next, Mint, AddVotingPower, IncreaseTotalVotingPower, Burn, TransferFrom,
         DelegateVotingPower, AddAuthority, AbdicateAuthority, vpVars
<1>7. QED
  BY <1>2, <1>4, <1>5, <1>6

\* A party implements the ledger of voting power: its snapshots, whatever members and
\* authorities do, are those of a history in which only the present changes, and never holds
\* more power than the total votes are measured against.  What its authority has to see to is
\* that the first total covers what was minted before, which mint() does not compare with it.
THEOREM LedgerIsImplemented ==
  Spec /\ [][StartCovers]_vpVars => ImplementsLedger
<1>1. Init => PowerLedger!Init
  BY LedgerInit
<1>2. Init => WithinTotal
  BY PowerNumbers DEF Init, WithinTotal
<1>3. TypeOK /\ SnapshotsInOrder /\ PowerInvariant => LedgerView
  BY LedgerState
<1>4. TypeOK /\ LedgerView /\ WithinTotal /\ [Next]_vpVars /\ [StartCovers]_vpVars
      => WithinTotal'
  BY WithinTotalStep DEF WithinTotal, vpVars
<1>5. /\ TypeOK /\ TypeOK' /\ SnapshotsInOrder /\ SnapshotsInOrder' /\ LedgerView'
      /\ WithinTotal' /\ [Next]_vpVars /\ [StartCovers]_vpVars
      => [PowerLedger!Change \/ PowerLedger!Grow \/ PowerLedger!Pass]_(PowerLedger!ledgerVars)
  <2> SUFFICES ASSUME TypeOK, TypeOK', SnapshotsInOrder, SnapshotsInOrder', LedgerView',
                      WithinTotal', [Next]_vpVars, [StartCovers]_vpVars
      PROVE  [PowerLedger!Change \/ PowerLedger!Grow
                 \/ PowerLedger!Pass]_(PowerLedger!ledgerVars)
    OBVIOUS
  <2>1. total' = total => StartCovers
    BY DEF StartCovers
  <2>2. StartCovers
    BY <2>1 DEF vpVars
  <2>3. QED
    BY <2>2, LedgerStep
<1>6. QED
  BY <1>1, <1>2, <1>3, <1>4, <1>5, TypesHold, OrderHolds, PowerHolds, PTL
     DEF Spec, ImplementsLedger, PowerLedger!Spec

\* What was ever minted, at any time of the history.
EverMinted ==
  /\ minted <= MaxPower
  /\ \A t \in 0 .. MaxTime : SumFunctionOnSet(History[t], Accounts) \in 0 .. MaxPower

\* The bound on grants bounds it.
LEMMA EverMintedStep ==
  ASSUME TypeOK, TypeOK', SnapshotsInOrder, SnapshotsInOrder', LedgerView', EverMinted,
         [Next]_vpVars
  PROVE  EverMinted'
<1>0. minted \in Nat /\ minted' \in Nat /\ MaxPower \in Nat /\ now \in Nat
  BY PowerNumbers DEF TypeOK
<1>1. minted' <= MaxPower
  <2>1. ASSUME NEW a, NEW v, NEW n, NEW d, Mint(a, v, n, d)
        PROVE  minted' <= MaxPower
    BY <2>1 DEF Mint, GrantGuard
  <2>2. ASSUME NEW a, NEW c, NEW n, AddVotingPower(a, c, n)
        PROVE  minted' <= MaxPower
    BY <2>2 DEF AddVotingPower, GrantGuard
  <2>3. ASSUME NEW s, NEW c \in Cards, Burn(s, c)
        PROVE  minted' <= MaxPower
    <3>1. cards[c].power \in Nat /\ minted' = minted - cards[c].power
      BY <2>3 DEF TypeOK, Burn
    <3>2. QED
      BY <1>0, <3>1 DEF EverMinted
  <2>4. minted' = minted => minted' <= MaxPower
    BY DEF EverMinted
  <2>5. QED
    BY <2>1, <2>2, <2>3, <2>4
       DEF Next, IncreaseTotalVotingPower, TransferFrom, DelegateVotingPower, AddAuthority,
           AbdicateAuthority, Tick, cardVars, vpVars
<1>2. Recording
  BY StepRecords
<1>3. now' = now \/ (Tick /\ UNCHANGED <<snaps, cards, delegations>>)
  BY DEF Next, Mint, AddVotingPower, IncreaseTotalVotingPower, Burn, TransferFrom,
         DelegateVotingPower, AddAuthority, AbdicateAuthority, Tick, powerVars, cardVars, vpVars
<1>4. ASSUME NEW t \in 0 .. MaxTime
      PROVE  SumFunctionOnSet(History'[t], Accounts) \in 0 .. MaxPower
  <2>1. CASE now' = now /\ t < now
    <3>1. History'[t] = History[t]
      BY <1>2, <2>1, PastPowers
    <3>2. QED
      BY <3>1, Zenon DEF EverMinted
  <2>2. CASE now' = now /\ ~(t < now)
    <3>1. now' <= t
      BY <1>0, <2>2, PowerNumbers
    <3>2. SumFunctionOnSet(History'[t], Accounts) = minted'
      BY <3>1, Zenon DEF LedgerView
    <3>3. QED
      BY <1>0, <1>1, <3>2
  <2>3. CASE UNCHANGED snaps
    <3>1. History' = History
      BY <2>3 DEF History, PowerAt
    <3>2. QED
      BY <3>1, Zenon DEF EverMinted
  <2>4. QED
    BY <1>3, <2>1, <2>2, <2>3
<1>5. QED
  BY <1>1, <1>4 DEF EverMinted

\* A party that starts with a total, or whose totals are never below what may be minted
\* before them, needs nothing else of its authorities.
THEOREM PartyIsLedger ==
  ASSUME InitialTotal # 0 \/ \A n \in Increases : MaxPower <= n
  PROVE  Spec => ImplementsLedger
<1>1. Init => EverMinted
  <2> SUFFICES ASSUME Init PROVE EverMinted
    OBVIOUS
  <2>1. MaxPower \in Nat /\ minted = 0
    BY PowerNumbers DEF Init
  <2>2. ASSUME NEW t \in 0 .. MaxTime PROVE SumFunctionOnSet(History[t], Accounts) = 0
    <3>1. History[t] = [v \in Accounts |-> 0]
      BY HistoryAtStart
    <3>2. QED
      BY <3>1, PowerAccounts, SumOfZeros
  <2>3. QED
    BY <2>1, <2>2 DEF EverMinted
<1>2. TypeOK /\ SnapshotsInOrder /\ PowerInvariant => LedgerView
  BY LedgerState
<1>3. /\ TypeOK /\ TypeOK' /\ SnapshotsInOrder /\ SnapshotsInOrder' /\ LedgerView'
      /\ EverMinted /\ [Next]_vpVars
      => EverMinted'
  BY EverMintedStep
<1>4. TypeOK /\ EverMinted /\ PowerWithinTotal /\ [Next]_vpVars => [StartCovers]_vpVars
  <2> SUFFICES ASSUME TypeOK, EverMinted, PowerWithinTotal, [Next]_vpVars,
                      total = 0, total' # 0, NEW t \in 0 .. MaxTime
      PROVE  SumFunctionOnSet(History[t], Accounts) <= total'
    BY DEF StartCovers
  <2>1. \A n \in Increases : MaxPower <= n
    BY DEF PowerWithinTotal
  <2>2. PICK n \in Increases : total' = total + n
    BY DEF Next, Mint, AddVotingPower, IncreaseTotalVotingPower, Burn, TransferFrom,
           DelegateVotingPower, AddAuthority, AbdicateAuthority, Tick, vpVars
  <2>3. MaxPower <= total' /\ MaxPower \in Nat /\ total' \in Nat
    BY <2>1, <2>2, PowerNumbers
  <2>4. SumFunctionOnSet(History[t], Accounts) \in 0 .. MaxPower
    BY DEF EverMinted
  <2>5. PICK x : x = SumFunctionOnSet(History[t], Accounts)
    OBVIOUS
  <2>6. x \in 0 .. MaxPower
    BY <2>4, <2>5, Zenon
  <2>7. x <= total'
    BY <2>3, <2>6
  <2>8. QED
    BY <2>5, <2>7, Zenon
<1>5. QED
  BY <1>1, <1>2, <1>3, <1>4, LedgerIsImplemented, TypesHold, OrderHolds, PowerHolds,
     PowerIsWithinTotal, PTL DEF Spec

=============================================================================
