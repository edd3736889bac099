--------------------------- MODULE RunQueue_proofs ---------------------------
(***************************************************************************)
(* Theorems about the Run Queue, for any runs, hosts, pools and capacities. *)
(***************************************************************************)
EXTENDS RunQueue, FiniteSetTheorems, WellFoundedInduction, TLAPS

-----------------------------------------------------------------------------
(* The data *)

\* The slots from low to high of the budget rows in S.
SlotsOf(S, low, high) == UNION {{x} \X (low[x]..high[x]) : x \in S}

\* The slots of finitely many budget rows are finitely many.
LEMMA SlotsFinite ==
  ASSUME NEW S \in SUBSET Hosts, NEW low \in [Hosts -> Int], NEW high \in [Hosts -> Int]
  PROVE  IsFiniteSet(SlotsOf(S, low, high)) /\ Cardinality(SlotsOf(S, low, high)) \in Nat
<1> DEFINE slots(x) == {x} \X (low[x]..high[x])
           T == {slots(x) : x \in S}
           f == [x \in S |-> slots(x)]
<1>1. IsFiniteSet(S)
  BY HostsAssumption, FS_Subset
<1>2. f \in Surjection(S, T)
  BY DEF Surjection
<1>3. IsFiniteSet(T)
  BY <1>1, <1>2, FS_Surjection
<1>4. ASSUME NEW x \in S PROVE IsFiniteSet(slots(x))
  <2>1. IsFiniteSet(low[x]..high[x])
    BY FS_Interval
  <2>2. IsFiniteSet({x})
    BY FS_Singleton
  <2>3. QED BY <2>1, <2>2, FS_Product
<1>5. IsFiniteSet(UNION T)
  BY <1>3, <1>4, FS_UNION
<1>6. IsFiniteSet(SlotsOf(S, low, high))
  BY <1>5 DEF SlotsOf
<1>7. QED BY <1>6, FS_CardinalityType

LEMMA SlotsAre ==
  ASSUME NEW S, NEW low, NEW high, NEW p
  PROVE  p \in SlotsOf(S, low, high) <=> \E x \in S : \E i \in low[x]..high[x] : p = <<x, i>>
BY DEF SlotsOf

\* The free slots are those above in_use.
LEMMA FreeSlotsAre ==
  ASSUME NEW S \in SUBSET Hosts, capacity \in [Hosts -> Int], inUse \in [Hosts -> Int]
  PROVE  FreeSlots(S) = SlotsOf(S, [x \in Hosts |-> inUse[x] + 1], capacity)
<1> DEFINE low == [x \in Hosts |-> inUse[x] + 1]
<1>1. \A x \in S : {x} \X ((inUse[x] + 1)..capacity[x]) = {x} \X (low[x]..capacity[x])
  OBVIOUS
<1>2. {{x} \X ((inUse[x] + 1)..capacity[x]) : x \in S} = {{x} \X (low[x]..capacity[x]) : x \in S}
  BY <1>1
<1>3. QED BY <1>2 DEF FreeSlots, SlotsOf

LEMMA FreeSlotsFinite ==
  ASSUME NEW S \in SUBSET Hosts, capacity \in [Hosts -> Int], inUse \in [Hosts -> Int]
  PROVE  IsFiniteSet(FreeSlots(S)) /\ Cardinality(FreeSlots(S)) \in Nat
<1>1. [x \in Hosts |-> inUse[x] + 1] \in [Hosts -> Int]
  OBVIOUS
<1>2. QED BY <1>1, FreeSlotsAre, SlotsFinite

\* A row's place in the line is a number.
LEMMA NextInLineIsNat == Line + 1 \in Nat
<1>1. IsFiniteSet({r \in Runs : runs[r].admitted > 0})
  BY RunsAssumption, FS_Subset
<1>2. Line \in Nat
  BY <1>1, FS_CardinalityType DEF Line
<1>3. QED BY <1>2

-----------------------------------------------------------------------------
(* Types *)

LEMMA TypeInit == Init => TypeOK
<1> SUFFICES ASSUME Init PROVE TypeOK
  OBVIOUS
<1>1. NoRow \in Row
  BY BoundsAssumption DEF NoRow, Row, States, Workload
<1>2. QED BY <1>1, BoundsAssumption DEF Init, TypeOK

\* The rows that promotion, a claim and a release write are rows.
LEMMA PromotedRow ==
  ASSUME NEW row \in Row, NEW place \in Nat
  PROVE  [row EXCEPT !.state = "admitted", !.admitted = place] \in Row
BY DEF Row, States

LEMMA ClaimedRow ==
  ASSUME NEW row \in Row, NEW h \in Hosts, NEW token \in Nat, NEW epoch \in Nat,
         NEW lease \in 0..LeaseTicks
  PROVE  [row EXCEPT !.state = "claimed", !.executor = h, !.token = token,
                     !.reader = epoch, !.lease = lease] \in Row
BY DEF Row, States

LEMMA ReleasedRow ==
  ASSUME NEW row \in Row, NEW state \in States, NEW lease \in 0..LeaseTicks,
         NEW due \in BOOLEAN
  PROVE  [row EXCEPT !.state = state, !.executor = None, !.lease = lease,
                     !.due = due] \in Row
BY DEF Row

LEMMA TypeMembership == TypeOK /\ Membership => TypeOK'
<1> SUFFICES ASSUME TypeOK, NEW h \in Hosts, Register(h) \/ Deregister(h) \/ Heartbeat(h)
             PROVE  TypeOK'
  BY DEF Membership
<1>1. CASE Register(h)
  <2>1. capacity' \in [Hosts -> Int]
    <3>1. Cardinality(FreeSlots(Held(h))) \in Nat
      BY FreeSlotsFinite DEF TypeOK, Held
    <3>2. /\ capacity \in [Hosts -> Int]
          /\ inUse \in [Hosts -> Int]
          /\ Capacity \in [Hosts -> Int]
      BY CapacityAssumption DEF TypeOK
    <3>3. capacity' = [x \in Hosts |->
            IF x \in Held(h) THEN inUse[x]
            ELSE IF x # h THEN capacity[x]
            ELSE IF Held(h) = {} THEN Capacity[h] ELSE Cardinality(FreeSlots(Held(h)))]
      BY <1>1 DEF Register, RegisterBudget
    <3>4. QED BY <3>1, <3>2, <3>3
  <2>2. /\ registered' \subseteq enrolled'
        /\ enrolled' \subseteq Hosts
    BY <1>1 DEF Register, RegisterBudget, TypeOK
  <2>3. /\ successor' \in [Hosts -> Hosts \cup {None}]
        /\ inUse' \in [Hosts -> Int]
        /\ recentlyFull' \subseteq Hosts
    BY <1>1, <2>2 DEF Register, RegisterBudget, StampFullSince, TypeOK
  <2>4. /\ beat' \in [Hosts -> {"registered", "fresh", "stale"}]
        /\ pools' \in [Pools -> Definition \cup {None}]
    BY <1>1, DeclaresAssumption DEF Register, JoinPool, TypeOK
  <2>5. QED BY <1>1, <2>1, <2>2, <2>3, <2>4
            DEF Register, rowVars, claimVars, txnVars, TypeOK
<1>2. CASE Deregister(h)
  BY <1>2 DEF Deregister, rowVars, budgetVars, claimVars, txnVars, TypeOK
<1>3. CASE Heartbeat(h)
  BY <1>3 DEF Heartbeat, rowVars, budgetVars, claimVars, txnVars, TypeOK
<1>4. QED BY <1>1, <1>2, <1>3

LEMMA TypeStarting == TypeOK /\ Starting => TypeOK'
<1> SUFFICES ASSUME TypeOK, NEW r \in Runs,
                    \/ \E e \in WriterEpochs, w \in Workloads : Reserve(r, e, w)
                    \/ OpenStream(r)
                    \/ MarkAdmitted(r)
             PROVE  TypeOK'
  BY DEF Starting
<1>1. ASSUME NEW e \in WriterEpochs, NEW w \in Workloads, Reserve(r, e, w)
      PROVE  TypeOK'
  <2>1. runs' \in [Runs -> Row]
    <3> DEFINE row == [runs[r] EXCEPT !.state = "opening", !.writer = e, !.workload = w]
    <3>1. runs \in [Runs -> Row] /\ runs[r] \in Row
      BY DEF TypeOK
    <3>2. row \in Row
      BY <3>1, EpochAssumption, WorkloadsAssumption DEF Row, States
    <3>3. runs' = [runs EXCEPT ![r] = row]
      BY <1>1, <3>1 DEF Reserve
    <3>4. QED BY <3>1, <3>2, <3>3
  <2>2. QED BY <1>1, <2>1 DEF Reserve, hostVars, budgetVars, claimVars, txnVars, TypeOK
<1>2. CASE OpenStream(r)
  BY <1>2 DEF OpenStream, hostVars, budgetVars, claimVars, txnVars, TypeOK
<1>3. CASE MarkAdmitted(r)
  <2>1. runs' \in [Runs -> Row]
    <3> DEFINE row == [runs[r] EXCEPT !.state = "admitted", !.admitted = Line + 1]
    <3>1. runs \in [Runs -> Row] /\ runs[r] \in Row
      BY DEF TypeOK
    <3>2. row \in Row
      BY <3>1, NextInLineIsNat, PromotedRow
    <3>3. runs' = [runs EXCEPT ![r] = row]
      BY <1>3, <3>1 DEF MarkAdmitted, Promote
    <3>4. QED BY <3>1, <3>2, <3>3
  <2>2. QED BY <1>3, <2>1 DEF MarkAdmitted, hostVars, budgetVars, claimVars, txnVars, TypeOK
<1>4. QED BY <1>1, <1>2, <1>3

LEMMA TypeSweeping == TypeOK /\ Sweeping => TypeOK'
<1> SUFFICES ASSUME TypeOK, NEW h \in Hosts,
                    SweepProbe(h) \/ SweepSettle(h) \/ \E r \in Runs : SweepRead(h, r)
             PROVE  TypeOK'
  BY DEF Sweeping
<1>1. CASE SweepProbe(h)
  <2>1. sweep' \in [Hosts -> Look \cup {None}]
    <3>1. PICK answer \in {"unknown", "present", "absent"} :
            sweep' = [sweep EXCEPT ![h].presence = answer]
      BY <1>1 DEF SweepProbe
    <3>2. sweep[h] \in Look
      BY <1>1 DEF SweepProbe, TypeOK
    <3>3. [sweep[h] EXCEPT !.presence = answer] \in Look
      BY <3>2 DEF Look
    <3>4. QED BY <3>1, <3>3 DEF TypeOK
  <2>2. QED BY <1>1, <2>1 DEF SweepProbe, rowVars, hostVars, budgetVars, claimVars, TypeOK
<1>2. CASE SweepSettle(h)
  <2>1. sweep[h] \in Look
    BY <1>2 DEF SweepSettle, TypeOK
  <2>2. runs' \in [Runs -> Row]
    <3> DEFINE r == sweep[h].run
               promoted == [runs[r] EXCEPT !.state = "admitted", !.admitted = Line + 1]
               abandoned == [runs[r] EXCEPT !.state = "abandoned"]
    <3>1. r \in Runs /\ runs \in [Runs -> Row] /\ runs[r] \in Row
      BY <2>1 DEF TypeOK, Look
    <3>2. promoted \in Row /\ abandoned \in Row
      <4>1. promoted \in Row
        BY <3>1, NextInLineIsNat, PromotedRow
      <4>2. abandoned \in Row
        BY <3>1 DEF Row, States
      <4>3. QED BY <4>1, <4>2
    <3>3. \/ runs' = [runs EXCEPT ![r] = promoted]
          \/ runs' = [runs EXCEPT ![r] = abandoned]
          \/ runs' = runs
      BY <1>2, <3>1 DEF SweepSettle, Promote
    <3>4. QED BY <3>1, <3>2, <3>3
  <2>3. sweep' \in [Hosts -> Look \cup {None}]
    BY <1>2 DEF SweepSettle, TypeOK
  <2>4. QED BY <1>2, <2>2, <2>3 DEF SweepSettle, hostVars, budgetVars, claimVars, TypeOK
<1>3. ASSUME NEW r \in Runs, SweepRead(h, r)
      PROVE  TypeOK'
  <2>1. sweep' \in [Hosts -> Look \cup {None}]
    BY <1>3 DEF SweepRead, TypeOK, Look
  <2>2. QED BY <1>3, <2>1 DEF SweepRead, rowVars, hostVars, budgetVars, claimVars, TypeOK
<1>4. QED BY <1>1, <1>2, <1>3

LEMMA TypeClaims == TypeOK /\ Claims => TypeOK'
<1> SUFFICES ASSUME TypeOK, NEW h \in Hosts,
                    \/ \E r \in Runs : Claim(h, r)
                    \/ ClaimNothing(h)
                    \/ RecordCreateFailure(h)
                    \/ RecordCreateSuccess(h)
             PROVE  TypeOK'
  BY DEF Claims
<1>1. ASSUME NEW r \in Runs, Claim(h, r)
      PROVE  TypeOK'
  <2>1. runs' \in [Runs -> Row]
    <3> DEFINE row == [runs[r] EXCEPT !.state = "claimed", !.executor = h, !.token = @ + 1,
                                     !.reader = Epoch[h], !.lease = LeaseTicks]
    <3>1. runs \in [Runs -> Row] /\ runs[r] \in Row
      BY DEF TypeOK
    <3>2. row \in Row
      <4>1. runs[r].token + 1 \in Nat /\ Epoch[h] \in Nat /\ LeaseTicks \in 0..LeaseTicks
        BY <3>1, EpochAssumption, BoundsAssumption DEF Row
      <4>2. QED BY <3>1, <4>1, ClaimedRow
    <3>3. runs' = [runs EXCEPT ![r] = row]
      BY <1>1, <3>1 DEF Claim
    <3>4. QED BY <3>1, <3>2, <3>3
  <2>2. /\ inUse' \in [Hosts -> Int]
        /\ breaker' \in [Hosts -> {"closed", "disabled", "due"}]
        /\ checked' \subseteq Hosts
        /\ recentlyFull' \subseteq Hosts
    <3>1. /\ inUse \in [Hosts -> Int]
          /\ breaker \in [Hosts -> {"closed", "disabled", "due"}]
          /\ checked \subseteq Hosts
          /\ enrolled \subseteq Hosts
      BY DEF TypeOK
    <3>2. /\ inUse' = [inUse EXCEPT ![h] = @ + 1]
          /\ breaker' = [breaker EXCEPT ![h] = IF @ = "closed" THEN @ ELSE "disabled"]
          /\ checked' = checked \cup {h}
          /\ enrolled' = enrolled
          /\ recentlyFull' \subseteq enrolled'
      BY <1>1 DEF Claim, StampFullSince
    <3>3. QED BY <3>1, <3>2
  <2>3. QED BY <1>1, <2>1, <2>2 DEF Claim, hostVars, txnVars, TypeOK
<1>2. CASE ClaimNothing(h)
  BY <1>2 DEF ClaimNothing, rowVars, hostVars, budgetVars, txnVars, TypeOK
<1>3. CASE RecordCreateFailure(h)
  <2>1. failures' \in [Hosts -> 0..Threshold]
    BY <1>3, BoundsAssumption DEF RecordCreateFailure, TypeOK
  <2>2. breaker' \in [Hosts -> {"closed", "disabled", "due"}]
    BY <1>3 DEF RecordCreateFailure, TypeOK
  <2>3. QED BY <1>3, <2>1, <2>2
            DEF RecordCreateFailure, rowVars, hostVars, budgetVars, txnVars, TypeOK
<1>4. CASE RecordCreateSuccess(h)
  BY <1>4, BoundsAssumption
     DEF RecordCreateSuccess, rowVars, hostVars, budgetVars, txnVars, TypeOK
<1>5. QED BY <1>1, <1>2, <1>3, <1>4

\* Every way to begin a release records one that the row's state allows.
LEMMA TypeBeginRelease ==
  ASSUME TypeOK, NEW r \in Runs, NEW token, NEW from \in Charged,
         NEW to \in {"admitted"} \cup Terminal, NEW due \in BOOLEAN,
         BeginRelease(r, token, from, to, due)
  PROVE  TypeOK'
<1>1. releasing' \in [Runs -> Release \cup {None}]
  BY DEF BeginRelease, TypeOK, Release
<1>2. QED BY <1>1 DEF BeginRelease, rowVars, hostVars, budgetVars, claimVars, TypeOK

LEMMA TypeReleases == TypeOK /\ Releases => TypeOK'
<1> SUFFICES ASSUME TypeOK, NEW r \in Runs,
                    \/ \E token \in 1..runs[r].token :
                         \/ Renew(r, token)
                         \/ Close(r, token)
                         \/ CloseInterrupted(r, token)
                         \/ \E due \in BOOLEAN : Defer(r, token, due)
                    \/ CommitRelease(r)
                    \/ AbortRelease(r)
             PROVE  TypeOK'
  BY DEF Releases
<1>1. ASSUME NEW token, Renew(r, token)
      PROVE  TypeOK'
  <2>1. runs' \in [Runs -> Row]
    BY <1>1, BoundsAssumption DEF Renew, TypeOK, Row
  <2>2. QED BY <1>1, <2>1 DEF Renew, hostVars, budgetVars, claimVars, txnVars, TypeOK
<1>2. ASSUME NEW token, Close(r, token)
      PROVE  TypeOK'
  BY <1>2, TypeBeginRelease DEF Close, Charged, Terminal
<1>3. ASSUME NEW token, CloseInterrupted(r, token)
      PROVE  TypeOK'
  BY <1>3, TypeBeginRelease DEF CloseInterrupted, Charged, Terminal
<1>4. ASSUME NEW token, NEW due \in BOOLEAN, Defer(r, token, due)
      PROVE  TypeOK'
  BY <1>4, TypeBeginRelease DEF Defer, Charged
<1>5. CASE CommitRelease(r)
  <2>1. releasing[r] \in Release
    BY <1>5 DEF CommitRelease, TypeOK
  <2>2. runs' \in [Runs -> Row]
    <3> DEFINE row == [runs[r] EXCEPT !.state = releasing[r].to, !.executor = None,
                                     !.lease = 0, !.due = releasing[r].due]
    <3>1. runs \in [Runs -> Row] /\ runs[r] \in Row
      BY DEF TypeOK
    <3>2. row \in Row
      <4>1. releasing[r].to \in States /\ releasing[r].due \in BOOLEAN
        BY <2>1 DEF Release, States, Terminal
      <4>2. 0 \in 0..LeaseTicks
        BY BoundsAssumption
      <4>3. QED BY <3>1, <4>1, <4>2, ReleasedRow
    <3>3. runs' = [runs EXCEPT ![r] = row]
      BY <1>5, <3>1 DEF CommitRelease
    <3>4. QED BY <3>1, <3>2, <3>3
  <2>3. inUse' \in [Hosts -> Int] /\ capacity' \in [Hosts -> Int]
    <3>1. inUse \in [Hosts -> Int] /\ capacity \in [Hosts -> Int]
      BY DEF TypeOK
    <3>2. FreeSlot(runs[r].executor, releasing[r].seen)
      BY <1>5 DEF CommitRelease
    <3>3. ASSUME NEW c
          PROVE  [inUse EXCEPT ![c] = @ - 1] \in [Hosts -> Int]
      <4>1. CASE c \in Hosts
        BY <3>1, <4>1
      <4>2. CASE c \notin Hosts
        <5>1. [inUse EXCEPT ![c] = @ - 1] = inUse
          BY <3>1, <4>2
        <5>2. QED BY <3>1, <5>1
      <4>3. QED BY <4>1, <4>2
    <3>4. inUse' \in [Hosts -> Int]
      BY <3>2, <3>3 DEF FreeSlot
    <3>5. capacity' \in [Hosts -> Int]
      BY <3>1, <3>2 DEF FreeSlot
    <3>6. QED BY <3>4, <3>5
  <2>4. releasing' \in [Runs -> Release \cup {None}]
    BY <1>5 DEF CommitRelease, TypeOK
  <2>5. recentlyFull' \subseteq Hosts
    BY <1>5 DEF CommitRelease, StampFullSince, TypeOK
  <2>6. QED BY <1>5, <2>2, <2>3, <2>4, <2>5 DEF CommitRelease, hostVars, claimVars, TypeOK
<1>6. CASE AbortRelease(r)
  BY <1>6 DEF AbortRelease, rowVars, hostVars, budgetVars, claimVars, TypeOK
<1>7. QED BY <1>1, <1>2, <1>3, <1>4, <1>5, <1>6

LEMMA TypeReconciling == TypeOK /\ Reconciling => TypeOK'
<1> SUFFICES ASSUME TypeOK, NEW h \in Hosts, NEW r \in Runs,
                    \/ FenceExpired(h, r)
                    \/ TakeOver(h, r)
                    \/ \E token \in 1..runs[r].token : MarkReaped(h, r, token)
             PROVE  TypeOK'
  BY DEF Reconciling
<1>1. runs' \in [Runs -> Row]
  BY EpochAssumption DEF FenceExpired, TakeOver, MarkReaped, TypeOK, Row, States
<1>2. UNCHANGED <<stream, hostVars, budgetVars, claimVars, txnVars>>
  BY DEF FenceExpired, TakeOver, MarkReaped
<1>3. QED BY <1>1, <1>2 DEF hostVars, budgetVars, claimVars, txnVars, TypeOK

LEMMA TypeTime == TypeOK /\ Time => TypeOK'
<1> SUFFICES ASSUME TypeOK, Time PROVE TypeOK'
  OBVIOUS
<1>1. ASSUME NEW r \in Runs, LeaseTick(r) \/ RetryFallsDue(r)
      PROVE  TypeOK'
  <2>1. runs' \in [Runs -> Row]
    <3> DEFINE ticked == [runs[r] EXCEPT !.lease = @ - 1]
               fallen == [runs[r] EXCEPT !.due = TRUE]
    <3>1. runs \in [Runs -> Row] /\ runs[r] \in Row
      BY DEF TypeOK
    <3>2. fallen \in Row
      BY <3>1 DEF Row
    <3>3. runs[r].lease > 0 => ticked \in Row
      BY <3>1, BoundsAssumption DEF Row
    <3>4. \/ runs[r].lease > 0 /\ runs' = [runs EXCEPT ![r] = ticked]
          \/ runs' = [runs EXCEPT ![r] = fallen]
      BY <1>1, <3>1 DEF LeaseTick, RetryFallsDue
    <3>5. QED BY <3>1, <3>2, <3>3, <3>4
  <2>2. QED BY <1>1, <2>1
            DEF LeaseTick, RetryFallsDue, hostVars, budgetVars, claimVars, txnVars, TypeOK
<1>2. ASSUME NEW h \in Hosts, HeartbeatGoesStale(h)
      PROVE  TypeOK'
  BY <1>2 DEF HeartbeatGoesStale, rowVars, budgetVars, claimVars, txnVars, TypeOK
<1>3. ASSUME NEW h \in Hosts, ClaimCheckGoesStale(h)
      PROVE  TypeOK'
  BY <1>3 DEF ClaimCheckGoesStale, rowVars, hostVars, budgetVars, txnVars, TypeOK
<1>4. ASSUME NEW h \in Hosts, OverflowDelayPasses(h)
      PROVE  TypeOK'
  BY <1>4 DEF OverflowDelayPasses, rowVars, hostVars, claimVars, txnVars, TypeOK
<1>5. ASSUME NEW h \in Hosts, CooldownPasses(h)
      PROVE  TypeOK'
  BY <1>5 DEF CooldownPasses, rowVars, hostVars, budgetVars, txnVars, TypeOK
<1>6. QED BY <1>1, <1>2, <1>3, <1>4, <1>5 DEF Time

LEMMA TypeStep == TypeOK /\ [Next]_vars => TypeOK'
<1>1. TypeOK /\ UNCHANGED vars => TypeOK'
  BY DEF vars, rowVars, hostVars, budgetVars, claimVars, txnVars, TypeOK
<1>2. QED
  BY <1>1, TypeMembership, TypeStarting, TypeSweeping, TypeClaims, TypeReleases,
     TypeReconciling, TypeTime DEF Next

\* Every table keeps its types, whatever runs, hosts, pools and timings there are.
THEOREM TypeCorrect == Spec => []TypeOK
<1>1. QED BY TypeInit, TypeStep, PTL DEF Spec

-----------------------------------------------------------------------------
(* Accounting: the invariant *)

\* A release that waits was begun for the state its row is still in.
ReleaseMatchesRow ==
  \A r \in Runs : releasing[r] # None =>
    /\ releasing[r].from = runs[r].state
    /\ <<releasing[r].from, releasing[r].to>> \in
         {<<"claimed", "done">>, <<"claimed", "admitted">>, <<"reaped", "interrupted">>}

\* A budget row's successor is the newest process of its container, and from the
\* moment it has one the row's capacity is what is still charged to it.
Succession ==
  \A h \in Hosts :
    /\ h \notin enrolled => successor[h] = None /\ inUse[h] = 0
    /\ successor[h] # None =>
         /\ successor[h] \in enrolled
         /\ Container[successor[h]] = Container[h]
         /\ successor[successor[h]] = None
         /\ capacity[h] = inUse[h]

\* Two processes of one container are never both without a successor.
OneNewest ==
  \A g, h \in enrolled :
    g # h /\ Container[g] = Container[h] => successor[g] # None \/ successor[h] # None

AccountsInv ==
  /\ TypeOK
  /\ ExecutorIffCharged
  /\ ReleaseMatchesRow
  /\ ChargeConservation
  /\ WithinCapacity
  /\ Succession
  /\ OneNewest

LEMMA AccountsInit == Init => AccountsInv
<1> SUFFICES ASSUME Init PROVE AccountsInv
  OBVIOUS
<1>1. TypeOK
  BY TypeInit
<1>2. ExecutorIffCharged
  BY DEF Init, ExecutorIffCharged, NoRow, Charged
<1>3. ReleaseMatchesRow
  BY DEF Init, ReleaseMatchesRow
<1>4. ChargeConservation
  <2>1. ASSUME NEW h \in Hosts PROVE ChargedTo(h) = {}
    BY HostsAssumption DEF Init, ChargedTo, NoRow
  <2>2. QED BY <2>1, FS_EmptySet DEF Init, ChargeConservation
<1>5. WithinCapacity /\ Succession /\ OneNewest
  BY DEF Init, WithinCapacity, Succession, OneNewest
<1>6. QED BY <1>1, <1>2, <1>3, <1>4, <1>5 DEF AccountsInv

-----------------------------------------------------------------------------
(* Accounting: the steps that move no slot *)

\* Between a claim and a commit, a row keeps its executor, and a row whose
\* release waits keeps its state.
RowsKeepCharge ==
  \A r \in Runs :
    /\ runs'[r].executor = runs[r].executor
    /\ runs'[r].state \in Charged <=> runs[r].state \in Charged
    /\ releasing[r] # None => runs'[r].state = runs[r].state

LEMMA StartingKeepsCharge ==
  ASSUME TypeOK, ExecutorIffCharged, ReleaseMatchesRow, Starting \/ Sweeping
  PROVE  RowsKeepCharge /\ UNCHANGED <<enrolled, capacity, inUse, successor, releasing>>
<1>1. runs \in [Runs -> Row]
  BY DEF TypeOK
<1>2. ASSUME NEW r \in Runs, runs[r].state \in {"none", "opening", "abandoned"}
      PROVE  releasing[r] = None
  BY <1>2 DEF ReleaseMatchesRow
<1>3. ASSUME NEW r \in Runs, Promote(r)
      PROVE  RowsKeepCharge
  BY <1>1, <1>2, <1>3 DEF Promote, RowsKeepCharge, Charged
<1>4. ASSUME NEW r \in Runs, NEW e, NEW w, Reserve(r, e, w)
      PROVE  RowsKeepCharge
  BY <1>1, <1>2, <1>4 DEF Reserve, RowsKeepCharge, Charged
<1>5. ASSUME NEW h \in Hosts, SweepSettle(h)
      PROVE  RowsKeepCharge
  <2>1. sweep[h].run \in Runs
    BY <1>5 DEF SweepSettle, TypeOK, Look
  <2>2. CASE Promote(sweep[h].run)
    BY <1>3, <2>1, <2>2
  <2>3. CASE SweepAbandons(h) /\ runs' = [runs EXCEPT ![sweep[h].run].state = "abandoned"]
    BY <1>1, <1>2, <2>1, <2>3 DEF SweepAbandons, RowsKeepCharge, Charged
  <2>4. CASE UNCHANGED runs
    BY <2>4 DEF RowsKeepCharge
  <2>5. QED BY <1>5, <2>2, <2>3, <2>4 DEF SweepSettle
<1>6. UNCHANGED runs => RowsKeepCharge
  BY DEF RowsKeepCharge
<1>7. CASE Starting
  BY <1>3, <1>4, <1>6, <1>7
     DEF Starting, Reserve, OpenStream, MarkAdmitted, hostVars, budgetVars, txnVars
<1>8. CASE Sweeping
  BY <1>5, <1>6, <1>8
     DEF Sweeping, SweepRead, SweepProbe, SweepSettle, rowVars, hostVars, budgetVars
<1>9. QED BY <1>7, <1>8

LEMMA ReconcilingKeepsCharge ==
  ASSUME TypeOK, Reconciling \/ Time
  PROVE  RowsKeepCharge /\ UNCHANGED <<enrolled, capacity, inUse, successor, releasing>>
<1>1. runs \in [Runs -> Row]
  BY DEF TypeOK
<1>2. UNCHANGED runs => RowsKeepCharge
  BY DEF RowsKeepCharge
<1>3. CASE Reconciling
  <2>1. PICK h \in Hosts, r \in Runs :
          \/ FenceExpired(h, r)
          \/ TakeOver(h, r)
          \/ \E token \in 1..runs[r].token : MarkReaped(h, r, token)
    BY <1>3 DEF Reconciling
  <2>2. RowsKeepCharge
    <3>1. CASE FenceExpired(h, r)
      BY <1>1, <3>1 DEF FenceExpired, Unlocked, RowsKeepCharge, Charged
    <3>2. CASE TakeOver(h, r)
      BY <1>1, <3>2 DEF TakeOver, RowsKeepCharge
    <3>3. ASSUME NEW token, MarkReaped(h, r, token)
          PROVE  RowsKeepCharge
      BY <1>1, <3>3 DEF MarkReaped, Unlocked, RowsKeepCharge, Charged
    <3>4. QED BY <2>1, <3>1, <3>2, <3>3
  <2>3. QED BY <2>1, <2>2 DEF FenceExpired, TakeOver, MarkReaped, budgetVars, txnVars
<1>4. CASE Time
  <2>1. ASSUME NEW r \in Runs, LeaseTick(r) \/ RetryFallsDue(r)
        PROVE  RowsKeepCharge /\ UNCHANGED <<enrolled, capacity, inUse, successor, releasing>>
    <3>1. RowsKeepCharge
      <4>1. CASE LeaseTick(r)
        BY <1>1, <4>1 DEF LeaseTick, RowsKeepCharge
      <4>2. CASE RetryFallsDue(r)
        BY <1>1, <4>2 DEF RetryFallsDue, RowsKeepCharge
      <4>3. QED BY <2>1, <4>1, <4>2
    <3>2. QED BY <2>1, <3>1 DEF LeaseTick, RetryFallsDue, budgetVars, txnVars
  <2>2. QED BY <1>2, <1>4, <2>1
            DEF Time, HeartbeatGoesStale, ClaimCheckGoesStale, OverflowDelayPasses,
                CooldownPasses, rowVars, budgetVars, txnVars
<1>5. QED BY <1>3, <1>4

\* What such a step keeps of the invariant.
LEMMA KeptCharge ==
  ASSUME ExecutorIffCharged, ChargeConservation, RowsKeepCharge, UNCHANGED inUse
  PROVE  ExecutorIffCharged' /\ ChargeConservation'
<1>1. ExecutorIffCharged'
  BY DEF ExecutorIffCharged, RowsKeepCharge
<1>2. ASSUME NEW h \in Hosts PROVE ChargedTo(h)' = ChargedTo(h)
  BY DEF ChargedTo, RowsKeepCharge
<1>3. QED BY <1>1, <1>2 DEF ChargeConservation

LEMMA KeptReleases ==
  ASSUME ReleaseMatchesRow, RowsKeepCharge, UNCHANGED releasing
  PROVE  ReleaseMatchesRow'
BY DEF ReleaseMatchesRow, RowsKeepCharge

LEMMA KeptBudgets ==
  ASSUME WithinCapacity, Succession, OneNewest,
         UNCHANGED <<enrolled, capacity, inUse, successor>>
  PROVE  WithinCapacity' /\ Succession' /\ OneNewest'
BY DEF WithinCapacity, Succession, OneNewest

LEMMA AccountsKept ==
  ASSUME AccountsInv, TypeOK', RowsKeepCharge,
         UNCHANGED <<enrolled, capacity, inUse, successor, releasing>>
  PROVE  AccountsInv'
BY KeptCharge, KeptReleases, KeptBudgets DEF AccountsInv

-----------------------------------------------------------------------------
(* Accounting: the steps that move slots *)

\* A process that registers takes over what its predecessors have free and
\* leaves each of them exactly what is charged to it.
LEMMA AccountsRegister ==
  ASSUME AccountsInv, TypeOK', NEW h \in Hosts, Register(h)
  PROVE  AccountsInv'
<1> USE DEF AccountsInv
<1>1. /\ capacity \in [Hosts -> Int]
      /\ inUse \in [Hosts -> Int]
      /\ successor \in [Hosts -> Hosts \cup {None}]
      /\ enrolled \subseteq Hosts
      /\ Capacity \in [Hosts -> Nat]
      /\ None \notin Hosts
  BY CapacityAssumption, HostsAssumption DEF TypeOK
<1>2. /\ h \notin enrolled
      /\ enrolled' = enrolled \cup {h}
      /\ inUse' = inUse
      /\ successor' = [x \in Hosts |-> IF x \in Held(h) THEN h ELSE successor[x]]
      /\ \A x \in Hosts : x \in Held(h) => capacity'[x] = inUse[x]
      /\ \A x \in Hosts : x # h /\ x \notin Held(h) => capacity'[x] = capacity[x]
  BY DEF Register, RegisterBudget, Held
<1>3. capacity'[h] >= 0
  <2>1. Cardinality(FreeSlots(Held(h))) \in Nat
    BY <1>1, FreeSlotsFinite DEF Held
  <2>2. capacity'[h] = IF Held(h) = {} THEN Capacity[h] ELSE Cardinality(FreeSlots(Held(h)))
    BY DEF Register, RegisterBudget, Held
  <2>3. QED BY <1>1, <2>1, <2>2
<1>4. inUse[h] = 0 /\ successor[h] = None
  BY <1>2 DEF Succession
<1>5. RowsKeepCharge /\ UNCHANGED <<inUse, releasing>>
  BY <1>2 DEF Register, rowVars, txnVars, RowsKeepCharge
<1>6. ExecutorIffCharged' /\ ChargeConservation' /\ ReleaseMatchesRow'
  BY <1>5, KeptCharge, KeptReleases
<1>7. WithinCapacity'
  <2> SUFFICES ASSUME NEW x \in Hosts PROVE inUse'[x] <= capacity'[x]
    BY DEF WithinCapacity
  <2>1. CASE x = h
    BY <1>2, <1>3, <1>4, <2>1
  <2>2. CASE x \in Held(h)
    BY <1>1, <1>2, <2>2
  <2>3. CASE x # h /\ x \notin Held(h)
    BY <1>1, <1>2, <2>3 DEF WithinCapacity
  <2>4. QED BY <2>1, <2>2, <2>3
<1>8. Succession'
  <2> SUFFICES ASSUME NEW x \in Hosts
               PROVE  /\ x \notin enrolled' => successor'[x] = None /\ inUse'[x] = 0
                      /\ successor'[x] # None =>
                           /\ successor'[x] \in enrolled'
                           /\ Container[successor'[x]] = Container[x]
                           /\ successor'[successor'[x]] = None
                           /\ capacity'[x] = inUse'[x]
    BY DEF Succession
  <2>1. successor'[h] = None
    BY <1>2, <1>4 DEF Held
  <2>2. CASE x \in Held(h)
    BY <1>1, <1>2, <2>1, <2>2 DEF Held
  <2>3. CASE x = h
    BY <1>2, <2>1, <2>3
  <2>4. CASE x # h /\ x \notin Held(h)
    <3>1. successor'[x] = successor[x]
      BY <1>2, <2>4
    <3>2. CASE successor[x] = None
      BY <1>2, <2>4, <3>1, <3>2 DEF Succession
    <3>3. CASE successor[x] # None
      <4>1. /\ x \in enrolled
            /\ successor[x] \in enrolled
            /\ Container[successor[x]] = Container[x]
            /\ successor[successor[x]] = None
            /\ capacity[x] = inUse[x]
        BY <3>3 DEF Succession
      <4>2. successor[x] \notin Held(h)
        BY <2>4, <4>1 DEF Held
      <4>3. QED BY <1>1, <1>2, <2>4, <3>1, <4>1, <4>2
    <3>4. QED BY <3>2, <3>3
  <2>5. QED BY <2>2, <2>3, <2>4
<1>9. OneNewest'
  <2> SUFFICES ASSUME NEW f \in enrolled', NEW g \in enrolled', f # g, Container[f] = Container[g]
               PROVE  successor'[f] # None \/ successor'[g] # None
    BY DEF OneNewest
  <2>1. CASE f = h
    BY <1>1, <1>2, <2>1 DEF Held
  <2>2. CASE g = h
    BY <1>1, <1>2, <2>2 DEF Held
  <2>3. CASE f # h /\ g # h
    BY <1>1, <1>2, <2>3 DEF OneNewest
  <2>4. QED BY <2>1, <2>2, <2>3
<1>10. QED BY <1>6, <1>7, <1>8, <1>9

\* A claim charges one row, unlocked and unclaimed, to a process with room, which
\* therefore has no successor.
LEMMA AccountsClaim ==
  ASSUME AccountsInv, TypeOK', NEW h \in Hosts, NEW r \in Runs, Claim(h, r)
  PROVE  AccountsInv'
<1> USE DEF AccountsInv
<1>1. /\ runs \in [Runs -> Row]
      /\ capacity \in [Hosts -> Int]
      /\ inUse \in [Hosts -> Int]
      /\ None \notin Hosts
  BY HostsAssumption DEF TypeOK
<1>2. /\ runs[r].state = "admitted"
      /\ inUse[h] < capacity[h]
      /\ h \in enrolled
      /\ inUse' = [inUse EXCEPT ![h] = @ + 1]
      /\ UNCHANGED <<enrolled, capacity, successor, releasing>>
  BY <1>1 DEF Claim, MayTake, Full, Claiming, TypeOK, txnVars
<1>3. /\ runs'[r].state = "claimed"
      /\ runs'[r].executor = h
      /\ \A q \in Runs \ {r} : runs'[q] = runs[q]
  BY <1>1 DEF Claim
<1>4. releasing[r] = None
  BY <1>2 DEF ReleaseMatchesRow
<1>5. runs[r].executor = None
  BY <1>2 DEF ExecutorIffCharged, Charged
<1>6. ExecutorIffCharged'
  BY <1>1, <1>3 DEF ExecutorIffCharged, Charged
<1>7. ReleaseMatchesRow'
  BY <1>2, <1>3, <1>4 DEF ReleaseMatchesRow
<1>8. ChargeConservation'
  <2> SUFFICES ASSUME NEW x \in Hosts
               PROVE  inUse'[x] = Cardinality(ChargedTo(x)')
    BY DEF ChargeConservation
  <2>1. IsFiniteSet(ChargedTo(x)) /\ inUse[x] = Cardinality(ChargedTo(x))
    BY RunsAssumption, FS_Subset DEF ChargedTo, ChargeConservation
  <2>2. CASE x = h
    <3>1. ChargedTo(x)' = ChargedTo(x) \cup {r} /\ r \notin ChargedTo(x)
      BY <1>1, <1>3, <1>5, <2>2 DEF ChargedTo
    <3>2. Cardinality(ChargedTo(x)') = Cardinality(ChargedTo(x)) + 1
      BY <2>1, <3>1, FS_AddElement
    <3>3. QED BY <1>1, <1>2, <2>1, <2>2, <3>2
  <2>3. CASE x # h
    <3>1. ChargedTo(x)' = ChargedTo(x)
      BY <1>1, <1>3, <1>5, <2>3 DEF ChargedTo
    <3>2. QED BY <1>1, <1>2, <2>1, <2>3, <3>1
  <2>4. QED BY <2>2, <2>3
<1>9. WithinCapacity'
  BY <1>1, <1>2 DEF WithinCapacity
<1>10. Succession'
  <2>1. successor[h] = None
    BY <1>1, <1>2 DEF Succession
  <2>2. QED BY <1>1, <1>2, <2>1 DEF Succession
<1>11. OneNewest'
  BY <1>2 DEF OneNewest
<1>12. QED BY <1>6, <1>7, <1>8, <1>9, <1>10, <1>11

\* A release frees one slot of the process its row is charged to; if that process
\* has a successor its capacity falls with it, whether or not the successor's grows.
LEMMA AccountsCommitRelease ==
  ASSUME AccountsInv, TypeOK', NEW r \in Runs, CommitRelease(r)
  PROVE  AccountsInv'
<1> USE DEF AccountsInv
<1> DEFINE c == runs[r].executor
           s == successor[c]
<1>1. /\ runs \in [Runs -> Row]
      /\ capacity \in [Hosts -> Int]
      /\ inUse \in [Hosts -> Int]
      /\ successor \in [Hosts -> Hosts \cup {None}]
      /\ None \notin Hosts
  BY HostsAssumption DEF TypeOK
<1>2. /\ runs[r].state \in Charged
      /\ releasing[r] # None
      /\ releasing[r].to \notin Charged
  BY DEF CommitRelease, ReleaseMatchesRow, Charged
<1>3. c \in Hosts
  BY <1>1, <1>2 DEF ExecutorIffCharged, Row
<1>4. /\ runs'[r].state \notin Charged
      /\ runs'[r].executor = None
      /\ \A q \in Runs \ {r} : runs'[q] = runs[q]
  BY <1>1, <1>2 DEF CommitRelease
<1>5. /\ releasing'[r] = None
      /\ \A q \in Runs \ {r} : releasing'[q] = releasing[q]
  BY DEF CommitRelease, TypeOK
<1>6. /\ UNCHANGED <<enrolled, successor>>
      /\ inUse' = [inUse EXCEPT ![c] = @ - 1]
      /\ s = None => capacity' = capacity
      /\ s # None => capacity'[c] = capacity[c] - 1
      /\ \A x \in Hosts : x # c => capacity'[x] \in {capacity[x], capacity[x] + 1}
      /\ \A x \in Hosts : x \notin {c, s} => capacity'[x] = capacity[x]
  BY <1>1, <1>3 DEF CommitRelease, FreeSlot
<1>7. IsFiniteSet(ChargedTo(c)) /\ inUse[c] = Cardinality(ChargedTo(c)) /\ r \in ChargedTo(c)
  BY <1>3, RunsAssumption, FS_Subset DEF ChargedTo, ChargeConservation
<1>8. inUse[c] # 0
  BY <1>7, FS_EmptySet
<1>9. ExecutorIffCharged'
  BY <1>4 DEF ExecutorIffCharged
<1>10. ReleaseMatchesRow'
  BY <1>4, <1>5 DEF ReleaseMatchesRow
<1>11. ChargeConservation'
  <2> SUFFICES ASSUME NEW x \in Hosts
               PROVE  inUse'[x] = Cardinality(ChargedTo(x)')
    BY DEF ChargeConservation
  <2>1. CASE x = c
    <3>1. ChargedTo(x)' = ChargedTo(x) \ {r}
      BY <1>1, <1>3, <1>4, <2>1 DEF ChargedTo
    <3>2. Cardinality(ChargedTo(x)') = Cardinality(ChargedTo(x)) - 1
      BY <1>7, <2>1, <3>1, FS_RemoveElement
    <3>3. QED BY <1>1, <1>6, <1>7, <2>1, <3>2
  <2>2. CASE x # c
    <3>1. ChargedTo(x)' = ChargedTo(x)
      BY <1>1, <1>4, <2>2 DEF ChargedTo
    <3>2. QED BY <1>1, <1>3, <1>6, <2>2, <3>1 DEF ChargeConservation
  <2>3. QED BY <2>1, <2>2
<1>12. WithinCapacity'
  <2> SUFFICES ASSUME NEW x \in Hosts PROVE inUse'[x] <= capacity'[x]
    BY DEF WithinCapacity
  <2>1. inUse[x] <= capacity[x]
    BY DEF WithinCapacity
  <2>2. CASE x = c
    BY <1>1, <1>3, <1>6, <2>1, <2>2
  <2>3. CASE x # c
    BY <1>1, <1>3, <1>6, <2>1, <2>3
  <2>4. QED BY <2>2, <2>3
<1>13. Succession'
  <2> SUFFICES ASSUME NEW x \in Hosts
               PROVE  /\ x \notin enrolled => successor[x] = None /\ inUse'[x] = 0
                      /\ successor[x] # None =>
                           /\ successor[x] \in enrolled
                           /\ Container[successor[x]] = Container[x]
                           /\ successor[successor[x]] = None
                           /\ capacity'[x] = inUse'[x]
    BY <1>6 DEF Succession
  <2>1. CASE x = c
    <3>1. x \in enrolled
      BY <1>8, <2>1 DEF Succession
    <3>2. QED BY <1>1, <1>3, <1>6, <2>1, <3>1 DEF Succession
  <2>2. CASE x # c
    <3>1. inUse'[x] = inUse[x]
      BY <1>1, <1>3, <1>6, <2>2
    <3>2. successor[x] # None => x # s
      <4>1. s # None => successor[s] = None
        BY <1>3 DEF Succession
      <4>2. QED BY <1>1, <4>1
    <3>3. successor[x] # None => capacity'[x] = capacity[x]
      BY <1>6, <2>2, <3>2
    <3>4. QED BY <3>1, <3>3 DEF Succession
  <2>3. QED BY <2>1, <2>2
<1>14. OneNewest'
  BY <1>6 DEF OneNewest
<1>15. QED BY <1>9, <1>10, <1>11, <1>12, <1>13, <1>14

\* Beginning a release notes the state it found; nothing else moves until it commits.
LEMMA AccountsBeginRelease ==
  ASSUME AccountsInv, TypeOK', NEW r \in Runs, NEW token, NEW due,
         \/ Close(r, token)
         \/ CloseInterrupted(r, token)
         \/ Defer(r, token, due)
  PROVE  AccountsInv'
<1> USE DEF AccountsInv
<1>1. PICK from, to :
        /\ BeginRelease(r, token, from, to, due) \/ BeginRelease(r, token, from, to, TRUE)
        /\ <<from, to>> \in
             {<<"claimed", "done">>, <<"claimed", "admitted">>, <<"reaped", "interrupted">>}
  BY DEF Close, CloseInterrupted, Defer
<1>2. UNCHANGED <<runs, enrolled, capacity, inUse, successor>>
  BY <1>1 DEF BeginRelease, rowVars, budgetVars
<1>3. RowsKeepCharge
  BY <1>2 DEF RowsKeepCharge
<1>4. ReleaseMatchesRow'
  <2>1. /\ runs[r].state = from
        /\ releasing'[r].from = from
        /\ releasing'[r].to = to
        /\ \A q \in Runs \ {r} : releasing'[q] = releasing[q]
    BY <1>1 DEF BeginRelease, TypeOK
  <2>2. QED BY <1>1, <1>2, <2>1 DEF ReleaseMatchesRow
<1>5. QED BY <1>2, <1>3, <1>4, KeptCharge, KeptBudgets

LEMMA AccountsReleases == AccountsInv /\ TypeOK' /\ Releases => AccountsInv'
<1> SUFFICES ASSUME AccountsInv, TypeOK', NEW r \in Runs,
                    \/ \E token \in 1..runs[r].token :
                         \/ Renew(r, token)
                         \/ Close(r, token)
                         \/ CloseInterrupted(r, token)
                         \/ \E due \in BOOLEAN : Defer(r, token, due)
                    \/ CommitRelease(r)
                    \/ AbortRelease(r)
             PROVE  AccountsInv'
  BY DEF Releases
<1>1. ASSUME NEW token, Renew(r, token)
      PROVE  AccountsInv'
  <2>1. RowsKeepCharge
    BY <1>1 DEF Renew, Unlocked, RowsKeepCharge, AccountsInv, TypeOK
  <2>2. QED BY <1>1, <2>1, AccountsKept DEF Renew, budgetVars, txnVars
<1>2. ASSUME NEW token, NEW due, Close(r, token) \/ CloseInterrupted(r, token) \/ Defer(r, token, due)
      PROVE  AccountsInv'
  BY <1>2, AccountsBeginRelease
<1>3. CASE CommitRelease(r)
  BY <1>3, AccountsCommitRelease
<1>4. CASE AbortRelease(r)
  <2>1. UNCHANGED <<runs, enrolled, capacity, inUse, successor>>
    BY <1>4 DEF AbortRelease, rowVars, budgetVars
  <2>2. RowsKeepCharge
    BY <2>1 DEF RowsKeepCharge
  <2>3. ReleaseMatchesRow'
    BY <1>4, <2>1 DEF AbortRelease, ReleaseMatchesRow, AccountsInv, TypeOK
  <2>4. QED BY <2>1, <2>2, <2>3, KeptCharge, KeptBudgets DEF AccountsInv
<1>5. QED BY <1>1, <1>2, <1>3, <1>4

-----------------------------------------------------------------------------
(* Accounting: the theorems *)

LEMMA AccountsStep == AccountsInv /\ [Next]_vars => AccountsInv'
<1> SUFFICES ASSUME AccountsInv, [Next]_vars PROVE AccountsInv'
  OBVIOUS
<1>1. TypeOK'
  BY TypeStep DEF AccountsInv
<1>2. UNCHANGED runs => RowsKeepCharge
  BY DEF RowsKeepCharge
<1>3. CASE Membership
  <2>1. PICK h \in Hosts : Register(h) \/ Deregister(h) \/ Heartbeat(h)
    BY <1>3 DEF Membership
  <2>2. CASE Register(h)
    BY <1>1, <2>2, AccountsRegister
  <2>3. CASE Deregister(h) \/ Heartbeat(h)
    BY <1>1, <1>2, <2>3, AccountsKept DEF Deregister, Heartbeat, rowVars, budgetVars, txnVars
  <2>4. QED BY <2>1, <2>2, <2>3
<1>4. CASE Starting \/ Sweeping
  BY <1>1, <1>4, StartingKeepsCharge, AccountsKept DEF AccountsInv
<1>5. CASE Claims
  <2>1. PICK h \in Hosts :
          \/ \E r \in Runs : Claim(h, r)
          \/ ClaimNothing(h) \/ RecordCreateFailure(h) \/ RecordCreateSuccess(h)
    BY <1>5 DEF Claims
  <2>2. ASSUME NEW r \in Runs, Claim(h, r)
        PROVE  AccountsInv'
    BY <1>1, <2>2, AccountsClaim
  <2>3. CASE ClaimNothing(h) \/ RecordCreateFailure(h) \/ RecordCreateSuccess(h)
    BY <1>1, <1>2, <2>3, AccountsKept
       DEF ClaimNothing, RecordCreateFailure, RecordCreateSuccess, rowVars, budgetVars, txnVars
  <2>4. QED BY <2>1, <2>2, <2>3
<1>6. CASE Releases
  BY <1>1, <1>6, AccountsReleases
<1>7. CASE Reconciling \/ Time
  BY <1>1, <1>7, ReconcilingKeepsCharge, AccountsKept DEF AccountsInv
<1>8. CASE UNCHANGED vars
  BY <1>1, <1>2, <1>8, AccountsKept DEF vars, rowVars, budgetVars, txnVars
<1>9. QED BY <1>3, <1>4, <1>5, <1>6, <1>7, <1>8 DEF Next

THEOREM AccountsInvariant == Spec => []AccountsInv
<1>1. QED BY AccountsInit, AccountsStep, PTL DEF Spec

\* in_use is the number of rows charged to the executor, in every reachable state
\* of every fleet: no interleaving of claims, late or repeated releases, fencing,
\* takeovers and restarts loses or double-counts a slot.
THEOREM ChargesConserved == Spec => []ChargeConservation
<1>1. AccountsInv => ChargeConservation
  BY DEF AccountsInv
<1>2. QED BY <1>1, AccountsInvariant, PTL

\* The CHECK that in_use stays within capacity never fires.
THEOREM NeverOverCapacity == Spec => []WithinCapacity
<1>1. AccountsInv => WithinCapacity
  BY DEF AccountsInv
<1>2. QED BY <1>1, AccountsInvariant, PTL

\* Two generations of one container never both have a slot to claim with.
THEOREM NewestClaimsAlone == Spec => []OneClaimantPerMachine
<1>1. AccountsInv => OneClaimantPerMachine
  <2> SUFFICES ASSUME AccountsInv, NEW g \in enrolled, NEW h \in enrolled,
                      g # h, Container[g] = Container[h]
               PROVE  Full(g) \/ Full(h)
    BY DEF OneClaimantPerMachine
  <2>1. g \in Hosts /\ h \in Hosts /\ inUse \in [Hosts -> Int] /\ capacity \in [Hosts -> Int]
    BY DEF AccountsInv, TypeOK
  <2>2. successor[g] # None \/ successor[h] # None
    BY DEF AccountsInv, OneNewest
  <2>3. capacity[g] = inUse[g] \/ capacity[h] = inUse[h]
    BY <2>1, <2>2 DEF AccountsInv, Succession
  <2>4. QED BY <2>1, <2>3 DEF Full
<1>2. QED BY <1>1, AccountsInvariant, PTL

-----------------------------------------------------------------------------
(* A machine's slots.  A process that registers takes exactly the slots its *)
(* predecessors have free, so the sum over its machine's rows stays; a      *)
(* release charged to a predecessor takes one slot off that row, and gives  *)
(* one to the successor's only if its snapshot has that row.                *)

\* The rows of h's machine.
RowsOf(h) == {y \in enrolled : Container[y] = Container[h]}

One == [x \in Hosts |-> 1]

LEMMA MachineSlotsAre ==
  ASSUME TypeOK, NEW h \in Hosts
  PROVE  /\ MachineSlots(h) = SlotsOf(RowsOf(h), One, capacity)
         /\ IsFiniteSet(MachineSlots(h)) /\ MachineCapacity(h) \in Nat
<1>1. RowsOf(h) \in SUBSET Hosts
  BY DEF RowsOf, TypeOK
<1>2. \A x \in RowsOf(h) : {x} \X (1..capacity[x]) = {x} \X (One[x]..capacity[x])
  BY <1>1 DEF One
<1>3. {{x} \X (1..capacity[x]) : x \in RowsOf(h)} = {{x} \X (One[x]..capacity[x]) : x \in RowsOf(h)}
  BY <1>2
<1>4. MachineSlots(h) = SlotsOf(RowsOf(h), One, capacity)
  BY <1>3 DEF MachineSlots, SlotsOf, RowsOf
<1>5. One \in [Hosts -> Int] /\ capacity \in [Hosts -> Int]
  BY DEF One, TypeOK
<1>6. QED BY <1>1, <1>4, <1>5, SlotsFinite DEF MachineCapacity

\* A step that leaves the rows of h's machine alone.
LEMMA MachineKept ==
  ASSUME TypeOK, TypeOK', NEW h \in Hosts, RowsOf(h)' = RowsOf(h),
         \A x \in RowsOf(h) : capacity'[x] = capacity[x]
  PROVE  MachineCapacity(h)' = MachineCapacity(h)
<1>1. {{x} \X (1..capacity'[x]) : x \in RowsOf(h)} = {{x} \X (1..capacity[x]) : x \in RowsOf(h)}
  OBVIOUS
<1>2. MachineSlots(h)' = MachineSlots(h)
  BY <1>1 DEF MachineSlots, RowsOf
<1>3. QED BY <1>2 DEF MachineCapacity

LEMMA ChargesAreNat ==
  ASSUME AccountsInv, NEW x \in Hosts
  PROVE  inUse[x] \in Nat /\ capacity[x] \in Nat /\ inUse[x] <= capacity[x]
<1>1. IsFiniteSet(ChargedTo(x))
  BY RunsAssumption, FS_Subset DEF ChargedTo
<1>2. inUse[x] \in Nat
  BY <1>1, FS_CardinalityType DEF AccountsInv, ChargeConservation
<1>3. capacity[x] \in Int /\ inUse[x] <= capacity[x]
  BY DEF AccountsInv, TypeOK, WithinCapacity
<1>4. QED BY <1>2, <1>3

\* What a new process is given is what its predecessors lose.
LEMMA RegisterKeepsMachine ==
  ASSUME AccountsInv, TypeOK', NEW h \in Hosts, Register(h), NEW g \in enrolled
  PROVE  MachineCapacity(g)' = MachineCapacity(g)
<1>1. /\ TypeOK /\ enrolled \subseteq Hosts /\ g \in Hosts /\ h \notin enrolled
      /\ enrolled' = enrolled \cup {h} /\ inUse' = inUse
      /\ capacity \in [Hosts -> Int] /\ inUse \in [Hosts -> Int] /\ capacity' \in [Hosts -> Int]
      /\ \A x \in Hosts : x \in Held(h) => capacity'[x] = inUse[x]
      /\ \A x \in Hosts : x # h /\ x \notin Held(h) => capacity'[x] = capacity[x]
  BY DEF AccountsInv, TypeOK, Register, RegisterBudget, Held
<1>2. CASE Container[g] # Container[h]
  <2>1. RowsOf(g)' = RowsOf(g) /\ \A x \in RowsOf(g) : x \in Hosts /\ x # h /\ x \notin Held(h)
    BY <1>1, <1>2 DEF RowsOf, Held
  <2>2. QED BY <1>1, <2>1, MachineKept
<1>3. CASE Container[g] = Container[h]
  <2> DEFINE M == RowsOf(g)
             U == SlotsOf(M, One, inUse)
             F == FreeSlots(M)
             N == Cardinality(F)
  <2>1. M = Held(h) /\ M # {} /\ M \in SUBSET Hosts /\ h \notin M /\ RowsOf(g)' = M \cup {h}
    BY <1>1, <1>3 DEF RowsOf, Held
  <2>2. /\ \A x \in M : capacity'[x] = inUse[x]
        /\ capacity'[h] = N
    BY <1>1, <2>1 DEF Register, RegisterBudget, Held
  <2>3. \A x \in M : inUse[x] \in Nat /\ capacity[x] \in Nat /\ inUse[x] <= capacity[x]
    BY <2>1, ChargesAreNat
  <2>4. /\ One \in [Hosts -> Int]
        /\ F = SlotsOf(M, [x \in Hosts |-> inUse[x] + 1], capacity)
        /\ IsFiniteSet(U) /\ IsFiniteSet(F) /\ N \in Nat /\ Cardinality(U) \in Nat
    <3>1. One \in [Hosts -> Int]
      BY DEF One
    <3>2. QED BY <1>1, <2>1, <3>1, FreeSlotsAre, FreeSlotsFinite, SlotsFinite
  <2> HIDE DEF M, U, F, N
  <2>5. /\ \A p : p \in U <=> \E x \in M : \E i \in 1..inUse[x] : p = <<x, i>>
        /\ \A p : p \in F <=> \E x \in M : \E i \in (inUse[x] + 1)..capacity[x] : p = <<x, i>>
    <3>1. \A x \in M : One[x] = 1 /\ [y \in Hosts |-> inUse[y] + 1][x] = inUse[x] + 1
      BY <2>1 DEF One
    <3>2. U = SlotsOf(M, One, inUse)
      BY DEF U
    <3>3. QED BY <2>4, <3>1, <3>2, SlotsAre
  <2>6. MachineSlots(g) = U \cup F
    <3>1. MachineSlots(g) = SlotsOf(M, One, capacity)
      BY <1>1, MachineSlotsAre DEF M
    <3>2. \A p : p \in MachineSlots(g) <=> \E x \in M : \E i \in 1..capacity[x] : p = <<x, i>>
      <4>1. \A x \in M : One[x] = 1
        BY <2>1 DEF One
      <4>2. QED BY <3>1, <4>1, SlotsAre
    <3>3. \A x \in M : \A i : i \in 1..capacity[x] <=> i \in 1..inUse[x] \/ i \in (inUse[x] + 1)..capacity[x]
      BY <2>3
    <3>4. \A p : p \in MachineSlots(g) <=> p \in U \/ p \in F
      BY <2>5, <3>2, <3>3
    <3>5. QED BY <3>4
  <2>7. U \cap F = {}
    <3>1. \A x \in M : \A i : ~(i \in 1..inUse[x] /\ i \in (inUse[x] + 1)..capacity[x])
      BY <2>3
    <3>2. QED BY <2>5, <3>1
  <2>8. MachineCapacity(g) = Cardinality(U) + N
    <3>1. Cardinality(U \cup F) = Cardinality(U) + Cardinality(F) - Cardinality(U \cap F)
      BY <2>4, FS_Union
    <3>2. Cardinality(U \cap F) = 0 /\ MachineCapacity(g) = Cardinality(U \cup F)
      BY <2>6, <2>7, FS_EmptySet DEF MachineCapacity
    <3>3. Cardinality(F) = N
      BY DEF N
    <3>4. QED BY <2>4, <3>1, <3>2, <3>3
  <2> DEFINE V == {h} \X (1..N)
  <2>9. IsFiniteSet(V) /\ Cardinality(V) = N
    <3>1. IsFiniteSet(1..N) /\ Cardinality(1..N) = N
      BY <2>4, FS_Interval
    <3>2. IsFiniteSet({h}) /\ Cardinality({h}) = 1
      BY FS_Singleton
    <3>3. IsFiniteSet(V) /\ Cardinality(V) = Cardinality({h}) * Cardinality(1..N)
      BY <3>1, <3>2, FS_Product
    <3>4. QED BY <2>4, <3>1, <3>2, <3>3
  <2>10. MachineSlots(g)' = U \cup V
    <3>1. MachineSlots(g)' = UNION {{x} \X (1..capacity'[x]) : x \in M \cup {h}}
      BY <2>1 DEF MachineSlots, RowsOf
    <3>2. \A p : p \in MachineSlots(g)' <=> \E x \in M \cup {h} : \E i \in 1..capacity'[x] : p = <<x, i>>
      BY <3>1
    <3>3. \A p : p \in V <=> \E i \in 1..capacity'[h] : p = <<h, i>>
      BY <2>2
    <3>4. \A p : p \in U <=> \E x \in M : \E i \in 1..capacity'[x] : p = <<x, i>>
      BY <2>2, <2>5
    <3>5. QED BY <3>2, <3>3, <3>4
  <2>11. U \cap V = {}
    BY <2>1, <2>5
  <2>12. MachineCapacity(g)' = Cardinality(U) + N
    <3>1. Cardinality(U \cup V) = Cardinality(U) + Cardinality(V) - Cardinality(U \cap V)
      BY <2>4, <2>9, FS_Union
    <3>2. Cardinality(U \cap V) = 0 /\ MachineCapacity(g)' = Cardinality(U \cup V)
      BY <2>10, <2>11, FS_EmptySet DEF MachineCapacity
    <3>3. QED BY <2>4, <2>9, <3>1, <3>2
  <2>13. QED BY <2>8, <2>12
<1>4. QED BY <1>2, <1>3

\* A slot freed by a predecessor leaves its row; the successor's gains at most that one.
LEMMA ReleaseKeepsMachine ==
  ASSUME AccountsInv, TypeOK', NEW r \in Runs, CommitRelease(r), NEW g \in enrolled
  PROVE  MachineCapacity(g)' <= MachineCapacity(g)
<1> DEFINE c == runs[r].executor
           s == successor[c]
<1>1. /\ TypeOK /\ enrolled \subseteq Hosts /\ g \in Hosts /\ enrolled' = enrolled
      /\ runs \in [Runs -> Row] /\ capacity \in [Hosts -> Int] /\ inUse \in [Hosts -> Int]
      /\ successor \in [Hosts -> Hosts \cup {None}] /\ None \notin Hosts
  BY HostsAssumption DEF AccountsInv, TypeOK, CommitRelease
<1>2. runs[r].state \in Charged
  BY DEF CommitRelease, AccountsInv, ReleaseMatchesRow, Charged
<1>3. c \in Hosts
  BY <1>1, <1>2 DEF AccountsInv, ExecutorIffCharged, Row
<1>4. /\ s = None => capacity' = capacity
      /\ s # None => /\ capacity'[c] = capacity[c] - 1
                     /\ \A x \in Hosts : x # c => capacity'[x] <= IF x = s THEN capacity[s] + 1 ELSE capacity[x]
  BY <1>1, <1>3 DEF CommitRelease, FreeSlot
<1>5. inUse[c] >= 1
  <2>1. IsFiniteSet(ChargedTo(c)) /\ inUse[c] = Cardinality(ChargedTo(c)) /\ r \in ChargedTo(c)
    BY <1>3, RunsAssumption, FS_Subset DEF ChargedTo, AccountsInv, ChargeConservation
  <2>2. inUse[c] # 0
    BY <2>1, FS_EmptySet
  <2>3. QED BY <1>3, <2>2, ChargesAreNat
<1>6. RowsOf(g)' = RowsOf(g) /\ RowsOf(g) \subseteq Hosts
  BY <1>1 DEF RowsOf
<1>7. CASE s = None
  <2>1. MachineCapacity(g)' = MachineCapacity(g)
    BY <1>1, <1>4, <1>6, <1>7, MachineKept
  <2>2. QED BY <1>1, <2>1, MachineSlotsAre
<1>8. CASE s # None
  <2>1. /\ s \in Hosts /\ s # c /\ Container[s] = Container[c] /\ capacity[c] = inUse[c]
        /\ c \in enrolled
    <3>1. successor[c] # None => /\ successor[c] \in enrolled /\ Container[successor[c]] = Container[c]
                                 /\ successor[successor[c]] = None /\ capacity[c] = inUse[c]
      BY <1>3 DEF AccountsInv, Succession
    <3>2. c \in enrolled
      BY <1>3, <1>8 DEF AccountsInv, Succession
    <3>3. QED BY <1>1, <1>8, <3>1, <3>2
  <2> DEFINE top == <<c, capacity[c]>>
             new == <<s, capacity[s] + 1>>
             S == MachineSlots(g)
             rows == RowsOf(g)
  <2>2. /\ capacity[c] \in Nat /\ capacity[c] >= 1 /\ capacity[s] \in Nat
        /\ capacity' \in [Hosts -> Int]
    BY <1>3, <1>5, <2>1, ChargesAreNat DEF TypeOK
  <2>3. IsFiniteSet(S) /\ Cardinality(S) \in Nat /\ MachineCapacity(g) = Cardinality(S)
    BY <1>1, MachineSlotsAre DEF MachineCapacity
  <2>4. /\ \A p : p \in S <=> \E x \in rows : \E i \in 1..capacity[x] : p = <<x, i>>
        /\ MachineSlots(g)' = UNION {{x} \X (1..capacity'[x]) : x \in rows}
    BY <1>6 DEF MachineSlots, RowsOf
  <2>5. \A p : p \in MachineSlots(g)' <=> \E x \in rows : \E i \in 1..capacity'[x] : p = <<x, i>>
    BY <2>4
  <2>6. rows \subseteq Hosts
    BY <1>6
  <2> HIDE DEF S, rows, c, s
  <2>7. \A x \in rows : x # c => capacity'[x] <= IF x = s THEN capacity[s] + 1 ELSE capacity[x]
    BY <1>4, <1>8, <2>6
  <2>8. capacity'[c] = capacity[c] - 1
    BY <1>4, <1>8
  <2>9. CASE c \in rows
    <3>1. top \in S
      BY <2>2, <2>4, <2>9
    <3>2. ASSUME NEW p \in MachineSlots(g)'
          PROVE  p \in (S \ {top}) \cup {new}
      <4>1. PICK x \in rows : \E i \in 1..capacity'[x] : p = <<x, i>>
        BY <2>5, <3>2
      <4>2. PICK i \in 1..capacity'[x] : p = <<x, i>>
        BY <4>1
      <4>3. capacity[x] \in Int /\ capacity'[x] \in Int
        BY <1>1, <2>2, <2>6
      <4>4. CASE x = c
        BY <2>2, <2>4, <2>8, <4>2, <4>4
      <4>5. CASE x = s
        <5>1. i \in 1..capacity[s] \/ i = capacity[s] + 1
          BY <2>1, <2>2, <2>7, <4>2, <4>3, <4>5
        <5>2. QED BY <2>1, <2>4, <4>2, <4>5, <5>1
      <4>6. CASE x # c /\ x # s
        <5>1. i \in 1..capacity[x]
          BY <2>7, <4>2, <4>3, <4>6
        <5>2. QED BY <2>4, <4>2, <4>6, <5>1
      <4>7. QED BY <4>4, <4>5, <4>6
    <3>3. IsFiniteSet(S \ {top}) /\ Cardinality(S \ {top}) = Cardinality(S) - 1
      BY <2>3, <3>1, FS_RemoveElement
    <3>4. PICK T : T = (S \ {top}) \cup {new}
      OBVIOUS
    <3>5. IsFiniteSet(T) /\ Cardinality(T) <= Cardinality(S) /\ Cardinality(T) \in Nat
      <4>1. PICK R : R = S \ {top}
        OBVIOUS
      <4>2. IsFiniteSet(R) /\ Cardinality(R) = Cardinality(S) - 1 /\ Cardinality(R) \in Nat
        BY <3>3, <4>1, FS_CardinalityType
      <4>3. IsFiniteSet(R \cup {new}) /\
            Cardinality(R \cup {new}) = IF new \in R THEN Cardinality(R) ELSE Cardinality(R) + 1
        BY <4>2, FS_AddElement
      <4>4. T = R \cup {new}
        BY <3>4, <4>1
      <4>5. QED BY <2>3, <4>2, <4>3, <4>4
    <3>6. MachineSlots(g)' \in SUBSET T
      BY <3>2, <3>4
    <3>7. Cardinality(MachineSlots(g)') <= Cardinality(T) /\ Cardinality(MachineSlots(g)') \in Nat
      BY <3>5, <3>6, FS_Subset, FS_CardinalityType
    <3>8. MachineCapacity(g)' = Cardinality(MachineSlots(g)')
      BY DEF MachineCapacity
    <3>9. QED BY <2>3, <3>5, <3>7, <3>8
  <2>10. CASE c \notin rows
    <3>1. s \notin rows
      BY <2>1, <2>10 DEF rows, RowsOf
    <3>2. RowsOf(g)' = RowsOf(g) /\ \A x \in RowsOf(g) : capacity'[x] = capacity[x]
      <4>1. \A x \in Hosts : x # c /\ x # s => capacity'[x] = capacity[x]
        BY <1>1, <1>3, <1>8 DEF CommitRelease, FreeSlot, c, s
      <4>2. QED BY <1>6, <2>6, <2>10, <3>1, <4>1 DEF rows
    <3>3. MachineCapacity(g)' = MachineCapacity(g)
      BY <1>1, <3>2, MachineKept
    <3>4. QED BY <2>3, <3>3
  <2>11. QED BY <2>9, <2>10
<1>9. QED BY <1>7, <1>8

\* The rows' membership and capacity change only when a process registers or a release commits.
LEMMA SlotsMove ==
  ASSUME AccountsInv, [Next]_vars
  PROVE  \/ UNCHANGED <<enrolled, capacity>>
         \/ \E h \in Hosts : Register(h)
         \/ \E r \in Runs : CommitRelease(r)
<1>1. CASE Membership
  BY <1>1 DEF Membership, Deregister, Heartbeat, budgetVars
<1>2. CASE Starting \/ Sweeping
  BY <1>2, StartingKeepsCharge DEF AccountsInv
<1>3. CASE Claims
  BY <1>3 DEF Claims, Claim, ClaimNothing, RecordCreateFailure, RecordCreateSuccess, budgetVars
<1>4. CASE Releases
  BY <1>4 DEF Releases, Renew, Close, CloseInterrupted, Defer, BeginRelease, AbortRelease, budgetVars
<1>5. CASE Reconciling \/ Time
  BY <1>5, ReconcilingKeepsCharge DEF AccountsInv
<1>6. CASE UNCHANGED vars
  BY <1>6 DEF vars, budgetVars
<1>7. QED BY <1>1, <1>2, <1>3, <1>4, <1>5, <1>6 DEF Next

\* However its processes come, go and release late, whatever they ask for and whatever a release's
\* snapshot knew, a machine never gains a slot (_register_budget, _free_slot).
THEOREM MachinesNeverGrow == Spec => MachineNeverGrows
<1>1. AccountsInv /\ AccountsInv' /\ [Next]_vars =>
        [\A h \in enrolled : MachineCapacity(h)' <= MachineCapacity(h)]_vars
  <2> SUFFICES ASSUME AccountsInv, AccountsInv', [Next]_vars, NEW g \in enrolled
               PROVE  MachineCapacity(g)' <= MachineCapacity(g)
    OBVIOUS
  <2>1. TypeOK /\ TypeOK' /\ g \in Hosts
    BY DEF AccountsInv, TypeOK
  <2>2. MachineCapacity(g) \in Nat
    BY <2>1, MachineSlotsAre
  <2>3. CASE UNCHANGED <<enrolled, capacity>>
    <3>1. RowsOf(g)' = RowsOf(g) /\ \A x \in RowsOf(g) : capacity'[x] = capacity[x]
      BY <2>3 DEF RowsOf
    <3>2. MachineCapacity(g)' = MachineCapacity(g)
      BY <2>1, <3>1, MachineKept
    <3>3. QED BY <2>2, <3>2
  <2>4. ASSUME NEW h \in Hosts, Register(h)
        PROVE  MachineCapacity(g)' <= MachineCapacity(g)
    <3>1. MachineCapacity(g)' = MachineCapacity(g)
      BY <2>1, <2>4, RegisterKeepsMachine
    <3>2. QED BY <2>2, <3>1
  <2>5. ASSUME NEW r \in Runs, CommitRelease(r)
        PROVE  MachineCapacity(g)' <= MachineCapacity(g)
    BY <2>1, <2>5, ReleaseKeepsMachine
  <2>6. QED BY <2>3, <2>4, <2>5, SlotsMove
<1>2. QED BY <1>1, AccountsInvariant, PTL DEF Spec, MachineNeverGrows

-----------------------------------------------------------------------------
(* What a step may do to a row *)

\* The statements that write a row.
RowWrite(r) ==
  \/ \E e \in WriterEpochs, w \in Workloads : Reserve(r, e, w)
  \/ /\ Promote(r)
     /\ r \in stream \/ \E h \in Hosts : sweep[h] # None /\ sweep[h].run = r /\ SweepPromotes(h)
  \/ runs[r].state = "opening" /\ runs' = [runs EXCEPT ![r].state = "abandoned"]
  \/ \E h \in Hosts : Claim(h, r) \/ FenceExpired(h, r) \/ TakeOver(h, r)
  \/ \E h \in Hosts : \E token : MarkReaped(h, r, token)
  \/ \E token : Renew(r, token)
  \/ CommitRelease(r)
  \/ LeaseTick(r)
  \/ RetryFallsDue(r)

\* Every step writes at most one row, by one of those statements.
LEMMA RowSteps ==
  ASSUME TypeOK, [Next]_vars
  PROVE  \/ UNCHANGED runs
         \/ \E r \in Runs : RowWrite(r) /\ \A q \in Runs \ {r} : runs'[q] = runs[q]
<1> USE DEF TypeOK, RowWrite
<1>1. CASE Membership
  BY <1>1 DEF Membership, Register, Deregister, Heartbeat, rowVars
<1>2. CASE Starting
  BY <1>2 DEF Starting, Reserve, OpenStream, MarkAdmitted, Promote
<1>3. CASE Sweeping
  <2>1. ASSUME NEW h \in Hosts, SweepSettle(h)
        PROVE  \/ UNCHANGED runs
               \/ \E r \in Runs : RowWrite(r) /\ \A q \in Runs \ {r} : runs'[q] = runs[q]
    <3>1. sweep[h].run \in Runs
      BY <2>1 DEF SweepSettle, Look
    <3>2. QED BY <2>1, <3>1 DEF SweepSettle, SweepAbandons, Promote
  <2>2. QED BY <1>3, <2>1 DEF Sweeping, SweepProbe, SweepRead, rowVars
<1>4. CASE Claims
  <2>1. ASSUME NEW h \in Hosts, NEW r \in Runs, Claim(h, r)
        PROVE  \A q \in Runs \ {r} : runs'[q] = runs[q]
    BY <2>1 DEF Claim
  <2>2. \/ \E h \in Hosts, r \in Runs : Claim(h, r)
        \/ UNCHANGED runs
    BY <1>4 DEF Claims, ClaimNothing, RecordCreateFailure, RecordCreateSuccess, rowVars
  <2>3. QED BY <2>1, <2>2
<1>5. CASE Releases
  <2>1. PICK r \in Runs :
          \/ \E token \in 1..runs[r].token :
               \/ Renew(r, token)
               \/ Close(r, token)
               \/ CloseInterrupted(r, token)
               \/ \E due \in BOOLEAN : Defer(r, token, due)
          \/ CommitRelease(r)
          \/ AbortRelease(r)
    BY <1>5 DEF Releases
  <2>2. (\E token : Renew(r, token)) \/ CommitRelease(r)
          => \A q \in Runs \ {r} : runs'[q] = runs[q]
    BY DEF Renew, CommitRelease
  <2>3. \/ (\E token : Renew(r, token)) \/ CommitRelease(r)
        \/ UNCHANGED runs
    BY <2>1 DEF Close, CloseInterrupted, Defer, BeginRelease, AbortRelease, rowVars
  <2>4. QED BY <2>2, <2>3
<1>6. CASE Reconciling
  <2>1. PICK h \in Hosts, r \in Runs :
          \/ FenceExpired(h, r)
          \/ TakeOver(h, r)
          \/ \E token : MarkReaped(h, r, token)
    BY <1>6 DEF Reconciling
  <2>2. \A q \in Runs \ {r} : runs'[q] = runs[q]
    BY <2>1 DEF FenceExpired, TakeOver, MarkReaped
  <2>3. QED BY <2>1, <2>2
<1>7. CASE Time
  <2>1. ASSUME NEW r \in Runs, LeaseTick(r) \/ RetryFallsDue(r)
        PROVE  \A q \in Runs \ {r} : runs'[q] = runs[q]
    BY <2>1 DEF LeaseTick, RetryFallsDue
  <2>2. \/ \E r \in Runs : LeaseTick(r) \/ RetryFallsDue(r)
        \/ UNCHANGED runs
    BY <1>7 DEF Time, HeartbeatGoesStale, ClaimCheckGoesStale, OverflowDelayPasses,
                CooldownPasses, rowVars
  <2>3. QED BY <2>1, <2>2
<1>8. CASE UNCHANGED vars
  BY <1>8 DEF vars, rowVars
<1>9. QED BY <1>1, <1>2, <1>3, <1>4, <1>5, <1>6, <1>7, <1>8 DEF Next

LEMMA HandoverStep ==
  ASSUME AccountsInv, [Next]_vars
  PROVE  \A r \in Runs :
           /\ runs[r].token <= runs'[r].token
           /\ \/ runs'[r].executor \notin {None, runs[r].executor}
              \/ runs'[r].reconciler # runs[r].reconciler
              => runs[r].token < runs'[r].token
<1>1. runs \in [Runs -> Row] /\ \A r \in Runs : runs[r].token \in Nat
  BY DEF AccountsInv, TypeOK, Row
<1>2. ASSUME NEW r \in Runs, RowWrite(r)
      PROVE  /\ runs[r].token <= runs'[r].token
             /\ \/ runs'[r].executor \notin {None, runs[r].executor}
                \/ runs'[r].reconciler # runs[r].reconciler
                => runs[r].token < runs'[r].token
  <2>1. CASE \E h \in Hosts : Claim(h, r) \/ FenceExpired(h, r) \/ TakeOver(h, r)
    <3>1. runs'[r].token = runs[r].token + 1
      <4>1. PICK h \in Hosts : Claim(h, r) \/ FenceExpired(h, r) \/ TakeOver(h, r)
        BY <2>1
      <4>2. Claim(h, r) => runs'[r].token = runs[r].token + 1
        BY <1>1 DEF Claim
      <4>3. FenceExpired(h, r) => runs'[r].token = runs[r].token + 1
        BY <1>1 DEF FenceExpired
      <4>4. TakeOver(h, r) => runs'[r].token = runs[r].token + 1
        BY <1>1 DEF TakeOver
      <4>5. QED BY <4>1, <4>2, <4>3, <4>4
    <3>2. QED BY <1>1, <3>1
  <2>2. CASE \E token : Renew(r, token)
    BY <1>1, <2>2 DEF Renew
  <2>3. CASE CommitRelease(r)
    BY <1>1, <2>3 DEF CommitRelease
  <2>4. CASE LeaseTick(r) \/ RetryFallsDue(r)
    <3>1. LeaseTick(r) => /\ runs'[r].token = runs[r].token
                          /\ runs'[r].executor = runs[r].executor
                          /\ runs'[r].reconciler = runs[r].reconciler
      BY <1>1 DEF LeaseTick
    <3>2. RetryFallsDue(r) => /\ runs'[r].token = runs[r].token
                              /\ runs'[r].executor = runs[r].executor
                              /\ runs'[r].reconciler = runs[r].reconciler
      BY <1>1 DEF RetryFallsDue
    <3>3. QED BY <1>1, <2>4, <3>1, <3>2
  <2>5. CASE Promote(r)
    BY <1>1, <2>5 DEF Promote
  <2>6. CASE \E e \in WriterEpochs, w \in Workloads : Reserve(r, e, w)
    BY <1>1, <2>6 DEF Reserve
  <2>7. CASE runs' = [runs EXCEPT ![r].state = "abandoned"]
    BY <1>1, <2>7
  <2>8. CASE \E h \in Hosts : \E token : MarkReaped(h, r, token)
    BY <1>1, <2>8 DEF MarkReaped
  <2>9. QED BY <1>2, <2>1, <2>2, <2>3, <2>4, <2>5, <2>6, <2>7, <2>8 DEF RowWrite
<1>3. QED BY <1>1, <1>2, RowSteps DEF AccountsInv

\* Each holding of a row, by an executor or by a reconciler, has a token of its
\* own: a delayed call made under an earlier one never matches the row again.
THEOREM HandoversBumpTokens == Spec => HandoverBumpsToken
BY HandoverStep, AccountsInvariant, PTL DEF Spec, HandoverBumpsToken

\* A fenced row stays so until it is closed, with its executor until it is reaped.
LEMMA FencedMoves ==
  ASSUME AccountsInv, [Next]_vars, NEW r \in Runs, runs[r].state \in Fenced
  PROVE  /\ runs'[r].state \in Fenced \cup {"interrupted"}
         /\ runs[r].state = "fencing" => runs'[r].executor = runs[r].executor
<1>1. runs \in [Runs -> Row] /\ ReleaseMatchesRow
  BY DEF AccountsInv, TypeOK
<1>2. CASE RowWrite(r)
  <2>1. CASE \E h \in Hosts : TakeOver(h, r)
    BY <1>1, <2>1 DEF TakeOver
  <2>2. CASE \E h \in Hosts : \E token : MarkReaped(h, r, token)
    BY <1>1, <2>2 DEF MarkReaped, Fenced
  <2>3. CASE CommitRelease(r)
    BY <1>1, <2>3 DEF CommitRelease, ReleaseMatchesRow, Fenced
  <2>4. CASE LeaseTick(r) \/ RetryFallsDue(r)
    <3>1. LeaseTick(r) => runs'[r].state = runs[r].state /\ runs'[r].executor = runs[r].executor
      BY <1>1 DEF LeaseTick
    <3>2. RetryFallsDue(r) => runs'[r].state = runs[r].state /\ runs'[r].executor = runs[r].executor
      BY <1>1 DEF RetryFallsDue
    <3>3. QED BY <2>4, <3>1, <3>2
  <2>5. QED BY <1>2, <2>1, <2>2, <2>3, <2>4
            DEF RowWrite, Reserve, Promote, Claim, MayTake, FenceExpired, Renew, Fenced
<1>3. QED BY <1>1, <1>2, RowSteps DEF AccountsInv, Fenced

\* A run whose lease was seen expired is never executed again, and keeps its slot
\* until its row is marked reaped, whatever calls of its last executor arrive late.
THEOREM FencedRunsStayFenced == Spec => FencedNeverRuns
<1>1. ASSUME AccountsInv, [Next]_vars
      PROVE  \A r \in Runs :
               /\ runs[r].state \in Fenced => runs'[r].state \in Fenced \cup {"interrupted"}
               /\ runs[r].state = "fencing" => runs'[r].executor = runs[r].executor
  BY <1>1, FencedMoves DEF Fenced
<1>2. QED BY <1>1, AccountsInvariant, PTL DEF Spec, FencedNeverRuns

\* Only a row that was fenced has a reconciler.
Unreconciled ==
  \A r \in Runs : runs[r].state \notin Fenced \cup {"interrupted"} => runs[r].reconciler = None

LEMMA UnreconciledStep ==
  ASSUME AccountsInv, Unreconciled, [Next]_vars
  PROVE  Unreconciled'
<1>1. runs \in [Runs -> Row] /\ ReleaseMatchesRow
  BY DEF AccountsInv, TypeOK
<1>2. ASSUME NEW r \in Runs, RowWrite(r), runs'[r].state \notin Fenced \cup {"interrupted"}
      PROVE  runs'[r].reconciler = None
  <2>1. CASE \E h \in Hosts : Claim(h, r) \/ FenceExpired(h, r) \/ TakeOver(h, r)
    <3>1. PICK h \in Hosts : Claim(h, r) \/ FenceExpired(h, r) \/ TakeOver(h, r)
      BY <2>1
    <3>2. CASE Claim(h, r)
      BY <1>1, <3>2 DEF Claim, MayTake, Unreconciled, Fenced
    <3>3. CASE FenceExpired(h, r)
      BY <1>1, <1>2, <3>3 DEF FenceExpired, Fenced
    <3>4. CASE TakeOver(h, r)
      BY <1>1, <1>2, <3>4 DEF TakeOver
    <3>5. QED BY <3>1, <3>2, <3>3, <3>4
  <2>2. CASE \E h \in Hosts : \E token : MarkReaped(h, r, token)
    BY <1>1, <1>2, <2>2 DEF MarkReaped, Fenced
  <2>3. CASE \E token : Renew(r, token)
    BY <1>1, <2>3 DEF Renew, Unreconciled, Fenced
  <2>4. CASE CommitRelease(r)
    BY <1>1, <1>2, <2>4 DEF CommitRelease, ReleaseMatchesRow, Unreconciled, Fenced
  <2>5. CASE LeaseTick(r)
    BY <1>1, <1>2, <2>5 DEF LeaseTick, Unreconciled
  <2>6. CASE RetryFallsDue(r)
    BY <1>1, <1>2, <2>6 DEF RetryFallsDue, Unreconciled
  <2>7. CASE Promote(r)
    BY <1>1, <2>7 DEF Promote, Unreconciled, Fenced
  <2>8. CASE \E e \in WriterEpochs, w \in Workloads : Reserve(r, e, w)
    BY <1>1, <2>8 DEF Reserve, Unreconciled, Fenced
  <2>9. CASE runs[r].state = "opening" /\ runs' = [runs EXCEPT ![r].state = "abandoned"]
    BY <1>1, <2>9 DEF Unreconciled, Fenced
  <2>10. QED BY <1>2, <2>1, <2>2, <2>3, <2>4, <2>5, <2>6, <2>7, <2>8, <2>9 DEF RowWrite
<1>3. QED BY <1>2, RowSteps DEF AccountsInv, Unreconciled

LEMMA UnreconciledInvariant == Spec => []Unreconciled
<1>1. Init => Unreconciled
  BY DEF Init, NoRow, Unreconciled
<1>2. QED BY <1>1, UnreconciledStep, AccountsInvariant, PTL DEF Spec

\* A reconciler is replaced only once its executor_hosts row is gone: two
\* processes never reap the same run, and none is evicted for being slow.
THEOREM ReconcilersAreNotEvicted == Spec => ReconcilerReplacedOnceLeft
<1>1. ASSUME AccountsInv, Unreconciled, [Next]_vars
      PROVE  \A r \in Runs :
               runs[r].reconciler \in registered => runs'[r].reconciler = runs[r].reconciler
  <2>1. /\ runs \in [Runs -> Row]
        /\ None \notin registered
    BY <1>1, HostsAssumption DEF AccountsInv, TypeOK
  <2>2. ASSUME NEW r \in Runs, RowWrite(r), runs[r].reconciler \in registered
        PROVE  runs'[r].reconciler = runs[r].reconciler
    <3>1. runs[r].state \in Fenced \cup {"interrupted"}
      BY <1>1, <2>1, <2>2 DEF Unreconciled
    <3>2. CASE \E h \in Hosts : \E token : MarkReaped(h, r, token)
      BY <2>1, <3>2 DEF MarkReaped
    <3>3. CASE CommitRelease(r)
      BY <2>1, <3>3 DEF CommitRelease
    <3>4. CASE LeaseTick(r)
      BY <2>1, <3>4 DEF LeaseTick
    <3>5. CASE RetryFallsDue(r)
      BY <2>1, <3>5 DEF RetryFallsDue
    <3>6. QED BY <2>2, <3>1, <3>2, <3>3, <3>4, <3>5
              DEF RowWrite, Reserve, Promote, Claim, MayTake, FenceExpired, TakeOver, Renew, Fenced
  <2>3. QED BY <1>1, <2>2, RowSteps DEF AccountsInv
<1>2. QED BY <1>1, AccountsInvariant, UnreconciledInvariant, PTL
          DEF Spec, ReconcilerReplacedOnceLeft

-----------------------------------------------------------------------------
(* Queued is recorded *)

\* What the sweep was told is still so: a stream that was present stays present.
ProbesAreTrue ==
  \A h \in Hosts : sweep[h] # None /\ sweep[h].presence = "present" => sweep[h].run \in stream

\* Streams are never closed, and only the sweep writes what it knows of a row.
LEMMA StreamsStay ==
  ASSUME [Next]_vars
  PROVE  stream \subseteq stream' /\ (Sweeping \/ UNCHANGED sweep)
<1>1. CASE Membership
  BY <1>1 DEF Membership, Register, Deregister, Heartbeat, rowVars, txnVars
<1>2. CASE Starting
  BY <1>2 DEF Starting, Reserve, OpenStream, MarkAdmitted, txnVars
<1>3. CASE Sweeping
  BY <1>3 DEF Sweeping, SweepRead, SweepProbe, SweepSettle, rowVars
<1>4. CASE Claims
  BY <1>4 DEF Claims, Claim, ClaimNothing, RecordCreateFailure, RecordCreateSuccess,
              rowVars, txnVars
<1>5. CASE Releases
  BY <1>5 DEF Releases, Renew, Close, CloseInterrupted, Defer, BeginRelease, CommitRelease,
              AbortRelease, rowVars, txnVars
<1>6. CASE Reconciling
  BY <1>6 DEF Reconciling, FenceExpired, TakeOver, MarkReaped, txnVars
<1>7. CASE Time
  BY <1>7 DEF Time, LeaseTick, RetryFallsDue, HeartbeatGoesStale, ClaimCheckGoesStale,
              OverflowDelayPasses, CooldownPasses, rowVars, txnVars
<1>8. CASE UNCHANGED vars
  BY <1>8 DEF vars, rowVars, txnVars
<1>9. QED BY <1>1, <1>2, <1>3, <1>4, <1>5, <1>6, <1>7, <1>8 DEF Next

\* No sweep, early or late, and no late caller queues a run whose start the event
\* store does not have, even while the store fails to answer.
THEOREM QueuedRunsAreRecorded == Spec => []QueuedIsRecorded
<1>1. Init => QueuedIsRecorded /\ ProbesAreTrue
  BY DEF Init, NoRow, QueuedIsRecorded, ProbesAreTrue
<1>2. ASSUME AccountsInv, QueuedIsRecorded, ProbesAreTrue, [Next]_vars
      PROVE  QueuedIsRecorded' /\ ProbesAreTrue'
  <2>1. /\ runs \in [Runs -> Row]
        /\ sweep \in [Hosts -> Look \cup {None}]
        /\ ReleaseMatchesRow
    BY <1>2 DEF AccountsInv, TypeOK
  <2>2. stream \subseteq stream' /\ (Sweeping \/ UNCHANGED sweep)
    BY <1>2, StreamsStay
  <2>3. ProbesAreTrue'
    <3>1. CASE UNCHANGED sweep
      BY <1>2, <2>2, <3>1 DEF ProbesAreTrue
    <3>2. CASE Sweeping
      <4>1. ASSUME NEW h \in Hosts, NEW r \in Runs, SweepRead(h, r)
            PROVE  ProbesAreTrue'
        BY <1>2, <2>1, <2>2, <4>1 DEF SweepRead, ProbesAreTrue
      <4>2. ASSUME NEW h \in Hosts, SweepProbe(h)
            PROVE  ProbesAreTrue'
        <5>1. PICK answer \in {"unknown", IF sweep[h].run \in stream THEN "present" ELSE "absent"} :
                sweep' = [sweep EXCEPT ![h].presence = answer]
          BY <4>2 DEF SweepProbe
        <5>2. sweep[h] # None /\ sweep[h] \in Look
          BY <2>1, <4>2 DEF SweepProbe
        <5>3. /\ sweep'[h].run = sweep[h].run
              /\ sweep'[h].presence = answer
              /\ \A x \in Hosts \ {h} : sweep'[x] = sweep[x]
          BY <2>1, <5>1, <5>2 DEF Look
        <5>4. QED BY <1>2, <2>2, <5>1, <5>3 DEF ProbesAreTrue
      <4>3. ASSUME NEW h \in Hosts, SweepSettle(h)
            PROVE  ProbesAreTrue'
        BY <1>2, <2>1, <2>2, <4>3 DEF SweepSettle, ProbesAreTrue
      <4>4. QED BY <3>2, <4>1, <4>2, <4>3 DEF Sweeping
    <3>3. QED BY <2>2, <3>1, <3>2
  <2>4. ASSUME NEW r \in Runs, RowWrite(r),
               runs'[r].state \notin {"none", "opening", "abandoned"}
        PROVE  r \in stream
    <3>1. CASE Promote(r) /\ \E h \in Hosts : /\ sweep[h] # None
                                               /\ sweep[h].run = r
                                               /\ SweepPromotes(h)
      BY <1>2, <3>1 DEF SweepPromotes, ProbesAreTrue
    <3>2. CASE \E e \in WriterEpochs, w \in Workloads : Reserve(r, e, w)
      BY <2>1, <2>4, <3>2 DEF Reserve
    <3>3. CASE runs[r].state = "opening" /\ runs' = [runs EXCEPT ![r].state = "abandoned"]
      BY <2>1, <2>4, <3>3
    <3>4. CASE runs[r].state \notin {"none", "opening", "abandoned"}
      BY <1>2, <3>4 DEF QueuedIsRecorded
    <3>5. CASE LeaseTick(r) \/ RetryFallsDue(r)
      <4>1. LeaseTick(r) => runs'[r].state = runs[r].state
        BY <2>1 DEF LeaseTick
      <4>2. RetryFallsDue(r) => runs'[r].state = runs[r].state
        BY <2>1 DEF RetryFallsDue
      <4>3. QED BY <2>4, <3>4, <3>5, <4>1, <4>2
    <3>6. CASE CommitRelease(r)
      BY <2>1, <3>4, <3>6 DEF CommitRelease, ReleaseMatchesRow
    <3>7. QED BY <2>4, <3>1, <3>2, <3>3, <3>4, <3>5, <3>6
              DEF RowWrite, Claim, MayTake, FenceExpired, TakeOver, MarkReaped, Renew, Fenced
  <2>5. QueuedIsRecorded'
    BY <1>2, <2>2, <2>4, RowSteps DEF AccountsInv, QueuedIsRecorded
  <2>6. QED BY <2>3, <2>5
<1>3. QED BY <1>1, <1>2, AccountsInvariant, PTL DEF Spec

-----------------------------------------------------------------------------
(* Placement *)

\* A registered host's pool is defined: a pool is defined before its first
\* member's row is written, and is only ever redefined.
MembersHavePools == \A h \in registered : PoolOf(h) \in Definition

LEMMA PoolsStay ==
  TypeOK /\ [Next]_vars =>
    \/ \E h \in Hosts : Register(h)
    \/ registered' \subseteq registered /\ UNCHANGED pools
<1> SUFFICES ASSUME TypeOK, [Next]_vars, \A h \in Hosts : ~Register(h)
             PROVE  registered' \subseteq registered /\ UNCHANGED pools
  OBVIOUS
<1>1. CASE Membership
  BY <1>1 DEF Membership, Deregister, Heartbeat
<1>2. CASE Starting
  BY <1>2 DEF Starting, Reserve, OpenStream, MarkAdmitted, hostVars
<1>3. CASE Sweeping
  BY <1>3 DEF Sweeping, SweepRead, SweepProbe, SweepSettle, hostVars
<1>4. CASE Claims
  BY <1>4 DEF Claims, Claim, ClaimNothing, RecordCreateFailure, RecordCreateSuccess, hostVars
<1>5. CASE Releases
  BY <1>5 DEF Releases, Renew, Close, CloseInterrupted, Defer, BeginRelease, CommitRelease,
              AbortRelease, hostVars
<1>6. CASE Reconciling
  BY <1>6 DEF Reconciling, FenceExpired, TakeOver, MarkReaped, hostVars
<1>7. CASE Time
  BY <1>7 DEF Time, LeaseTick, RetryFallsDue, HeartbeatGoesStale, ClaimCheckGoesStale,
              OverflowDelayPasses, CooldownPasses, hostVars
<1>8. CASE UNCHANGED vars
  BY <1>8 DEF vars, hostVars
<1>9. QED BY <1>1, <1>2, <1>3, <1>4, <1>5, <1>6, <1>7, <1>8 DEF Next

LEMMA PoolsKnown == Spec => []MembersHavePools
<1>1. Init => MembersHavePools
  BY DEF Init, MembersHavePools
<1>2. TypeOK /\ TypeOK' /\ MembersHavePools /\ [Next]_vars => MembersHavePools'
  <2> SUFFICES ASSUME TypeOK, TypeOK', MembersHavePools, [Next]_vars
               PROVE  MembersHavePools'
    OBVIOUS
  <2>1. CASE registered' \subseteq registered /\ UNCHANGED pools
    BY <2>1 DEF MembersHavePools, PoolOf
  <2>2. ASSUME NEW h \in Hosts, Register(h), NEW x \in registered'
        PROVE  PoolOf(x)' \in Definition
    <3>1. /\ pools' = [pools EXCEPT ![Declares[h].pool] = Declares[h]]
          /\ x = h \/ x \in registered
      BY <2>2 DEF Register, JoinPool
    <3>2. x \in Hosts /\ pools \in [Pools -> Definition \cup {None}]
      BY <2>2 DEF TypeOK
    <3>3. Declares[h] \in Definition /\ Declares[x].pool \in Pools
      BY <3>2, DeclaresAssumption DEF Definition
    <3>4. CASE Declares[x].pool = Declares[h].pool
      BY <3>1, <3>2, <3>3, <3>4 DEF PoolOf
    <3>5. CASE Declares[x].pool # Declares[h].pool
      BY <3>1, <3>2, <3>3, <3>5 DEF PoolOf, MembersHavePools
    <3>6. QED BY <3>4, <3>5
  <2>3. QED BY <2>1, <2>2, PoolsStay DEF MembersHavePools
<1>3. QED BY <1>1, <1>2, TypeCorrect, PTL DEF Spec

\* In any state: of the executors that could take the run and have room, one of
\* the most preferred may take it, or waits for one that has only just filled up.
LEMMA FundedServes == TypeOK /\ MembersHavePools => FundedNeverStalls
<1> SUFFICES ASSUME TypeOK, MembersHavePools,
                    NEW r \in Runs, runs[r].state = "admitted", runs[r].due,
                    NEW h \in registered, Claiming(h), ~Full(h), CanTake(h, r),
                    \A x \in Preferred(h) \cup {h} :
                      Claiming(x) /\ CanTake(x, r) => MayOverflow(x, r)
             PROVE  Served(h, r)
  BY DEF FundedNeverStalls
<1> DEFINE Able     == {x \in Preferred(h) \cup {h} : Claiming(x) /\ ~Full(x) /\ CanTake(x, r)}
           Levels   == {PoolOf(x).priority : x \in Able}
<1>1. \A x \in registered : PoolOf(x).priority \in Nat
  BY DEF MembersHavePools, Definition
<1>2. Able \subseteq registered /\ h \in Able
  BY DEF Preferred
<1>3. Levels \subseteq Nat /\ Levels # {}
  BY <1>1, <1>2
<1>4. PICK p \in Levels : \A q \in Levels : <<q, p>> \notin OpToRel(<, Nat)
  <2> HIDE DEF Levels
  <2>1. QED BY <1>3, NatLessThanWellFounded, WFMin
<1>5. \A q \in Levels : ~(q < p)
  BY <1>3, <1>4 DEF OpToRel
<1>6. PICK x \in Able : PoolOf(x).priority = p
  OBVIOUS
<1>7. CASE MayTake(x, r)
  BY <1>6, <1>7 DEF Served
<1>8. CASE ~MayTake(x, r)
  <2>1. PICK y \in Preferred(x) : CanTake(y, r) /\ HoldsBack(y)
    BY <1>6, <1>8 DEF MayTake
  <2>2. y \in Preferred(h)
    BY <1>1, <1>2, <1>6, <2>1 DEF Preferred
  <2>3. Claiming(y) /\ (~Full(y) \/ y \in recentlyFull)
    BY <2>1 DEF HoldsBack
  <2>4. CASE y \in recentlyFull
    BY <2>2, <2>3, <2>4 DEF Served
  <2>5. CASE ~Full(y)
    <3>1. y \in Able
      BY <2>1, <2>2, <2>3, <2>5
    <3>2. PoolOf(y).priority < p
      BY <1>6, <2>1 DEF Preferred
    <3>3. QED BY <1>5, <3>1, <3>2
  <2>6. QED BY <2>3, <2>4, <2>5
<1>9. QED BY <1>7, <1>8

\* Holding a run back for preferred executors (postgres.py:106) never leaves it
\* to nobody, for any number of pools: the hold-backs end at an executor that may
\* take it.  The one way to lose it is an executor that may not overflow.
THEOREM FundedRunsAreServed == Spec => []FundedNeverStalls
<1>1. TypeOK /\ MembersHavePools => FundedNeverStalls
  BY FundedServes
<1>2. QED BY <1>1, TypeCorrect, PoolsKnown, PTL

=============================================================================
