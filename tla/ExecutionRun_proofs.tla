------------------------ MODULE ExecutionRun_proofs ------------------------
(***************************************************************************)
(* ExecutionHosting implements ExecutionRun: each step of the fleet is,    *)
(* for each run, a step of its life or none.                               *)
(***************************************************************************)
EXTENDS ExecutionHosting_proofs

\* Only a claim puts a run anywhere.
LEMMA PlacesShrink ==
  ASSUME HostInv, [HostNext]_sysVars, NEW r \in Runs
  PROVE  Places(r)' \subseteq Places(r) \/ \E h \in Hosts : Claim(h, r)
<1>1. ASSUME NEW h \in Hosts
      PROVE  DriveBecomes(h, r, drive'[h][r])
  BY DriveSteps DEF DriveMoves, HostInv, AccountsInv
<1>2. /\ containers'[r] \subseteq containers[r] \cup {h \in Hosts : At(h, r, "draining")}
      /\ containers' \in [Runs -> SUBSET Hosts]
  BY ContainerSteps DEF ContainersMove, ContainersBecome, HostInv
<1>3. ASSUME NEW h \in Places(r)'
      PROVE  h \in Hosts /\ (h \in Places(r) \/ Claim(h, r))
  BY <1>1, <1>2 DEF Places, At, DriveBecomes
<1>4. QED BY <1>3

\* A reconciliation attempt is at a row that is fenced, or was.
AttemptRows ==
  \A h \in Hosts, r \in Runs :
    attempt[h][r] # None => runs[r].state \in Fenced \cup {"interrupted"}

LEMMA AttemptRowsStep == HostInv /\ AttemptRows /\ [HostNext]_sysVars => AttemptRows'
<1> SUFFICES ASSUME HostInv, AttemptRows, [HostNext]_sysVars,
                    NEW h \in Hosts, NEW r \in Runs, attempt'[h][r] # None
             PROVE  runs'[r].state \in Fenced \cup {"interrupted"}
  BY DEF AttemptRows
<1>1. AttemptBecomes(h, r, attempt'[h][r])
  BY AttemptSteps DEF AttemptMoves
<1>2. attempt[h][r] # None \/ runs[r].state \in Fenced
  BY <1>1 DEF AttemptBecomes
<1>3. runs[r].state \in Fenced \cup {"interrupted"}
  BY <1>2 DEF AttemptRows
<1>4. AccountsInv /\ [Next]_vars /\ RowBecomes(r)
  BY QueueStep, RowMoves DEF HostInv
<1>5. runs[r].state = "interrupted" => runs'[r].state = "interrupted"
  BY <1>4 DEF RowBecomes, Waiting, Charged, Claim, MayTake, CommitRelease, AccountsInv,
              ReleaseMatchesRow
<1>6. QED BY <1>3, <1>4, <1>5, FencedMoves

LEMMA AttemptRowsInvariant == HostSpec => []AttemptRows
<1>1. HostInit => AttemptRows
  BY DEF HostInit, AttemptRows
<1>2. QED BY <1>1, AttemptRowsStep, HostInvariant, PTL DEF HostSpec

\* An append leaves the rows alone.
LEMMA AppendsApart ==
  ASSUME HostInv, [HostNext]_sysVars, NEW r \in Runs, status'[r] # status[r]
  PROVE  UNCHANGED runs
<1>1. status' # status
  OBVIOUS
<1>2. ASSUME NEW h \in Hosts, Boot(h) \/ Beat(h) \/ ShutDown(h) \/ Leave(h) \/ Crash(h)
      PROVE  FALSE
  BY <1>1, <1>2 DEF Boot, Beat, ShutDown, Leave, Crash, hosting
<1>3. ASSUME NEW h \in Hosts, NEW q \in Runs,
             ClaimRun(h, q) \/ RenewLease(h, q) \/ LoseLease(h, q)
      PROVE  FALSE
  BY <1>1, <1>3 DEF ClaimRun, RenewLease, LoseLease, hosting
<1>4. ASSUME NEW h \in Hosts, NEW q \in Runs, DriveStep(h, q)
      PROVE  UNCHANGED runs
  BY <1>1, <1>4 DEF DriveStep, Fold, FoldCancels, Provision, Progress, Finish, PhaseFails, RecordFailure,
                    RecordInterruption, TearDown, ReapOwn, CloseOwn, vars, rowVars
<1>5. ASSUME NEW h \in Hosts, NEW q \in Runs, Acquire(h, q) \/ StartAttempt(h, q)
      PROVE  FALSE
  BY <1>1, <1>5 DEF Acquire, StartAttempt, hosting
<1>6. ASSUME NEW h \in Hosts, NEW q \in Runs, AttemptStep(h, q)
      PROVE  UNCHANGED runs
  BY <1>1, <1>6 DEF AttemptStep, AttemptFails, ReapExecutor, Mark, Load, Interrupt, CloseRow,
                    vars, rowVars
<1>7. ASSUME NEW q \in Runs, StartRun(q) \/ Database(q)
      PROVE  FALSE
  BY <1>1, <1>7 DEF StartRun, Database, hosting
<1>8. ASSUME NEW q \in Runs, OpenerCancels(q) \/ EditStream(q)
      PROVE  UNCHANGED runs
  BY <1>8 DEF OpenerCancels, EditStream, vars, rowVars
<1>9. UNCHANGED sysVars => FALSE
  BY <1>1 DEF sysVars, hosting
<1>10. QED BY <1>2, <1>3, <1>4, <1>5, <1>6, <1>7, <1>8, <1>9
           DEF HostNext, Lifecycle, Driving, Attempting

\* A stream ends while its run is claimed or fenced, or is the child of a withdrawn resume.
LEMMA EndsInPlace ==
  ASSUME HostInv, StreamInv, EndedInv, PlaceInv, AttemptRows, [HostNext]_sysVars,
         NEW r \in Runs, status'[r] # status[r]
  PROVE  /\ \/ runs[r].state \in {"claimed"} \cup Fenced
            \/ runs[r].state = "opening" /\ status'[r] = "finished"
         /\ status[r] = "running" /\ status'[r] \in {"finished", "failed", "interrupted"}
<1>1. /\ status[r] \in Status /\ status'[r] \in Status /\ runs[r].state \in States
      /\ status[r] \in Ended => status'[r] = status[r]
  BY HostTypeStep, StreamGrows DEF HostInv, HostingTypeOK, AccountsInv, TypeOK, Row
<1>2. \/ runs[r].state = "opening" /\ status'[r] = "finished"
      \/ \E h \in Hosts : drive[h][r] # None \/ attempt[h][r] # None
  BY StreamSteps DEF HostInv, StreamsMove, StreamBecomes
<1>3. status[r] = "running" /\ status'[r] \in {"finished", "failed", "interrupted"}
  BY <1>1 DEF Status, Ended
<1>4. runs[r].state # "interrupted"
  BY <1>3 DEF EndedInv, Ended
<1>5. CASE \E h \in Hosts : attempt[h][r] # None
  BY <1>3, <1>4, <1>5 DEF AttemptRows
<1>6. CASE Places(r) # {}
  BY <1>1, <1>3, <1>4, <1>6 DEF PlaceInv, Waiting, States, Fenced
<1>7. QED BY <1>2, <1>3, <1>5, <1>6 DEF Places

\* What a step of the fleet is to one run.
LEMMA LifeStep ==
  ASSUME HostInv, StreamInv, EndedInv, PlaceInv, AttemptRows, [HostNext]_sysVars,
         NEW r \in Runs
  PROVE  \/ /\ LifeState(r) = "waiting" /\ LifeState(r)' = "claimed"
            /\ \E h \in Hosts : Places(r)' \subseteq {h}
            /\ status'[r] = status[r]
         \/ /\ Places(r)' \subseteq Places(r)
            /\ \/ LifeState(r)' = LifeState(r) /\ status'[r] = status[r]
               \/ /\ status[r] = "running" /\ status'[r] \in {"finished", "failed", "interrupted"}
                  /\ LifeState(r) \in {"claimed", "fenced"} /\ LifeState(r)' = LifeState(r)
               \/ /\ LifeState(r) = "waiting" /\ LifeState(r)' = "waiting"
                  /\ status[r] = "running" /\ status'[r] = "finished"
               \/ /\ LifeState(r) = "claimed" /\ LifeState(r)' = "fenced"
                  /\ status'[r] = status[r]
               \/ /\ LifeState(r) = "claimed" /\ LifeState(r)' = "done"
                  /\ Places(r) = {} /\ status'[r] = status[r]
               \/ /\ LifeState(r) = "fenced" /\ LifeState(r)' = "interrupted"
                  /\ status[r] # "running" /\ status'[r] = status[r]
<1>1. /\ runs \in [Runs -> Row] /\ runs' \in [Runs -> Row]
      /\ AccountsInv /\ AccountsInv' /\ [Next]_vars /\ RowBecomes(r)
      /\ runs[r].state \in States /\ runs'[r].state \in States
  BY QueueStep, AccountsStep, RowMoves DEF HostInv, AccountsInv, TypeOK, Row
<1>2. CASE status'[r] # status[r]
  <2>1. /\ LifeState(r)' = LifeState(r)
        /\ \/ LifeState(r) \in {"claimed", "fenced"}
           \/ LifeState(r) = "waiting" /\ status'[r] = "finished"
    BY <1>2, AppendsApart, EndsInPlace DEF LifeState, Fenced, Terminal
  <2>2. ~\E h \in Hosts : Claim(h, r)
    BY <1>2, EndsInPlace DEF Claim, MayTake, Fenced
  <2>3. QED BY <1>2, <2>1, <2>2, EndsInPlace, PlacesShrink
<1>3. CASE status'[r] = status[r] /\ \E h \in Hosts : Claim(h, r)
  <2>1. PICK h \in Hosts : Claim(h, r)
    BY <1>3
  <2>2. LifeState(r) = "waiting" /\ LifeState(r)' = "claimed"
    BY <1>1, <2>1 DEF Claim, MayTake, LifeState, Fenced, Terminal
  <2>3. runs'[r].state \in Charged /\ PlaceInv'
    BY <1>1, <2>1, PlaceInvStep DEF Claim, Charged
  <2>4. Places(r)' \subseteq {runs'[r].executor}
    BY <2>3 DEF PlaceInv
  <2>5. runs'[r].executor = h
    BY <1>1, <2>1 DEF Claim
  <2>6. QED BY <1>3, <2>2, <2>4, <2>5
<1>4. CASE status'[r] = status[r] /\ ~\E h \in Hosts : Claim(h, r)
  <2>1. Places(r)' \subseteq Places(r)
    BY <1>4, PlacesShrink
  <2>2. CASE CommitRelease(r)
    <3>1. /\ runs'[r].state = releasing[r].to /\ releasing[r] # None
          /\ releasing[r].to \in Terminal
          /\ releasing[r].to = "done" => Places(r) = {}
          /\ releasing[r].to = "interrupted" => status[r] \in Ended
      BY <1>1, <2>2 DEF CommitRelease, PlaceInv, EndedInv
    <3>2. \/ runs[r].state = "claimed" /\ runs'[r].state = "done"
          \/ runs[r].state = "reaped" /\ runs'[r].state = "interrupted"
      BY <1>1, <3>1 DEF AccountsInv, ReleaseMatchesRow, Terminal
    <3>3. QED BY <1>4, <2>1, <3>1, <3>2 DEF LifeState, Fenced, Terminal, Ended
  <2>3. CASE ~CommitRelease(r)
    <3>1. CASE runs[r].state \in Fenced
      <4>1. runs'[r].state \in Charged \/ runs'[r].state = runs[r].state
        BY <1>1, <1>4, <2>3, <3>1 DEF RowBecomes, Waiting, Fenced
      <4>2. runs'[r].state \in Fenced
        BY <1>1, <3>1, <4>1, FencedMoves DEF Fenced, Charged
      <4>3. QED BY <1>4, <2>1, <3>1, <4>2 DEF LifeState
    <3>2. CASE runs[r].state = "claimed"
      <4>1. runs'[r].state \in {"claimed"} \cup Fenced
        BY <1>1, <1>4, <2>3, <3>2 DEF RowBecomes, Waiting, Fenced, Charged
      <4>2. QED BY <1>4, <2>1, <3>2, <4>1 DEF LifeState, Fenced
    <3>3. CASE runs[r].state \notin Charged
      <4>1. \/ runs'[r].state = runs[r].state
            \/ runs[r].state \in Waiting /\ runs'[r].state \in Waiting
        BY <1>1, <1>4, <2>3, <3>3 DEF RowBecomes
      <4>2. LifeState(r)' = LifeState(r)
        BY <4>1 DEF LifeState, Waiting, Fenced, Terminal
      <4>3. QED BY <1>4, <2>1, <4>2
    <3>4. QED BY <3>1, <3>2, <3>3 DEF Charged, Fenced
  <2>4. QED BY <2>2, <2>3
<1>5. QED BY <1>2, <1>3, <1>4

LEMMA LifeBegins == HostInit => Life!LifeInit
<1> SUFFICES ASSUME HostInit PROVE Life!LifeInit
  OBVIOUS
<1>1. ASSUME NEW r \in Runs
      PROVE  LifeState(r) = "waiting" /\ Places(r) = {} /\ status[r] = "running"
  BY DEF HostInit, Init, NoRow, LifeState, Places, Fenced, Terminal
<1>2. status = [r \in Runs |-> "running"]
  BY DEF HostInit
<1>3. QED BY <1>1, <1>2 DEF Life!LifeInit

LEMMA LifeGoesOn ==
  ASSUME HostInv, StreamInv, EndedInv, PlaceInv, AttemptRows, [HostNext]_sysVars
  PROVE  Life!LifeNext
<1> SUFFICES ASSUME NEW r \in Runs
             PROVE  Life!Take(r) \/ Life!Remain(r)
  BY DEF Life!LifeNext
<1> QED BY LifeStep DEF Life!Take, Life!Remain, Life!Conclude, Life!Withdraw, Life!Fence, Life!CloseRun,
                        Life!InterruptRun

\* Each run of the fleet lives one life: whatever crashes, stalls, refused appends and
\* failed reaps the hosts meet, it is taken once, is never at a second place, and is
\* closed only by its executor with nothing left, or over a stream that has ended.
THEOREM HostImplementsRun == HostSpec => ImplementsRun
<1>1. /\ HostInit => Life!LifeInit
      /\ HostInv /\ StreamInv /\ EndedInv /\ PlaceInv /\ AttemptRows /\ [HostNext]_sysVars
           => Life!LifeNext
  BY LifeBegins, LifeGoesOn
<1>2. HostSpec => []EndedInv
  BY EndedInvariant
<1>3. QED BY <1>1, <1>2, HostInvariant, StreamInvariant, PlaceInvariant, AttemptRowsInvariant, PTL
          DEF HostSpec, ImplementsRun, Life!LifeSpec

=============================================================================
