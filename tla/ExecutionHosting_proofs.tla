----------------------- MODULE ExecutionHosting_proofs -----------------------
(***************************************************************************)
(* Theorems about the Execution Host, for any fleet and any number of runs. *)
(* The hosts implement the Run Queue, so its theorems hold of them; what    *)
(* the hosts add (streams, containers, tasks) is proved on top.             *)
(***************************************************************************)
EXTENDS ExecutionHosting, RunQueue_proofs

-----------------------------------------------------------------------------
(* What a step may make of a task *)

\* How one step may take the drive of r on h onward.
Onward(h, r, stage, n, to) ==
  LET c == drive[h][r] IN
  \/ /\ stage = "draining" /\ n = version[r] /\ to = status[r]
     /\ UNCHANGED <<version, status>>
  \/ /\ c.stage = "draining" /\ Stored(r, c.version, to)
     /\ stage \in {"draining", "tearing"} /\ n = c.version + 1
  \/ /\ c.stage # "folding" /\ n = c.version
     /\ to = c.status \/ to # "running"
     /\ \/ stage \in {"failing", "tearing", "abandoning", "reaping"}
        \/ /\ stage = "interrupting" /\ to = c.status
           /\ c.stage = "interrupting" \/ to = "running"
        \/ stage = "closing" /\ h \notin containers'[r]

\* What one step may make, as d, of the drive of r on h.
DriveBecomes(h, r, d) ==
  \/ d = drive[h][r]
  \/ d = None
  \/ /\ Claim(h, r)
     /\ d = [stage |-> "folding", token |-> runs'[r].token, version |-> 0, status |-> "running"]
  \/ /\ drive[h][r] # None /\ d \in Drive /\ d.token = drive[h][r].token
     /\ Onward(h, r, d.stage, d.version, d.status)

DriveMoves == /\ drive' \in [Hosts -> [Runs -> Drive \cup {None}]]
              /\ \A h \in Hosts, r \in Runs : DriveBecomes(h, r, drive'[h][r])

\* A step that writes the drive of one run on one host.
LEMMA DriveWritten ==
  ASSUME HostingTypeOK, NEW h \in Hosts, NEW r \in Runs, NEW d \in Drive \cup {None},
         drive' = [drive EXCEPT ![h][r] = d], DriveBecomes(h, r, d)
  PROVE  DriveMoves
<1>1. drive \in [Hosts -> [Runs -> Drive \cup {None}]]
  BY DEF HostingTypeOK
<1>2. /\ drive' \in [Hosts -> [Runs -> Drive \cup {None}]]
      /\ drive'[h][r] = d
      /\ \A g \in Hosts, q \in Runs : g # h \/ q # r => drive'[g][q] = drive[g][q]
  BY <1>1
<1>3. ASSUME NEW g \in Hosts, NEW q \in Runs
      PROVE  DriveBecomes(g, q, drive'[g][q])
  <2>1. CASE g = h /\ q = r
    BY <1>2, <2>1
  <2>2. CASE g # h \/ q # r
    <3>1. drive'[g][q] = drive[g][q]
      BY <1>2, <2>2
    <3>2. QED BY <3>1 DEF DriveBecomes
  <2>3. QED BY <2>1, <2>2
<1>4. QED BY <1>2, <1>3 DEF DriveMoves

\* A cancelled drive ends, goes on, or tears down with or without an interruption.
LEMMA CancelledDrive ==
  ASSUME NEW d \in Drive
  PROVE  \/ Cancelled(d) = None
         \/ /\ d.stage # "folding"
            /\ \E stage \in {"interrupting", "abandoning"} :
                 /\ Cancelled(d) = [d EXCEPT !.stage = stage]
                 /\ stage = "interrupting" => d.stage = "interrupting" \/ d.status = "running"
BY DEF Cancelled

LEMMA DriveGoesOn ==
  ASSUME HostingTypeOK, NEW h \in Hosts, NEW r \in Runs, NEW stage \in Stage, NEW n \in Nat,
         NEW to \in Status, drive[h][r] \in Drive, drive[h][r] # None,
         GoOn(h, r, stage, n, to), Onward(h, r, stage, n, to)
  PROVE  DriveMoves
<1> DEFINE d == [stage |-> stage, token |-> drive[h][r].token, version |-> n, status |-> to]
<1>1. drive[h][r].token \in Nat \ {0}
  BY DEF Drive
<1>2. d \in Drive
  BY <1>1 DEF Drive
<1>3. drive' = [drive EXCEPT ![h][r] = d]
  BY DEF GoOn
<1>4. DriveBecomes(h, r, d)
  BY <1>2 DEF DriveBecomes
<1> HIDE DEF d
<1>5. QED BY <1>2, <1>3, <1>4, DriveWritten

\* A step that takes a drive to another stage.
LEMMA DriveGoesTo ==
  ASSUME HostingTypeOK, NEW h \in Hosts, NEW r \in Runs, NEW stage \in Stage,
         drive[h][r] # None, drive[h][r].stage # "folding", GoTo(h, r, stage),
         \/ stage \in {"failing", "tearing", "abandoning", "reaping"}
         \/ stage = "closing" /\ h \notin containers'[r]
  PROVE  DriveMoves
<1> DEFINE c == drive[h][r]
<1>1. c \in Drive /\ c.version \in Nat /\ c.status \in Status
  BY DEF HostingTypeOK, Drive
<1>2. [c EXCEPT !.stage = stage]
        = [stage |-> stage, token |-> c.token, version |-> c.version, status |-> c.status]
  BY <1>1 DEF Drive
<1>3. GoOn(h, r, stage, c.version, c.status)
  BY <1>2 DEF GoTo, GoOn
<1>4. Onward(h, r, stage, c.version, c.status)
  BY DEF Onward
<1>5. QED BY <1>1, <1>3, <1>4, DriveGoesOn

LEMMA DriveEnds ==
  ASSUME HostingTypeOK, NEW h \in Hosts, NEW r \in Runs, EndDrive(h, r)
  PROVE  DriveMoves
BY DriveWritten DEF EndDrive, DriveBecomes

LEMMA DriveUnmoved == HostingTypeOK /\ UNCHANGED drive => DriveMoves
BY DEF HostingTypeOK, DriveMoves, DriveBecomes

\* The drain's append: whatever comes of it, the drive becomes what it may.
LEMMA DriveRecords ==
  ASSUME HostingTypeOK, NEW h \in Hosts, NEW r \in Runs, NEW to \in Status,
         NEW next \in {"draining", "tearing"}, At(h, r, "draining"),
         drive[h][r].status = "running", Record(h, r, to, next)
  PROVE  DriveMoves
<1> DEFINE c == drive[h][r]
<1>1. c \in Drive /\ c # None /\ c.stage = "draining" /\ c.status = "running"
  BY DEF HostingTypeOK, At
<1>2. c.version \in Nat /\ c.version + 1 \in Nat /\ next \in Stage /\ "failing" \in Stage
  BY <1>1 DEF Drive, Stage
<1>3. CASE Stored(r, c.version, to) /\ GoOn(h, r, next, c.version + 1, to)
  BY <1>1, <1>2, <1>3, DriveGoesOn DEF Onward
<1>4. CASE GoOn(h, r, "failing", c.version, to)
  <2>1. Onward(h, r, "failing", c.version, to)
    BY <1>1 DEF Onward
  <2>2. QED BY <1>1, <1>2, <1>4, <2>1, DriveGoesOn
<1>5. QED BY <1>3, <1>4 DEF Record

\* Every step of a drive makes of it what it may.
LEMMA DriveStepMoves ==
  ASSUME HostingTypeOK, NEW h \in Hosts, NEW r \in Runs, DriveStep(h, r)
  PROVE  DriveMoves
<1> DEFINE c == drive[h][r]
<1> USE DEF At
<1>1. /\ c \in Drive \cup {None} /\ version[r] \in Nat /\ status[r] \in Status
      /\ c \in Drive => c.version \in Nat
      /\ {"draining", "failing", "tearing", "abandoning", "reaping", "closing"} \subseteq Stage
      /\ {"running", "finished", "failed", "interrupted"} \subseteq Status
  BY DEF HostingTypeOK, Drive, Stage, Status, Ended
<1>2. CASE Fold(h, r)
  <2>1. c \in Drive /\ c # None /\ Onward(h, r, "draining", version[r], status[r])
    BY <1>1, <1>2 DEF Fold, Onward
  <2>2. CASE GoOn(h, r, "draining", version[r], status[r])
    BY <1>1, <2>1, <2>2, DriveGoesOn
  <2>3. QED BY <1>2, <2>2, DriveEnds DEF Fold
<1>3. CASE Provision(h, r)
  BY <1>1, <1>3, DriveUnmoved, DriveGoesTo DEF Provision
<1>4. CASE Progress(h, r) \/ Finish(h, r)
  BY <1>1, <1>4, DriveRecords DEF Progress, Finish
<1>5. CASE PhaseFails(h, r)
  BY <1>1, <1>5, DriveGoesTo DEF PhaseFails
<1>6. CASE RecordFailure(h, r)
  <2>1. c \in Drive /\ c # None /\ c.stage = "failing"
    BY <1>1, <1>6 DEF RecordFailure
  <2>2. CASE GoOn(h, r, "tearing", c.version, "failed")
    <3>1. Onward(h, r, "tearing", c.version, "failed")
      BY <2>1 DEF Onward
    <3>2. QED BY <1>1, <2>1, <2>2, <3>1, DriveGoesOn
  <2>3. QED BY <1>1, <1>6, <2>1, <2>2, DriveGoesTo DEF RecordFailure
<1>7. CASE RecordInterruption(h, r)
  <2>1. c \in Drive /\ c # None /\ c.stage = "interrupting"
    BY <1>1, <1>7 DEF RecordInterruption
  <2>2. Onward(h, r, "abandoning", c.version, "interrupted")
    BY <2>1 DEF Onward
  <2>3. QED BY <1>1, <1>7, <2>1, <2>2, DriveGoesOn DEF RecordInterruption
<1>8. CASE TearDown(h, r)
  BY <1>1, <1>8, DriveEnds, DriveGoesTo DEF TearDown
<1>9. CASE ReapOwn(h, r)
  <2>1. h \notin containers'[r] \/ EndDrive(h, r)
    BY <1>9 DEF ReapOwn, HostingTypeOK
  <2>2. QED BY <1>1, <1>9, <2>1, DriveEnds, DriveGoesTo DEF ReapOwn
<1>10. CASE CloseOwn(h, r)
  BY <1>10, DriveEnds DEF CloseOwn
<1>11. CASE FoldCancels(h, r)
  BY <1>11, DriveUnmoved, DriveEnds DEF FoldCancels
<1>12. QED BY <1>2, <1>3, <1>4, <1>5, <1>6, <1>7, <1>8, <1>9, <1>10, <1>11 DEF DriveStep
LEMMA DriveSteps ==
  ASSUME HostingTypeOK, TypeOK, [HostNext]_sysVars
  PROVE  DriveMoves
<1>0. /\ drive \in [Hosts -> [Runs -> Drive \cup {None}]]
      /\ runs \in [Runs -> Row]
  BY DEF HostingTypeOK, TypeOK
<1>1. ASSUME NEW h \in Hosts, Boot(h) \/ Beat(h) \/ Leave(h)
      PROVE  DriveMoves
  BY <1>1, DriveUnmoved DEF Boot, Beat, Leave, hosting
<1>2. ASSUME NEW h \in Hosts, Crash(h)
      PROVE  DriveMoves
  BY <1>0, <1>2 DEF Crash, DriveMoves, DriveBecomes
<1>3. ASSUME NEW h \in Hosts, NEW r \in Runs
      PROVE  /\ Cancelled(drive[h][r]) \in Drive \cup {None}
             /\ DriveBecomes(h, r, Cancelled(drive[h][r]))
  <2> DEFINE c == drive[h][r]
  <2>1. CASE Cancelled(c) = None
    BY <2>1 DEF DriveBecomes
  <2>2. CASE Cancelled(c) # None
    <3>1. c # None /\ c \in Drive
      BY <1>0, <2>2 DEF Cancelled
    <3>2. PICK stage \in {"interrupting", "abandoning"} :
            /\ Cancelled(c) = [c EXCEPT !.stage = stage]
            /\ stage = "interrupting" => c.stage = "interrupting" \/ c.status = "running"
            /\ c.stage # "folding"
      BY <2>2, <3>1, CancelledDrive
    <3>3. /\ Cancelled(c) \in Drive /\ Cancelled(c).token = c.token
          /\ Cancelled(c).stage = stage
          /\ Cancelled(c).version = c.version /\ Cancelled(c).status = c.status
      BY <3>1, <3>2 DEF Drive, Stage
    <3>4. Onward(h, r, stage, c.version, c.status)
      BY <3>2 DEF Onward
    <3>5. QED BY <3>1, <3>3, <3>4 DEF DriveBecomes
  <2>3. QED BY <2>1, <2>2
<1>4. ASSUME NEW h \in Hosts, ShutDown(h)
      PROVE  DriveMoves
  <2>1. drive' = [drive EXCEPT ![h] = [r \in Runs |-> Cancelled(drive[h][r])]]
    BY <1>4 DEF ShutDown
  <2>2. drive' \in [Hosts -> [Runs -> Drive \cup {None}]]
    BY <1>0, <1>3, <2>1
  <2>3. ASSUME NEW g \in Hosts, NEW r \in Runs
        PROVE  DriveBecomes(g, r, drive'[g][r])
    <3>1. CASE g = h
      BY <1>0, <1>3, <2>1, <3>1
    <3>2. CASE g # h
      BY <1>0, <2>1, <3>2 DEF DriveBecomes
    <3>3. QED BY <3>1, <3>2
  <2>4. QED BY <2>2, <2>3 DEF DriveMoves
<1>5. ASSUME NEW h \in Hosts, NEW r \in Runs, ClaimRun(h, r)
      PROVE  DriveMoves
  <2> DEFINE d == [stage |-> "folding", token |-> runs'[r].token, version |-> 0,
                   status |-> "running"]
  <2>1. Claim(h, r) /\ runs[r].token \in Nat
    BY <1>0, <1>5 DEF ClaimRun, Row
  <2>2. runs'[r].token = runs[r].token + 1
    BY <1>0, <2>1 DEF Claim
  <2>3. d \in Drive
    BY <2>1, <2>2 DEF Drive, Stage, Status
  <2>4. drive' = [drive EXCEPT ![h][r] = d]
    BY <1>5 DEF ClaimRun
  <2>5. DriveBecomes(h, r, d)
    BY <2>1 DEF DriveBecomes
  <2> HIDE DEF d
  <2>6. QED BY <2>3, <2>4, <2>5, DriveWritten
<1>6. ASSUME NEW h \in Hosts, NEW r \in Runs, LoseLease(h, r)
      PROVE  DriveMoves
  <2>1. drive' = [drive EXCEPT ![h][r] = Cancelled(drive[h][r])]
    BY <1>6 DEF LoseLease
  <2>2. QED BY <1>3, <2>1, DriveWritten
<1>7. ASSUME NEW h \in Hosts, NEW r \in Runs,
             RenewLease(h, r) \/ Acquire(h, r) \/ StartAttempt(h, r) \/ AttemptStep(h, r)
      PROVE  DriveMoves
  BY <1>7, DriveUnmoved DEF RenewLease, Acquire, StartAttempt, AttemptStep, AttemptFails,
                            ReapExecutor, Mark, Load, Interrupt, CloseRow, hosting
<1>8. ASSUME NEW r \in Runs, StartRun(r) \/ OpenerCancels(r) \/ EditStream(r) \/ Database(r)
      PROVE  DriveMoves
  BY <1>8, DriveUnmoved DEF StartRun, OpenerCancels, EditStream, Database, hosting
<1>9. CASE UNCHANGED sysVars
  BY <1>9, DriveUnmoved DEF sysVars, hosting
<1>10. QED BY <1>1, <1>2, <1>4, <1>5, <1>6, <1>7, <1>8, <1>9, DriveStepMoves
           DEF HostNext, Lifecycle, Driving, Attempting

\* What one step may make, as b, of h's reconciliation attempt of r.
AttemptBecomes(h, r, b) ==
  LET a == attempt[h][r] IN
  \/ b = a
  \/ b = None
  \/ /\ runs[r].state \in Fenced /\ b \in Attempt /\ b.token = runs[r].token
     /\ b.stage \in {"reaping", "loading"}
  \/ /\ a # None /\ b \in Attempt /\ b.token = a.token
     /\ \/ b.stage \in {"marking", "loading"}
        \/ /\ b.stage = IF status[r] = "running" THEN "appending" ELSE "closing"
           /\ b.version = version[r]
           /\ UNCHANGED <<version, status>>
        \/ /\ a.stage = "appending" /\ b.stage = "closing"
           /\ Stored(r, a.version, "interrupted")

AttemptMoves == /\ attempt' \in [Hosts -> [Runs -> Attempt \cup {None}]]
                /\ \A h \in Hosts, r \in Runs : AttemptBecomes(h, r, attempt'[h][r])

LEMMA AttemptWritten ==
  ASSUME HostingTypeOK, NEW h \in Hosts, NEW r \in Runs, NEW b \in Attempt \cup {None},
         attempt' = [attempt EXCEPT ![h][r] = b], AttemptBecomes(h, r, b)
  PROVE  AttemptMoves
<1>1. attempt \in [Hosts -> [Runs -> Attempt \cup {None}]]
  BY DEF HostingTypeOK
<1>2. /\ attempt' \in [Hosts -> [Runs -> Attempt \cup {None}]]
      /\ attempt'[h][r] = b
      /\ \A g \in Hosts, q \in Runs : g # h \/ q # r => attempt'[g][q] = attempt[g][q]
  BY <1>1
<1>3. ASSUME NEW g \in Hosts, NEW q \in Runs
      PROVE  AttemptBecomes(g, q, attempt'[g][q])
  <2>1. CASE g = h /\ q = r
    BY <1>2, <2>1
  <2>2. CASE g # h \/ q # r
    <3>1. attempt'[g][q] = attempt[g][q]
      BY <1>2, <2>2
    <3>2. QED BY <3>1 DEF AttemptBecomes
  <2>3. QED BY <2>1, <2>2
<1>4. QED BY <1>2, <1>3 DEF AttemptMoves

LEMMA AttemptUnmoved == HostingTypeOK /\ UNCHANGED attempt => AttemptMoves
BY DEF HostingTypeOK, AttemptMoves, AttemptBecomes

LEMMA AttemptEnds ==
  ASSUME HostingTypeOK, NEW h \in Hosts, NEW r \in Runs, EndAttempt(h, r)
  PROVE  AttemptMoves
BY AttemptWritten DEF EndAttempt, AttemptBecomes

LEMMA AttemptAdvances ==
  ASSUME HostingTypeOK, NEW h \in Hosts, NEW r \in Runs, attempt[h][r] # None,
         NEW stage, Advance(h, r, stage),
         \/ stage \in {"marking", "loading"}
         \/ /\ attempt[h][r].stage = "appending" /\ stage = "closing"
            /\ Stored(r, attempt[h][r].version, "interrupted")
  PROVE  AttemptMoves
<1> DEFINE a == attempt[h][r]
           b == [a EXCEPT !.stage = stage]
<1>1. a \in Attempt
  BY DEF HostingTypeOK
<1>2. b \in Attempt /\ b.stage = stage /\ b.token = a.token
  BY <1>1 DEF Attempt
<1>3. attempt' = [attempt EXCEPT ![h][r] = b]
  BY DEF Advance
<1> HIDE DEF b
<1>4. AttemptBecomes(h, r, b)
  BY <1>2 DEF AttemptBecomes
<1>5. QED BY <1>2, <1>3, <1>4, AttemptWritten

-----------------------------------------------------------------------------
(* The hosts use the queue as it may be used *)

\* A charged row was claimed under a token.
Issued == \A r \in Runs : runs[r].state \in Charged => runs[r].token > 0

\* A task's handle was issued by the queue.
Handles ==
  \A h \in Hosts, r \in Runs :
    /\ drive[h][r] # None => drive[h][r].token <= runs[r].token
    /\ attempt[h][r] # None => attempt[h][r].token <= runs[r].token

HostInv ==
  /\ HostingTypeOK
  /\ AccountsInv
  /\ Issued
  /\ Handles

LEMMA AttemptSteps ==
  ASSUME HostInv, [HostNext]_sysVars
  PROVE  AttemptMoves
<1>0. /\ HostingTypeOK /\ attempt \in [Hosts -> [Runs -> Attempt \cup {None}]]
      /\ version \in [Runs -> Nat]
      /\ runs \in [Runs -> Row]
      /\ ExecutorIffCharged /\ Issued
  BY DEF HostInv, HostingTypeOK, AccountsInv, TypeOK
<1>1. ASSUME NEW h \in Hosts, Boot(h) \/ Beat(h) \/ Leave(h)
      PROVE  AttemptMoves
  BY <1>0, <1>1, AttemptUnmoved DEF Boot, Beat, Leave, hosting
<1>2. ASSUME NEW h \in Hosts, Crash(h) \/ ShutDown(h)
      PROVE  AttemptMoves
  BY <1>0, <1>2 DEF Crash, ShutDown, AttemptMoves, AttemptBecomes
<1>3. ASSUME NEW h \in Hosts, NEW r \in Runs, ClaimRun(h, r) \/ RenewLease(h, r) \/ LoseLease(h, r)
      PROVE  AttemptMoves
  BY <1>0, <1>3, AttemptUnmoved DEF ClaimRun, RenewLease, LoseLease, hosting
<1>4. ASSUME NEW h \in Hosts, NEW r \in Runs, DriveStep(h, r)
      PROVE  AttemptMoves
  BY <1>0, <1>4, AttemptUnmoved
     DEF DriveStep, Fold, FoldCancels, Provision, Progress, Finish, PhaseFails, RecordFailure,
         RecordInterruption, TearDown, ReapOwn, CloseOwn
<1>5. ASSUME NEW h \in Hosts, NEW r \in Runs, Acquire(h, r)
      PROVE  AttemptMoves
  BY <1>0, <1>5, AttemptUnmoved DEF Acquire, hosting
<1>6. ASSUME NEW h \in Hosts, NEW r \in Runs, StartAttempt(h, r)
      PROVE  AttemptMoves
  <2> DEFINE stage == IF runs[r].state = "fencing" THEN "reaping" ELSE "loading"
             b == [stage |-> stage, token |-> runs[r].token, executor |-> runs[r].executor,
                   version |-> 0]
  <2>1. /\ runs[r].state \in Fenced
        /\ attempt' = [attempt EXCEPT ![h][r] = b]
    BY <1>6 DEF StartAttempt
  <2>2. runs[r].token \in Nat \ {0} /\ runs[r].executor \in Hosts
    BY <1>0, <2>1, HostsAssumption DEF Row, Issued, ExecutorIffCharged, Fenced, Charged
  <2>3. b \in Attempt
    BY <2>2 DEF Attempt
  <2>4. AttemptBecomes(h, r, b)
    BY <2>1, <2>3 DEF AttemptBecomes
  <2> HIDE DEF b
  <2>5. QED BY <1>0, <2>1, <2>3, <2>4, AttemptWritten
<1>7. ASSUME NEW h \in Hosts, NEW r \in Runs, AttemptStep(h, r)
      PROVE  AttemptMoves
  <2> USE DEF AttemptAt
  <2>1. CASE AttemptFails(h, r) \/ CloseRow(h, r)
    BY <1>0, <2>1, AttemptEnds DEF AttemptFails, CloseRow
  <2>2. CASE ReapExecutor(h, r) \/ Mark(h, r)
    BY <1>0, <2>2, AttemptEnds, AttemptAdvances DEF ReapExecutor, Mark
  <2>3. CASE Load(h, r)
    <3> DEFINE a == attempt[h][r]
               b == [a EXCEPT !.stage = IF status[r] = "running" THEN "appending" ELSE "closing",
                              !.version = version[r]]
    <3>1. a \in Attempt /\ a # None /\ version[r] \in Nat
      BY <1>0, <2>3 DEF Load
    <3>2. /\ b \in Attempt /\ b.token = a.token /\ b.version = version[r]
          /\ b.stage = IF status[r] = "running" THEN "appending" ELSE "closing"
      BY <3>1 DEF Attempt
    <3>3. attempt' = [attempt EXCEPT ![h][r] = b] /\ UNCHANGED <<version, status>>
      BY <2>3 DEF Load
    <3> HIDE DEF b
    <3>4. AttemptBecomes(h, r, b)
      BY <3>1, <3>2, <3>3 DEF AttemptBecomes
    <3>5. QED BY <1>0, <3>2, <3>3, <3>4, AttemptWritten
  <2>4. CASE Interrupt(h, r)
    BY <1>0, <2>4, AttemptEnds, AttemptAdvances DEF Interrupt
  <2>5. QED BY <1>7, <2>1, <2>2, <2>3, <2>4 DEF AttemptStep
<1>8. ASSUME NEW r \in Runs, StartRun(r) \/ OpenerCancels(r) \/ EditStream(r) \/ Database(r)
      PROVE  AttemptMoves
  BY <1>0, <1>8, AttemptUnmoved DEF StartRun, OpenerCancels, EditStream, Database, hosting
<1>9. CASE UNCHANGED sysVars
  BY <1>0, <1>9, AttemptUnmoved DEF sysVars, hosting
<1>10. QED BY <1>1, <1>2, <1>3, <1>4, <1>5, <1>6, <1>7, <1>8, <1>9
           DEF HostNext, Lifecycle, Driving, Attempting

\* With the handles hosts hold, each of their steps is one the queue allows.
LEMMA QueueStep ==
  ASSUME HostInv, [HostNext]_sysVars
  PROVE  [Next]_vars
<1>0. /\ runs \in [Runs -> Row] /\ \A r \in Runs : runs[r].token \in Nat
      /\ drive \in [Hosts -> [Runs -> Drive \cup {None}]]
      /\ attempt \in [Hosts -> [Runs -> Attempt \cup {None}]]
  BY DEF HostInv, HostingTypeOK, AccountsInv, TypeOK, Row
<1>1. ASSUME NEW h \in Hosts, NEW r \in Runs
      PROVE  /\ drive[h][r] # None => drive[h][r].token \in 1..runs[r].token
             /\ attempt[h][r] # None => attempt[h][r].token \in 1..runs[r].token
  BY <1>0 DEF HostInv, Handles, Drive, Attempt
<1>2. ASSUME NEW h \in Hosts, Boot(h) \/ Beat(h) \/ Leave(h)
      PROVE  [Next]_vars
  BY <1>2 DEF Boot, Beat, Leave, Next, Membership
<1>3. ASSUME NEW h \in Hosts, Crash(h) \/ ShutDown(h)
      PROVE  [Next]_vars
  BY <1>3 DEF Crash, ShutDown
<1>4. ASSUME NEW h \in Hosts, NEW r \in Runs, ClaimRun(h, r)
      PROVE  [Next]_vars
  BY <1>4 DEF ClaimRun, Next, Claims
<1>5. ASSUME NEW h \in Hosts, NEW r \in Runs, RenewLease(h, r)
      PROVE  [Next]_vars
  BY <1>1, <1>5 DEF RenewLease, Kept, Next, Releases
<1>6. ASSUME NEW h \in Hosts, NEW r \in Runs, CloseOwn(h, r)
      PROVE  [Next]_vars
  BY <1>1, <1>6 DEF CloseOwn, At, Next, Releases
<1>7. ASSUME NEW h \in Hosts, NEW r \in Runs, DriveStep(h, r) \/ LoseLease(h, r)
      PROVE  [Next]_vars
  BY <1>6, <1>7
     DEF LoseLease, DriveStep, Fold, FoldCancels, Provision, Progress, Finish, PhaseFails,
         RecordFailure, RecordInterruption, TearDown, ReapOwn
<1>8. ASSUME NEW h \in Hosts, NEW r \in Runs, Acquire(h, r)
      PROVE  [Next]_vars
  BY <1>8 DEF Acquire, Next, Reconciling
<1>9. ASSUME NEW h \in Hosts, NEW r \in Runs, Mark(h, r)
      PROVE  [Next]_vars
  BY <1>1, <1>9 DEF Mark, AttemptAt, Next, Reconciling
<1>10. ASSUME NEW h \in Hosts, NEW r \in Runs, CloseRow(h, r)
       PROVE  [Next]_vars
  BY <1>1, <1>10 DEF CloseRow, AttemptAt, Next, Releases
<1>11. ASSUME NEW h \in Hosts, NEW r \in Runs, StartAttempt(h, r) \/ AttemptStep(h, r)
       PROVE  [Next]_vars
  BY <1>9, <1>10, <1>11
     DEF StartAttempt, AttemptStep, AttemptFails, ReapExecutor, Load, Interrupt
<1>12. ASSUME NEW r \in Runs, StartRun(r)
       PROVE  [Next]_vars
  BY <1>12 DEF StartRun, Next, Starting
<1>13. ASSUME NEW r \in Runs, OpenerCancels(r) \/ EditStream(r) \/ Database(r)
       PROVE  [Next]_vars
  BY <1>13 DEF OpenerCancels, EditStream, Database, Next, Releases, Time
<1>14. CASE UNCHANGED sysVars
  BY <1>14 DEF sysVars
<1>15. QED BY <1>2, <1>3, <1>4, <1>5, <1>7, <1>8, <1>11, <1>12, <1>13, <1>14
           DEF HostNext, Lifecycle, Driving, Attempting

\* What one step may make of a stream.
StreamBecomes(r) ==
  \/ version'[r] = version[r] /\ status'[r] = status[r]
  \/ r \notin stream /\ r \in stream' /\ version'[r] = 1 /\ status'[r] = status[r]
  \/ r \in stream /\ version'[r] = version[r] + 1 /\ status'[r] = status[r]
  \/ /\ \E h \in Hosts : /\ drive[h][r] # None
                         /\ drive[h][r].stage \in {"draining", "failing", "interrupting"}
                         /\ drive[h][r].status = "running" \/ drive[h][r].stage = "interrupting"
                         /\ drive[h][r].version = version[r]
     /\ version'[r] = version[r] + 1 /\ status'[r] \in Status
  \/ /\ status[r] = "running" /\ version'[r] = version[r] + 1 /\ status'[r] = "finished"
     /\ \/ r \in stream /\ runs[r].state = "opening"
        \/ \E h \in Hosts : drive[h][r] # None
  \/ /\ \E h \in Hosts : /\ attempt[h][r] # None
                         /\ attempt[h][r].stage = "appending"
                         /\ attempt[h][r].version = version[r]
     /\ version'[r] = version[r] + 1 /\ status'[r] = "interrupted"

StreamsMove == /\ version' \in [Runs -> Nat] /\ status' \in [Runs -> Status]
               /\ \A r \in Runs : StreamBecomes(r)

LEMMA StreamSteps ==
  ASSUME HostingTypeOK, [HostNext]_sysVars
  PROVE  StreamsMove
<1>0. /\ version \in [Runs -> Nat] /\ status \in [Runs -> Status]
      /\ {"running", "finished", "failed", "interrupted"} \subseteq Status
  BY DEF HostingTypeOK, Status, Ended
<1>1. UNCHANGED <<version, status>> => StreamsMove
  BY <1>0 DEF StreamsMove, StreamBecomes
<1>2. ASSUME NEW r \in Runs, NEW n, NEW to \in Status, Stored(r, n, to)
      PROVE  /\ version' \in [Runs -> Nat] /\ status' \in [Runs -> Status]
             /\ version'[r] = version[r] + 1 /\ status'[r] = to /\ version[r] = n
             /\ \A q \in Runs \ {r} : StreamBecomes(q)
  BY <1>0, <1>2 DEF Stored, StreamBecomes
<1>3. ASSUME NEW h \in Hosts, NEW r \in Runs, NEW to \in Status,
             drive[h][r] # None,
             drive[h][r].stage \in {"draining", "failing", "interrupting"},
             drive[h][r].status = "running" \/ drive[h][r].stage = "interrupting",
             Stored(r, drive[h][r].version, to)
      PROVE  StreamsMove
  <2>1. StreamBecomes(r)
    BY <1>2, <1>3 DEF StreamBecomes
  <2>2. QED BY <1>2, <1>3, <2>1 DEF StreamsMove
<1>4. ASSUME NEW h \in Hosts, NEW r \in Runs, Interrupt(h, r)
      PROVE  StreamsMove
  <2>1. /\ attempt[h][r] # None /\ attempt[h][r].stage = "appending"
        /\ Stored(r, attempt[h][r].version, "interrupted")
    BY <1>4 DEF Interrupt, AttemptAt
  <2>2. StreamBecomes(r)
    BY <1>0, <1>2, <2>1 DEF StreamBecomes
  <2>3. QED BY <1>0, <1>2, <2>1, <2>2 DEF StreamsMove
<1>5. ASSUME NEW r \in Runs, EditStream(r)
      PROVE  StreamsMove
  <2>1. r \in stream /\ Stored(r, version[r], status[r]) /\ status[r] \in Status
    BY <1>0, <1>5 DEF EditStream
  <2>2. StreamBecomes(r)
    BY <1>2, <2>1 DEF StreamBecomes
  <2>3. QED BY <1>2, <2>1, <2>2 DEF StreamsMove
<1>6. ASSUME NEW r \in Runs, StartRun(r)
      PROVE  StreamsMove
  <2>1. CASE OpenStream(r) /\ version' = [version EXCEPT ![r] = 1] /\ UNCHANGED status
    BY <1>0, <2>1 DEF StreamsMove, OpenStream, StreamBecomes
  <2>2. QED BY <1>1, <1>6, <2>1 DEF StartRun, hosting
<1>7. ASSUME NEW h \in Hosts, NEW r \in Runs, Progress(h, r) \/ Finish(h, r)
      PROVE  StreamsMove
  BY <1>0, <1>1, <1>3, <1>7 DEF Progress, Finish, Record, At, NotStored
<1>8. ASSUME NEW h \in Hosts, NEW r \in Runs, RecordFailure(h, r) \/ RecordInterruption(h, r)
      PROVE  StreamsMove
  BY <1>0, <1>1, <1>3, <1>8 DEF RecordFailure, RecordInterruption, At, NotStored
<1>9. ASSUME NEW r \in Runs, CancelWithdrawn(r),
              \/ r \in stream /\ runs[r].state = "opening"
              \/ \E h \in Hosts : drive[h][r] # None
       PROVE  StreamsMove
  <2>1. status[r] = "running" /\ Stored(r, version[r], "finished")
    BY <1>9 DEF CancelWithdrawn
  <2>2. StreamBecomes(r)
    BY <1>0, <1>2, <1>9, <2>1 DEF StreamBecomes
  <2>3. QED BY <1>0, <1>2, <2>1, <2>2 DEF StreamsMove
<1>10. ASSUME NEW r \in Runs, OpenerCancels(r)
       PROVE  StreamsMove
  BY <1>9, <1>10 DEF OpenerCancels
<1>11. ASSUME NEW h \in Hosts, NEW r \in Runs, FoldCancels(h, r)
       PROVE  StreamsMove
  BY <1>9, <1>11 DEF FoldCancels, At
<1>12. ASSUME NEW h \in Hosts, NEW r \in Runs, DriveStep(h, r)
      PROVE  StreamsMove
  BY <1>1, <1>7, <1>8, <1>12, <1>11
     DEF DriveStep, Fold, Provision, PhaseFails, TearDown, ReapOwn, CloseOwn
<1>13. ASSUME NEW h \in Hosts, NEW r \in Runs, AttemptStep(h, r)
       PROVE  StreamsMove
  BY <1>1, <1>4, <1>13 DEF AttemptStep, AttemptFails, ReapExecutor, Mark, Load, CloseRow
<1>14. ASSUME NEW h \in Hosts, NEW r \in Runs,
              \/ ClaimRun(h, r) \/ RenewLease(h, r) \/ LoseLease(h, r)
              \/ Acquire(h, r) \/ StartAttempt(h, r) \/ Database(r)
       PROVE  StreamsMove
  BY <1>1, <1>14 DEF ClaimRun, RenewLease, LoseLease, Acquire, StartAttempt, Database, hosting
<1>15. ASSUME NEW r \in Runs, Database(r)
       PROVE  StreamsMove
  BY <1>1, <1>15 DEF Database, hosting
<1>16. ASSUME NEW h \in Hosts, Boot(h) \/ Beat(h) \/ ShutDown(h) \/ Leave(h) \/ Crash(h)
       PROVE  StreamsMove
  BY <1>1, <1>16 DEF Boot, Beat, ShutDown, Leave, Crash, hosting
<1>17. CASE UNCHANGED sysVars
  BY <1>1, <1>17 DEF sysVars, hosting
<1>18. QED
  BY <1>5, <1>6, <1>12, <1>13, <1>14, <1>15, <1>16, <1>17, <1>10
     DEF HostNext, Lifecycle, Driving, Attempting

\* The containers of r come from the drains of r.
ContainersBecome(r) ==
  containers'[r] \subseteq containers[r] \cup {h \in Hosts : At(h, r, "draining")}

ContainersMove == /\ containers' \in [Runs -> SUBSET Hosts]
                  /\ \A r \in Runs : ContainersBecome(r)

LEMMA ContainerSteps ==
  ASSUME HostingTypeOK, [HostNext]_sysVars
  PROVE  ContainersMove
<1>0. containers \in [Runs -> SUBSET Hosts]
  BY DEF HostingTypeOK
<1>1. UNCHANGED containers => ContainersMove
  BY <1>0 DEF ContainersMove, ContainersBecome
<1>2. ASSUME NEW r \in Runs, NEW removed,
             containers' = [containers EXCEPT ![r] = @ \ removed]
      PROVE  ContainersMove
  BY <1>0, <1>2 DEF ContainersMove, ContainersBecome
<1>3. ASSUME NEW h \in Hosts, NEW r \in Runs, Provision(h, r)
      PROVE  ContainersMove
  <2>1. PICK left \in SUBSET {h} : containers' = [containers EXCEPT ![r] = @ \cup left]
    BY <1>3 DEF Provision
  <2>2. At(h, r, "draining")
    BY <1>3 DEF Provision
  <2>3. QED BY <1>0, <2>1, <2>2 DEF ContainersMove, ContainersBecome
<1>4. ASSUME NEW h \in Hosts, NEW r \in Runs, DriveStep(h, r)
      PROVE  ContainersMove
  BY <1>1, <1>2, <1>3, <1>4
     DEF DriveStep, Fold, FoldCancels, Progress, Finish, PhaseFails, RecordFailure,
         RecordInterruption, TearDown, ReapOwn, CloseOwn
<1>5. ASSUME NEW h \in Hosts, NEW r \in Runs, AttemptStep(h, r)
      PROVE  ContainersMove
  BY <1>1, <1>2, <1>5
     DEF AttemptStep, AttemptFails, ReapExecutor, Mark, Load, Interrupt, CloseRow
<1>6. ASSUME NEW h \in Hosts, NEW r \in Runs,
             \/ ClaimRun(h, r) \/ RenewLease(h, r) \/ LoseLease(h, r)
             \/ Acquire(h, r) \/ StartAttempt(h, r)
      PROVE  ContainersMove
  BY <1>1, <1>6 DEF ClaimRun, RenewLease, LoseLease, Acquire, StartAttempt, hosting
<1>7. ASSUME NEW r \in Runs, StartRun(r) \/ OpenerCancels(r) \/ EditStream(r) \/ Database(r)
      PROVE  ContainersMove
  BY <1>1, <1>7 DEF StartRun, OpenerCancels, EditStream, Database, hosting
<1>8. ASSUME NEW h \in Hosts, Boot(h) \/ Beat(h) \/ ShutDown(h) \/ Leave(h) \/ Crash(h)
      PROVE  ContainersMove
  BY <1>1, <1>8 DEF Boot, Beat, ShutDown, Leave, Crash, hosting
<1>9. CASE UNCHANGED sysVars
  BY <1>1, <1>9 DEF sysVars, hosting
<1>10. QED
  BY <1>4, <1>5, <1>6, <1>7, <1>8, <1>9 DEF HostNext, Lifecycle, Driving, Attempting

LEMMA HostTypeStep ==
  ASSUME HostInv, [HostNext]_sysVars
  PROVE  HostingTypeOK'
<1> DEFINE State == {"unborn", "up", "stopping", "gone"}
<1>1. process \in [Hosts -> State] /\ HostingTypeOK /\ TypeOK
  BY DEF HostInv, HostingTypeOK, AccountsInv
<1>2. process' \in [Hosts -> State]
  <2>1. ASSUME NEW h \in Hosts, Boot(h) \/ Beat(h) \/ ShutDown(h) \/ Leave(h) \/ Crash(h)
        PROVE  process' \in [Hosts -> State]
    BY <1>1, <2>1 DEF Boot, Beat, ShutDown, Leave, Crash, hosting
  <2>2. ASSUME NEW h \in Hosts, NEW r \in Runs,
               ClaimRun(h, r) \/ DriveStep(h, r) \/ RenewLease(h, r) \/ LoseLease(h, r)
        PROVE  UNCHANGED process
    BY <2>2 DEF ClaimRun, DriveStep, Fold, FoldCancels, Provision, Progress, Finish, PhaseFails,
                RecordFailure, RecordInterruption, TearDown, ReapOwn, CloseOwn, RenewLease,
                LoseLease, hosting
  <2>3. ASSUME NEW h \in Hosts, NEW r \in Runs,
               Acquire(h, r) \/ StartAttempt(h, r) \/ AttemptStep(h, r)
        PROVE  UNCHANGED process
    BY <2>3 DEF Acquire, StartAttempt, AttemptStep, AttemptFails, ReapExecutor, Mark, Load,
                Interrupt, CloseRow, hosting
  <2>4. ASSUME NEW r \in Runs, StartRun(r) \/ OpenerCancels(r) \/ EditStream(r) \/ Database(r)
        PROVE  UNCHANGED process
    BY <2>4 DEF StartRun, OpenerCancels, EditStream, Database, hosting
  <2>5. UNCHANGED sysVars => UNCHANGED process
    BY DEF sysVars, hosting
  <2>6. QED BY <1>1, <2>1, <2>2, <2>3, <2>4, <2>5 DEF HostNext, Lifecycle, Driving, Attempting
<1>3. QED BY <1>1, <1>2, DriveSteps, AttemptSteps, StreamSteps, ContainerSteps
          DEF HostingTypeOK, DriveMoves, AttemptMoves, StreamsMove, ContainersMove

\* What one step may make of a row.
Waiting == {"none", "opening", "abandoned", "admitted"}

RowBecomes(r) ==
  \/ runs'[r].state = runs[r].state /\ runs'[r].executor = runs[r].executor
  \/ runs[r].state \in Waiting /\ runs'[r].state \in Waiting
  \/ \E h \in Hosts : Claim(h, r)
  \/ /\ runs[r].state \in Charged /\ runs'[r].state \in Charged
     /\ runs'[r].executor = runs[r].executor
  \/ CommitRelease(r)

LEMMA RowMoves ==
  ASSUME AccountsInv, [Next]_vars
  PROVE  \A r \in Runs : RowBecomes(r)
<1>1. runs \in [Runs -> Row] /\ TypeOK
  BY DEF AccountsInv, TypeOK
<1>2. ASSUME NEW r \in Runs, runs'[r] = runs[r]
      PROVE  RowBecomes(r)
  BY <1>2 DEF RowBecomes
<1>3. ASSUME NEW r \in Runs, RowWrite(r)
      PROVE  RowBecomes(r)
  <2>1. CASE \E e \in WriterEpochs, w \in Workloads : Reserve(r, e, w)
    BY <1>1, <2>1 DEF Reserve, RowBecomes, Waiting
  <2>2. CASE Promote(r)
    BY <1>1, <2>2 DEF Promote, RowBecomes, Waiting
  <2>3. CASE runs[r].state = "opening" /\ runs' = [runs EXCEPT ![r].state = "abandoned"]
    BY <1>1, <2>3 DEF RowBecomes, Waiting
  <2>4. CASE (\E h \in Hosts : Claim(h, r)) \/ CommitRelease(r)
    BY <2>4 DEF RowBecomes
  <2>5. ASSUME NEW h \in Hosts, FenceExpired(h, r)
        PROVE  RowBecomes(r)
    BY <1>1, <2>5 DEF FenceExpired, RowBecomes, Charged
  <2>6. ASSUME NEW h \in Hosts, TakeOver(h, r)
        PROVE  RowBecomes(r)
    BY <1>1, <2>6 DEF TakeOver, RowBecomes
  <2>7. ASSUME NEW h \in Hosts, NEW token, MarkReaped(h, r, token)
        PROVE  RowBecomes(r)
    BY <1>1, <2>7 DEF MarkReaped, RowBecomes, Charged
  <2>8. CASE \E token : Renew(r, token)
    BY <1>1, <2>8 DEF Renew, RowBecomes
  <2>9. CASE LeaseTick(r)
    BY <1>1, <2>9 DEF LeaseTick, RowBecomes
  <2>10. CASE RetryFallsDue(r)
    BY <1>1, <2>10 DEF RetryFallsDue, RowBecomes
  <2>11. QED BY <1>3, <2>1, <2>2, <2>3, <2>4, <2>5, <2>6, <2>7, <2>8, <2>9, <2>10 DEF RowWrite
<1>4. QED BY <1>1, <1>2, <1>3, RowSteps

LEMMA HostInvStep == HostInv /\ [HostNext]_sysVars => HostInv'
<1> SUFFICES ASSUME HostInv, [HostNext]_sysVars PROVE HostInv'
  OBVIOUS
<1>1. AccountsInv /\ [Next]_vars /\ AccountsInv'
  BY QueueStep, AccountsStep DEF HostInv
<1>2. /\ runs \in [Runs -> Row] /\ runs' \in [Runs -> Row]
      /\ \A r \in Runs : runs[r].token \in Nat /\ runs'[r].token \in Nat
  BY <1>1 DEF AccountsInv, TypeOK, Row
<1>3. \A r \in Runs : runs[r].token <= runs'[r].token
  BY <1>1, HandoverStep
<1>4. Issued'
  <2> SUFFICES ASSUME NEW r \in Runs, runs'[r].state \in Charged
               PROVE  runs'[r].token > 0
    BY DEF Issued
  <2>1. CASE runs[r].state \in Charged
    BY <1>2, <1>3, <2>1 DEF HostInv, Issued
  <2>2. CASE \E h \in Hosts : Claim(h, r)
    <3>1. runs'[r].token = runs[r].token + 1
      BY <1>2, <2>2 DEF Claim
    <3>2. QED BY <1>2, <3>1
  <2>3. CASE CommitRelease(r)
    <3>1. runs[r].state \in Charged
      BY <1>1, <2>3 DEF CommitRelease, AccountsInv, ReleaseMatchesRow, TypeOK, Release
    <3>2. QED BY <2>1, <3>1
  <2>4. QED BY <1>1, <2>1, <2>2, <2>3, RowMoves DEF RowBecomes, Waiting, Charged
<1>5. Handles'
  <2> SUFFICES ASSUME NEW h \in Hosts, NEW r \in Runs
               PROVE  /\ drive'[h][r] # None => drive'[h][r].token <= runs'[r].token
                      /\ attempt'[h][r] # None => attempt'[h][r].token <= runs'[r].token
    BY DEF Handles
  <2>1. /\ drive[h][r] \in Drive \cup {None} /\ attempt[h][r] \in Attempt \cup {None}
        /\ drive[h][r] # None => drive[h][r].token \in Nat
        /\ attempt[h][r] # None => attempt[h][r].token \in Nat
    BY DEF HostInv, HostingTypeOK, Drive, Attempt
  <2>2. ASSUME NEW n \in Nat, n <= runs[r].token
        PROVE  n <= runs'[r].token
    BY <1>2, <1>3, <2>2
  <2>3. drive'[h][r] # None => drive'[h][r].token <= runs'[r].token
    <3>1. DriveBecomes(h, r, drive'[h][r])
      BY <1>1, DriveSteps DEF DriveMoves, HostInv, AccountsInv
    <3>2. drive[h][r] # None => drive[h][r].token <= runs'[r].token
      BY <2>1, <2>2 DEF HostInv, Handles
    <3>3. runs'[r].token <= runs'[r].token
      BY <1>2
    <3>4. QED BY <3>1, <3>2, <3>3 DEF DriveBecomes
  <2>4. attempt'[h][r] # None => attempt'[h][r].token <= runs'[r].token
    <3>1. AttemptBecomes(h, r, attempt'[h][r])
      BY AttemptSteps DEF AttemptMoves
    <3>2. attempt[h][r] # None => attempt[h][r].token <= runs'[r].token
      BY <2>1, <2>2 DEF HostInv, Handles
    <3>3. QED BY <1>2, <1>3, <3>1, <3>2 DEF AttemptBecomes
  <2>5. QED BY <2>3, <2>4
<1>6. QED BY <1>1, <1>4, <1>5, HostTypeStep DEF HostInv

LEMMA HostInvInit == HostInit => HostInv
<1> SUFFICES ASSUME HostInit PROVE HostInv
  OBVIOUS
<1>1. HostingTypeOK
  BY DEF HostInit, HostingTypeOK, Status
<1>2. AccountsInv
  BY AccountsInit DEF HostInit
<1>3. Issued /\ Handles
  BY DEF HostInit, Init, NoRow, Issued, Handles, Charged
<1>4. QED BY <1>1, <1>2, <1>3 DEF HostInv

LEMMA HostInvariant == HostSpec => []HostInv
BY HostInvInit, HostInvStep, PTL DEF HostSpec

-----------------------------------------------------------------------------
(* Types and the refinement *)

\* Every reachable state of the hosts has its types.
THEOREM HostTypeCorrect == HostSpec => []HostingTypeOK
<1>1. HostInv => HostingTypeOK
  BY DEF HostInv
<1>2. QED BY <1>1, HostInvariant, PTL

\* The hosts implement the Run Queue: whatever they do, their calls form a
\* behaviour the queue allows, so what is proved of the queue holds of the fleet.
THEOREM HostImplementsQueue == HostSpec => Spec
<1>1. HostInit => Init
  BY DEF HostInit
<1>2. HostInv /\ [HostNext]_sysVars => [Next]_vars
  BY QueueStep
<1>3. QED BY <1>1, <1>2, HostInvariant, PTL DEF HostSpec, Spec

\* The fleet never loses or double-counts a slot.
THEOREM HostedChargesConserved == HostSpec => []ChargeConservation
BY HostImplementsQueue, ChargesConserved, PTL

-----------------------------------------------------------------------------
(* The stream has one end *)

\* A copy of r's stream, loaded at version n with status `to`: it is not ahead, and
\* unless the stream has moved on, a run it takes for running is running.
UpToDate(r, n, to) ==
  /\ n <= version[r]
  /\ to = "running" /\ n = version[r] => status[r] = "running"

StreamInv ==
  \A r \in Runs :
    /\ r \notin stream => version[r] = 0
    /\ \A h \in Hosts :
         /\ drive[h][r] # None \/ attempt[h][r] # None => r \in stream
         /\ drive[h][r] # None /\ drive[h][r].stage # "folding"
              => UpToDate(r, drive[h][r].version, drive[h][r].status)
         /\ At(h, r, "interrupting") => drive[h][r].status = "running"
         /\ AttemptAt(h, r, "appending") => UpToDate(r, attempt[h][r].version, "running")

\* Of two appends made at one version the second is refused, so nothing is
\* appended at all to a stream that has ended but by one that leaves it so.
LEMMA StreamGrows ==
  ASSUME HostInv, StreamInv, [HostNext]_sysVars, NEW r \in Runs
  PROVE  /\ version[r] \in Nat /\ version'[r] \in Nat
         /\ version[r] <= version'[r]
         /\ version[r] = version'[r] => status'[r] = status[r]
         /\ status[r] \in Ended => status'[r] = status[r]
         /\ r \notin stream' => version'[r] = 0
<1>1. /\ version[r] \in Nat /\ version'[r] \in Nat
      /\ "running" \notin Ended
      /\ stream \subseteq stream'
  BY QueueStep, StreamsStay, HostTypeStep DEF HostInv, HostingTypeOK, Ended
<1>2. StreamBecomes(r)
  BY StreamSteps DEF HostInv, StreamsMove
<1>3. CASE version'[r] = version[r] /\ status'[r] = status[r]
  BY <1>1, <1>3 DEF StreamInv
<1>4. CASE r \notin stream /\ r \in stream' /\ version'[r] = 1 /\ status'[r] = status[r]
  BY <1>1, <1>4 DEF StreamInv
<1>5. CASE r \in stream /\ version'[r] = version[r] + 1 /\ status'[r] = status[r]
  BY <1>1, <1>5
<1>6. ASSUME NEW h \in Hosts, drive[h][r] # None,
             drive[h][r].stage \in {"draining", "failing", "interrupting"},
             drive[h][r].status = "running" \/ drive[h][r].stage = "interrupting",
             drive[h][r].version = version[r],
             version'[r] = version[r] + 1
      PROVE  status[r] = "running" /\ r \in stream
  BY <1>6 DEF StreamInv, UpToDate, At
<1>7. ASSUME NEW h \in Hosts, attempt[h][r] # None, attempt[h][r].stage = "appending",
             attempt[h][r].version = version[r]
      PROVE  status[r] = "running" /\ r \in stream
  BY <1>7 DEF StreamInv, UpToDate, AttemptAt
<1>8. CASE /\ status[r] = "running" /\ version'[r] = version[r] + 1 /\ status'[r] = "finished"
           /\ r \in stream \/ \E h \in Hosts : drive[h][r] # None
  BY <1>1, <1>8 DEF StreamInv
<1>9. QED BY <1>1, <1>2, <1>3, <1>4, <1>5, <1>6, <1>7, <1>8 DEF StreamBecomes

LEMMA StreamInvStep ==
  ASSUME HostInv, QueuedIsRecorded, StreamInv, [HostNext]_sysVars
  PROVE  StreamInv'
<1> SUFFICES ASSUME NEW r \in Runs
             PROVE  /\ r \notin stream' => version'[r] = 0
                    /\ \A h \in Hosts :
                         /\ drive'[h][r] # None \/ attempt'[h][r] # None => r \in stream'
                         /\ drive'[h][r] # None /\ drive'[h][r].stage # "folding"
                              => UpToDate(r, drive[h][r].version, drive[h][r].status)'
                         /\ At(h, r, "interrupting")' => drive'[h][r].status = "running"
                         /\ AttemptAt(h, r, "appending")'
                              => UpToDate(r, attempt[h][r].version, "running")'
  BY DEF StreamInv
<1>1. /\ version[r] \in Nat /\ version'[r] \in Nat
      /\ version[r] <= version'[r]
      /\ version[r] = version'[r] => status'[r] = status[r]
      /\ r \notin stream' => version'[r] = 0
      /\ stream \subseteq stream'
  BY StreamGrows, QueueStep, StreamsStay
<1>2. ASSUME NEW n \in Nat, NEW to, UpToDate(r, n, to)
      PROVE  /\ n <= version'[r]
             /\ to = "running" /\ n = version'[r] => status'[r] = "running"
  BY <1>1, <1>2 DEF UpToDate
<1>3. ASSUME NEW h \in Hosts
      PROVE  /\ drive[h][r] \in Drive \cup {None} /\ DriveBecomes(h, r, drive'[h][r])
             /\ attempt[h][r] \in Attempt \cup {None} /\ AttemptBecomes(h, r, attempt'[h][r])
  BY DriveSteps, AttemptSteps DEF HostInv, AccountsInv, HostingTypeOK, DriveMoves, AttemptMoves
<1>4. ASSUME NEW h \in Hosts, drive'[h][r] # None
      PROVE  /\ r \in stream'
             /\ drive'[h][r].stage # "folding" =>
                  /\ drive'[h][r].version <= version'[r]
                  /\ drive'[h][r].status = "running" /\ drive'[h][r].version = version'[r]
                       => status'[r] = "running"
             /\ drive'[h][r].stage = "interrupting" => drive'[h][r].status = "running"
  <2> DEFINE c == drive[h][r]
             d == drive'[h][r]
  <2>1. CASE Claim(h, r) /\ d.stage = "folding"
    BY <1>1, <2>1 DEF Claim, MayTake, QueuedIsRecorded
  <2>2. CASE c # None
    <3>1. c \in Drive /\ c.version \in Nat /\ r \in stream
      BY <1>3, <2>2 DEF Drive, StreamInv
    <3>2. CASE d = c
      BY <1>1, <1>2, <2>2, <3>1, <3>2 DEF StreamInv, At
    <3>3. CASE d.stage = "draining" /\ d.version = version[r] /\ d.status = status[r]
                 /\ UNCHANGED <<version, status>>
      BY <1>1, <3>1, <3>3
    <3>4. CASE Stored(r, c.version, d.status) /\ d.version = c.version + 1
                 /\ d.stage \in {"draining", "tearing"}
      <4>1. version'[r] = c.version + 1 /\ status'[r] = d.status
        BY <3>4 DEF Stored, HostInv, HostingTypeOK
      <4>2. QED BY <1>1, <3>1, <3>4, <4>1
    <3>5. CASE /\ c.stage # "folding" /\ d.version = c.version
               /\ d.status = c.status \/ d.status # "running"
               /\ d.stage = "interrupting" =>
                    d.status = c.status /\ (c.stage = "interrupting" \/ d.status = "running")
      <4>1. UpToDate(r, c.version, c.status)
        BY <2>2, <3>5 DEF StreamInv
      <4>2. /\ d.version <= version'[r]
            /\ d.status = "running" /\ d.version = version'[r] => status'[r] = "running"
        BY <1>2, <3>1, <3>5, <4>1
      <4>3. d.stage = "interrupting" => d.status = "running"
        BY <2>2, <3>5 DEF StreamInv, At
      <4>4. QED BY <1>1, <3>1, <4>2, <4>3
    <3>6. QED BY <1>3, <1>4, <2>2, <3>2, <3>3, <3>4, <3>5, <2>1 DEF DriveBecomes, Onward
  <2>3. QED BY <1>3, <1>4, <2>1, <2>2 DEF DriveBecomes
<1>5. ASSUME NEW h \in Hosts, attempt'[h][r] # None
      PROVE  /\ r \in stream'
             /\ attempt'[h][r].stage = "appending" =>
                  /\ attempt'[h][r].version <= version'[r]
                  /\ attempt'[h][r].version = version'[r] => status'[r] = "running"
  <2> DEFINE a == attempt[h][r]
             b == attempt'[h][r]
  <2>1. CASE runs[r].state \in Fenced /\ b.stage \in {"reaping", "loading"}
    BY <1>1, <2>1 DEF Fenced, QueuedIsRecorded
  <2>2. CASE a # None
    <3>1. a \in Attempt /\ a.version \in Nat /\ r \in stream
      BY <1>3, <2>2 DEF Attempt, StreamInv
    <3>2. CASE b = a
      <4>1. b.stage = "appending" => UpToDate(r, a.version, "running")
        BY <2>2, <3>2 DEF StreamInv, AttemptAt
      <4>2. QED BY <1>1, <1>2, <3>1, <3>2, <4>1
    <3>3. CASE b.stage # "appending"
      BY <1>1, <3>1, <3>3
    <3>4. CASE /\ b.stage = IF status[r] = "running" THEN "appending" ELSE "closing"
               /\ b.version = version[r] /\ UNCHANGED <<version, status>>
      BY <1>1, <3>1, <3>4
    <3>5. QED BY <1>3, <1>5, <2>2, <3>2, <3>3, <3>4 DEF AttemptBecomes, Fenced
  <2>3. QED BY <1>3, <1>5, <2>1, <2>2 DEF AttemptBecomes
<1>6. QED BY <1>1, <1>4, <1>5 DEF UpToDate, At, AttemptAt

LEMMA StreamInvariant == HostSpec => []StreamInv
<1>1. HostInit => StreamInv
  BY DEF HostInit, Init, StreamInv, At, AttemptAt
<1>2. HostInv /\ QueuedIsRecorded /\ StreamInv /\ [HostNext]_sysVars => StreamInv'
  BY StreamInvStep
<1>3. HostSpec => []QueuedIsRecorded
  BY HostImplementsQueue, QueuedRunsAreRecorded, PTL
<1>4. QED BY <1>1, <1>2, <1>3, HostInvariant, PTL DEF HostSpec

\* A stream gets no second end: stalled owners, cancelled drains, tag edits and
\* reconcilers all append at the version they loaded.
THEOREM OneTerminalEvent == HostSpec => OneTerminal
<1>1. ASSUME HostInv, StreamInv, [HostNext]_sysVars
      PROVE  \A r \in Runs : status[r] \in Ended => status'[r] = status[r]
  BY <1>1, StreamGrows
<1>2. QED BY <1>1, HostInvariant, StreamInvariant, PTL DEF HostSpec, OneTerminal

-----------------------------------------------------------------------------
(* What a step may make of a release *)

ReleaseBecomes(r) ==
  \/ releasing'[r] = releasing[r]
  \/ releasing'[r] = None
  \/ \E h \in Hosts : /\ At(h, r, "closing") /\ Close(r, drive[h][r].token)
                      /\ EndDrive(h, r) /\ UNCHANGED containers
  \/ \E h \in Hosts : AttemptAt(h, r, "closing") /\ CloseInterrupted(r, attempt[h][r].token)

LEMMA ReleaseSteps ==
  ASSUME HostInv, [HostNext]_sysVars
  PROVE  \A r \in Runs : ReleaseBecomes(r)
<1>0. releasing \in [Runs -> Release \cup {None}]
  BY DEF HostInv, AccountsInv, TypeOK
<1>1. UNCHANGED releasing => \A r \in Runs : ReleaseBecomes(r)
  BY DEF ReleaseBecomes
<1>2. ASSUME NEW h \in Hosts, NEW r \in Runs, CloseOwn(h, r)
      PROVE  \A q \in Runs : ReleaseBecomes(q)
  BY <1>0, <1>1, <1>2 DEF CloseOwn, Close, BeginRelease, ReleaseBecomes, vars, txnVars
<1>3. ASSUME NEW h \in Hosts, NEW r \in Runs, CloseRow(h, r)
      PROVE  \A q \in Runs : ReleaseBecomes(q)
  BY <1>0, <1>3 DEF CloseRow, CloseInterrupted, BeginRelease, ReleaseBecomes
<1>4. ASSUME NEW r \in Runs, Database(r)
      PROVE  \A q \in Runs : ReleaseBecomes(q)
  BY <1>0, <1>4 DEF Database, CommitRelease, AbortRelease, LeaseTick, ReleaseBecomes, txnVars
<1>5. ASSUME NEW h \in Hosts, Boot(h) \/ Beat(h) \/ ShutDown(h) \/ Leave(h) \/ Crash(h)
      PROVE  UNCHANGED releasing
  BY <1>5 DEF Boot, Beat, ShutDown, Leave, Crash, Register, Heartbeat, Deregister, vars, txnVars
<1>6. ASSUME NEW h \in Hosts, NEW r \in Runs,
             ClaimRun(h, r) \/ RenewLease(h, r) \/ LoseLease(h, r)
      PROVE  UNCHANGED releasing
  BY <1>6 DEF ClaimRun, RenewLease, LoseLease, Claim, Renew, vars, txnVars
<1>7. ASSUME NEW h \in Hosts, NEW r \in Runs, DriveStep(h, r)
      PROVE  CloseOwn(h, r) \/ UNCHANGED releasing
  BY <1>7 DEF DriveStep, Fold, FoldCancels, Provision, Progress, Finish, PhaseFails, RecordFailure,
              RecordInterruption, TearDown, ReapOwn, vars, txnVars
<1>8. ASSUME NEW h \in Hosts, NEW r \in Runs, Acquire(h, r) \/ StartAttempt(h, r)
      PROVE  UNCHANGED releasing
  BY <1>8 DEF Acquire, StartAttempt, TakeOver, FenceExpired, vars, txnVars
<1>9. ASSUME NEW h \in Hosts, NEW r \in Runs, AttemptStep(h, r)
      PROVE  CloseRow(h, r) \/ UNCHANGED releasing
  BY <1>9 DEF AttemptStep, AttemptFails, ReapExecutor, Mark, MarkReaped, Load, Interrupt,
              vars, txnVars
<1>10. ASSUME NEW r \in Runs, StartRun(r) \/ OpenerCancels(r) \/ EditStream(r)
       PROVE  UNCHANGED releasing
  BY <1>10 DEF StartRun, OpenerCancels, EditStream, Reserve, OpenStream, MarkAdmitted, vars, txnVars
<1>11. UNCHANGED sysVars => UNCHANGED releasing
  BY DEF sysVars, vars, txnVars
<1>12. QED BY <1>1, <1>2, <1>3, <1>4, <1>5, <1>6, <1>7, <1>8, <1>9, <1>10, <1>11
           DEF HostNext, Lifecycle, Driving, Attempting

-----------------------------------------------------------------------------
(* Interrupted rows *)

EndedInv ==
  \A r \in Runs :
    /\ \A h \in Hosts : AttemptAt(h, r, "closing") => status[r] \in Ended
    /\ releasing[r] # None /\ releasing[r].to = "interrupted" => status[r] \in Ended
    /\ runs[r].state = "interrupted" => status[r] \in Ended

LEMMA EndedInvStep ==
  ASSUME HostInv, StreamInv, EndedInv, [HostNext]_sysVars
  PROVE  EndedInv'
<1> SUFFICES ASSUME NEW r \in Runs
             PROVE  /\ \A h \in Hosts : AttemptAt(h, r, "closing")' => status'[r] \in Ended
                    /\ releasing'[r] # None /\ releasing'[r].to = "interrupted"
                         => status'[r] \in Ended
                    /\ runs'[r].state = "interrupted" => status'[r] \in Ended
  BY DEF EndedInv
<1>1. status[r] \in Ended => status'[r] \in Ended
  BY StreamGrows
<1>2. /\ status \in [Runs -> Status]
      /\ runs \in [Runs -> Row] /\ releasing \in [Runs -> Release \cup {None}]
      /\ AccountsInv /\ [Next]_vars
  BY QueueStep DEF HostInv, HostingTypeOK, AccountsInv, TypeOK
<1>3. ASSUME NEW h \in Hosts, AttemptAt(h, r, "closing")'
      PROVE  status'[r] \in Ended
  <2> DEFINE a == attempt[h][r]
             b == attempt'[h][r]
  <2>1. b # None /\ b.stage = "closing"
    BY <1>3 DEF AttemptAt
  <2>2. AttemptBecomes(h, r, b)
    BY AttemptSteps DEF AttemptMoves
  <2>3. CASE b = a
    BY <1>1, <2>1, <2>3 DEF EndedInv, AttemptAt
  <2>4. CASE Stored(r, a.version, "interrupted")
    BY <1>2, <2>4 DEF Stored, Ended
  <2>5. CASE status[r] # "running" /\ UNCHANGED <<version, status>>
    BY <1>2, <2>5 DEF Status
  <2>6. QED BY <2>1, <2>2, <2>3, <2>4, <2>5 DEF AttemptBecomes
<1>4. releasing'[r] # None /\ releasing'[r].to = "interrupted" => status'[r] \in Ended
  <2>1. CASE \E h \in Hosts : AttemptAt(h, r, "closing")
    BY <1>1, <2>1 DEF EndedInv
  <2>2. CASE \E h \in Hosts : Close(r, drive[h][r].token)
    BY <1>2, <2>2 DEF Close, BeginRelease
  <2>3. QED BY <1>1, <2>1, <2>2, ReleaseSteps DEF EndedInv, ReleaseBecomes
<1>5. runs'[r].state = "interrupted" => status'[r] \in Ended
  <2>1. CASE \E h \in Hosts : Claim(h, r)
    BY <1>2, <2>1 DEF Claim
  <2>2. CASE CommitRelease(r)
    BY <1>1, <1>2, <2>2 DEF CommitRelease, EndedInv
  <2>3. QED BY <1>1, <1>2, <2>1, <2>2, RowMoves DEF RowBecomes, Waiting, Charged, EndedInv
<1>6. QED BY <1>3, <1>4, <1>5

LEMMA EndedInvariant == HostSpec => []EndedInv
<1>1. HostInit => EndedInv
  BY DEF HostInit, Init, NoRow, EndedInv, AttemptAt
<1>2. HostInv /\ StreamInv /\ EndedInv /\ [HostNext]_sysVars => EndedInv'
  BY EndedInvStep
<1>3. QED BY <1>1, <1>2, HostInvariant, StreamInvariant, PTL DEF HostSpec

\* No row is closed as interrupted over a stream that still runs: the row is closed
\* only by an attempt that found the stream ended or ended it itself.
THEOREM InterruptedRowsAreTerminal == HostSpec => []InterruptedIsTerminal
<1>1. EndedInv => InterruptedIsTerminal
  BY DEF EndedInv, InterruptedIsTerminal
<1>2. QED BY <1>1, EndedInvariant, PTL

-----------------------------------------------------------------------------
(* One place *)

PlaceInv ==
  \A r \in Runs :
    /\ \A g, h \in Places(r) : g = h
    /\ runs[r].state \in Waiting => Places(r) = {}
    /\ runs[r].state \in Charged => Places(r) \subseteq {runs[r].executor}
    /\ runs[r].state = "done" => Places(r) = {}
    /\ releasing[r] # None => /\ releasing[r].to \in Terminal
                              /\ releasing[r].to = "done" => Places(r) = {}
    /\ \A h \in Hosts : At(h, r, "closing") => h \notin containers[r]

LEMMA PlaceInvStep ==
  ASSUME HostInv, PlaceInv, [HostNext]_sysVars
  PROVE  PlaceInv'
<1> SUFFICES ASSUME NEW r \in Runs
             PROVE  /\ \A g, h \in Places(r)' : g = h
                    /\ runs'[r].state \in Waiting => Places(r)' = {}
                    /\ runs'[r].state \in Charged => Places(r)' \subseteq {runs'[r].executor}
                    /\ runs'[r].state = "done" => Places(r)' = {}
                    /\ releasing'[r] # None => /\ releasing'[r].to \in Terminal
                                               /\ releasing'[r].to = "done" => Places(r)' = {}
                    /\ \A h \in Hosts : At(h, r, "closing")' => h \notin containers'[r]
  BY DEF PlaceInv
<1>1. /\ runs \in [Runs -> Row] /\ releasing \in [Runs -> Release \cup {None}]
      /\ drive \in [Hosts -> [Runs -> Drive \cup {None}]]
      /\ containers \in [Runs -> SUBSET Hosts] /\ containers' \in [Runs -> SUBSET Hosts]
      /\ AccountsInv /\ [Next]_vars /\ RowBecomes(r) /\ ReleaseBecomes(r)
  BY QueueStep, HostTypeStep, RowMoves, ReleaseSteps DEF HostInv, HostingTypeOK, AccountsInv, TypeOK
<1>2. ASSUME NEW h \in Hosts
      PROVE  DriveBecomes(h, r, drive'[h][r])
  BY DriveSteps DEF DriveMoves, HostInv, AccountsInv
<1>3. containers'[r] \subseteq containers[r] \cup {h \in Hosts : At(h, r, "draining")}
  BY ContainerSteps DEF ContainersMove, ContainersBecome, HostInv
<1>4. ASSUME NEW h \in Places(r)'
      PROVE  h \in Places(r) \/ Claim(h, r)
  BY <1>1, <1>2, <1>3 DEF Places, At, DriveBecomes
<1>5. ASSUME NEW h \in Hosts, At(h, r, "closing")'
      PROVE  h \notin containers'[r]
  <2>1. CASE drive'[h][r] = drive[h][r]
    <3>1. h \notin containers[r]
      BY <1>5, <2>1 DEF At, PlaceInv
    <3>2. ~At(h, r, "draining")
      BY <1>5, <2>1 DEF At
    <3>3. QED BY <1>3, <3>1, <3>2
  <2>2. QED BY <1>2, <1>5, <2>1 DEF At, DriveBecomes, Onward
<1>6. ASSUME NEW h \in Hosts, Claim(h, r)
      PROVE  /\ Places(r)' \subseteq {h} /\ UNCHANGED releasing /\ releasing[r] = None
             /\ runs'[r].state = "claimed" /\ runs'[r].executor = h
  <2>1. runs[r].state = "admitted" /\ Places(r) = {}
    BY <1>6 DEF Claim, MayTake, PlaceInv, Waiting
  <2>2. releasing[r] = None
    BY <1>1, <2>1 DEF AccountsInv, ReleaseMatchesRow, Release, Charged
  <2>3. runs'[r].state = "claimed" /\ runs'[r].executor = h /\ UNCHANGED releasing
    BY <1>1, <1>6 DEF Claim, txnVars
  <2>4. ASSUME NEW g \in Hosts, Claim(g, r)
        PROVE  g = h
    BY <1>1, <2>3, <2>4 DEF Claim
  <2>5. Places(r)' \subseteq {h}
    BY <1>1, <1>4, <2>1, <2>4 DEF Places
  <2>6. QED BY <2>2, <2>3, <2>5
<1>7. CASE \E h \in Hosts : Claim(h, r)
  BY <1>5, <1>6, <1>7 DEF Charged, Waiting
<1>8. CASE ~\E h \in Hosts : Claim(h, r)
  <2>1. Places(r)' \subseteq Places(r)
    BY <1>1, <1>4, <1>8 DEF Places
  <2>2. \A g, h \in Places(r)' : g = h
    BY <2>1 DEF PlaceInv
  <2>3. CASE CommitRelease(r)
    <3>1. /\ releasing[r] # None /\ runs'[r].state = releasing[r].to
          /\ releasing'[r] = None
      BY <1>1, <2>3 DEF CommitRelease
    <3>2. QED BY <1>5, <2>1, <2>2, <3>1 DEF PlaceInv, Terminal, Waiting, Charged
  <2>4. CASE ~CommitRelease(r)
    <3>1. /\ runs'[r].state \in Waiting => Places(r)' = {}
          /\ runs'[r].state \in Charged => Places(r)' \subseteq {runs'[r].executor}
          /\ runs'[r].state = "done" => Places(r)' = {}
      BY <1>1, <1>8, <2>1, <2>4 DEF RowBecomes, PlaceInv, Waiting, Charged
    <3>2. ASSUME NEW h \in Hosts, At(h, r, "closing"), Close(r, drive[h][r].token),
                 EndDrive(h, r), UNCHANGED containers
          PROVE  Places(r)' = {} /\ releasing'[r].to = "done"
      <4>1. h \notin containers[r] /\ h \in Places(r)
        BY <3>2 DEF PlaceInv, At, Places
      <4>2. Places(r) \subseteq {h}
        BY <4>1 DEF PlaceInv
      <4>3. containers'[r] = {}
        BY <1>1, <3>2, <4>1, <4>2 DEF Places
      <4>4. drive'[h][r] = None
        BY <1>1, <3>2 DEF EndDrive
      <4>5. Places(r)' = {}
        BY <2>1, <4>2, <4>3, <4>4 DEF Places
      <4>6. releasing'[r].to = "done"
        BY <1>1, <3>2 DEF Close, BeginRelease
      <4>7. QED BY <4>5, <4>6
    <3>3. ASSUME NEW token, CloseInterrupted(r, token)
          PROVE  releasing'[r].to = "interrupted"
      BY <1>1, <3>3 DEF CloseInterrupted, BeginRelease
    <3>4. releasing'[r] # None => /\ releasing'[r].to \in Terminal
                                  /\ releasing'[r].to = "done" => Places(r)' = {}
      BY <1>1, <2>1, <3>2, <3>3 DEF ReleaseBecomes, PlaceInv, Terminal
    <3>5. QED BY <1>5, <2>2, <3>1, <3>4
  <2>5. QED BY <2>3, <2>4
<1>9. QED BY <1>7, <1>8

LEMMA PlaceInvariant == HostSpec => []PlaceInv
<1>1. HostInit => PlaceInv
  BY DEF HostInit, Init, NoRow, PlaceInv, Places, At, Charged
<1>2. HostInv /\ PlaceInv /\ [HostNext]_sysVars => PlaceInv'
  BY PlaceInvStep
<1>3. QED BY <1>1, <1>2, HostInvariant, PTL DEF HostSpec

\* No run ever has a driver or a container on two executors: its row stays charged
\* to the first, and is never claimable again, until nothing of it is left.
THEOREM RunsExecuteOnce == HostSpec => []RunsInOnePlace
<1>1. ASSUME HostInv, PlaceInv, NEW r \in Runs
      PROVE  Cardinality(Places(r)) <= 1
  <2>1. CASE Places(r) = {}
    BY <2>1, FS_EmptySet
  <2>2. ASSUME NEW h \in Places(r)
        PROVE  Cardinality(Places(r)) = 1
    <3>1. Places(r) = {h}
      BY <1>1 DEF PlaceInv
    <3>2. QED BY <3>1, FS_Singleton
  <2>3. QED BY <2>1, <2>2
<1>2. HostInv /\ PlaceInv => RunsInOnePlace
  BY <1>1 DEF RunsInOnePlace, Places
<1>3. QED BY <1>2, HostInvariant, PlaceInvariant, PTL

\* A row its executor closed has no container left, however its teardowns failed.
THEOREM DoneRowsAreGone == HostSpec => []DoneIsGone
<1>1. PlaceInv => DoneIsGone
  BY DEF PlaceInv, Places, DoneIsGone
<1>2. QED BY <1>1, PlaceInvariant, PTL

=============================================================================
