-------------------------- MODULE ExecutionHosting --------------------------
(***************************************************************************)
(* The Execution Host over the Run Queue: the processes that claim runs,   *)
(* drive them under a lease, release them, and reconcile the runs whose    *)
(* executor stopped renewing; the workspaces (containers) they create; and *)
(* the execution's event stream with its optimistic version.               *)
(*                                                                         *)
(* Every step that touches the queue takes the RunQueue action of the      *)
(* statement it calls, with the handle it holds.  A call that fails may    *)
(* have taken effect or not.                                               *)
(*                                                                         *)
(* Left out, as the properties do not depend on them: the opening sweep,   *)
(* stale heartbeats, idle claims and the breaker (RunQueue has them), the   *)
(* drain flag, and phases beyond "one more container, one more append".    *)
(***************************************************************************)
EXTENDS RunQueue

CONSTANT
  MaxVersion    \* bound: no append but a terminal one once a stream is this long

ASSUME MaxVersionAssumption == MaxVersion \in Nat

VARIABLES
  process,      \* each host's process
  drive,        \* the run tasks of a host: _drive with its drain and LeaseKeeper
  attempt,      \* the reconciliation attempts of a host
  containers,   \* the executors that have a container for the run
  version,      \* the length of the execution's stream
  status        \* the status a reload of the stream gives

hosting == <<process, drive, attempt, containers, version, status>>
sysVars == <<vars, hosting>>

\* "finished" is completed, cancelled, or failed by a command gate.
Ended  == {"finished", "failed", "interrupted"}
Status == {"running"} \cup Ended

\* Where a drive is in run_claimed and _drive; "abandoning" is the teardown of a
\* drain that is not going to release its row.
Stage == {"folding", "draining", "failing", "interrupting", "tearing", "abandoning",
          "reaping", "closing"}

\* The aggregate a drive holds is the stream as it loaded or last wrote it, plus
\* what it decided since, recorded or not.
Drive == [stage : Stage, token : Nat \ {0}, version : Nat, status : Status]

Attempt == [stage : {"reaping", "marking", "loading", "appending", "closing"},
            token : Nat \ {0}, executor : Hosts, version : Nat]

HostingTypeOK ==
  /\ process \in [Hosts -> {"unborn", "up", "stopping", "gone"}]
  /\ drive \in [Hosts -> [Runs -> Drive \cup {None}]]
  /\ attempt \in [Hosts -> [Runs -> Attempt \cup {None}]]
  /\ containers \in [Runs -> SUBSET Hosts]
  /\ version \in [Runs -> Nat]
  /\ status \in [Runs -> Status]

HostInit ==
  /\ Init
  /\ process = [h \in Hosts |-> "unborn"]
  /\ drive = [h \in Hosts |-> [r \in Runs |-> None]]
  /\ attempt = [h \in Hosts |-> [r \in Runs |-> None]]
  /\ containers = [r \in Runs |-> {}]
  /\ version = [r \in Runs |-> 0]
  /\ status = [r \in Runs |-> "running"]

-----------------------------------------------------------------------------
(* The stream *)

\* Mutation: the append does not say which version it expects.
StoredAnyway(r, expected, to) ==
  /\ version' = [version EXCEPT ![r] = @ + 1]
  /\ status' = [status EXCEPT ![r] = to]

\* An append expects the version its aggregate was loaded at, and is refused on
\* any other.  A stored one may go unacknowledged; both errors look the same.
Stored(r, expected, to) ==
  /\ version[r] = expected
  /\ version' = [version EXCEPT ![r] = @ + 1]
  /\ status' = [status EXCEPT ![r] = to]

NotStored == UNCHANGED <<version, status>>

\* Tags, evals and late work records are appended by others, ended run or not.
EditStream(r) ==
  /\ r \in stream
  /\ version[r] < MaxVersion
  /\ Stored(r, version[r], status[r])
  /\ UNCHANGED <<vars, process, drive, attempt, containers>>

\* cancel_if_withdrawn: the child of a withdrawn resume is cancelled at the version it is read at; an
\* append that is refused is made again on a new read.
CancelWithdrawn(r) == status[r] = "running" /\ Stored(r, version[r], "finished")

\* The opener asks before it promotes the row.
OpenerCancels(r) ==
  /\ r \in stream /\ runs[r].state = "opening"
  /\ CancelWithdrawn(r)
  /\ UNCHANGED <<vars, process, drive, attempt, containers>>

\* A start: the row is reserved, the stream opened, the row marked.
StartRun(r) ==
  \/ /\ \E e \in WriterEpochs, w \in Workloads : Reserve(r, e, w)
     /\ UNCHANGED hosting
  \/ /\ OpenStream(r)
     /\ version' = [version EXCEPT ![r] = 1]
     /\ UNCHANGED <<process, drive, attempt, containers, status>>
  \/ MarkAdmitted(r) /\ UNCHANGED hosting

-----------------------------------------------------------------------------
(* The process *)

Up(h) == process[h] = "up"

Running(h) == process[h] \in {"up", "stopping"}

\* One process at a time runs in a container.
Boot(h) ==
  /\ process[h] = "unborn"
  /\ \A x \in Hosts : Container[x] = Container[h] => ~Running(x)
  /\ Register(h)
  /\ process' = [process EXCEPT ![h] = "up"]
  /\ UNCHANGED <<drive, attempt, containers, version, status>>

Beat(h) == Up(h) /\ Heartbeat(h) /\ UNCHANGED hosting

\* What a drive becomes when it is cancelled: its drain saves the work of a phase
\* in flight, tears down, and the row is left for the lease to expire.
Cancelled(d) ==
  IF d = None \/ d.stage \in {"folding", "reaping", "closing"} THEN None
  ELSE [d EXCEPT !.stage =
          IF d.stage = "interrupting" \/ (d.stage = "draining" /\ d.status = "running")
          THEN "interrupting" ELSE "abandoning"]

ShutDown(h) ==
  /\ Up(h)
  /\ process' = [process EXCEPT ![h] = "stopping"]
  /\ drive' = [drive EXCEPT ![h] = [r \in Runs |-> Cancelled(@[r])]]
  /\ attempt' = [attempt EXCEPT ![h] = [r \in Runs |-> None]]
  /\ UNCHANGED <<vars, containers, version, status>>

\* leave never raises: a deregistration that fails leaves the host's row behind.
Leave(h) ==
  /\ process[h] = "stopping"
  /\ \A r \in Runs : drive[h][r] = None
  /\ process' = [process EXCEPT ![h] = "gone"]
  /\ Deregister(h) \/ UNCHANGED vars
  /\ UNCHANGED <<drive, attempt, containers, version, status>>

\* A crash takes the process with its tasks; rows and containers stay.
Crash(h) ==
  /\ Running(h)
  /\ process' = [process EXCEPT ![h] = "gone"]
  /\ drive' = [drive EXCEPT ![h] = [r \in Runs |-> None]]
  /\ attempt' = [attempt EXCEPT ![h] = [r \in Runs |-> None]]
  /\ UNCHANGED <<vars, containers, version, status>>

-----------------------------------------------------------------------------
(* The drive of a claimed run *)

At(h, r, stage) == drive[h][r] # None /\ drive[h][r].stage = stage

GoTo(h, r, stage) == drive' = [drive EXCEPT ![h][r].stage = stage]

\* The drive goes on with an aggregate that is at version n and has status `to`.
GoOn(h, r, stage, n, to) ==
  drive' = [drive EXCEPT ![h][r] =
    [stage |-> stage, token |-> @.token, version |-> n, status |-> to]]

EndDrive(h, r) == drive' = [drive EXCEPT ![h][r] = None]

ClaimRun(h, r) ==
  /\ Up(h) /\ drive[h][r] = None
  /\ Claim(h, r)
  /\ drive' = [drive EXCEPT ![h][r] =
       [stage |-> "folding", token |-> runs'[r].token, version |-> 0, status |-> "running"]]
  /\ UNCHANGED <<process, attempt, containers, version, status>>

\* The run is folded from its stream; a failed load escapes the drain.
Fold(h, r) ==
  /\ At(h, r, "folding")
  /\ \/ GoOn(h, r, "draining", version[r], status[r])
     \/ EndDrive(h, r)
  /\ UNCHANGED <<vars, process, attempt, containers, version, status>>

\* The claimer asks again after its fold, and folds again what it cancelled; an append it cannot show
\* recorded escapes the drain.
FoldCancels(h, r) ==
  /\ At(h, r, "folding")
  /\ CancelWithdrawn(r)
  /\ UNCHANGED drive \/ EndDrive(h, r)
  /\ UNCHANGED <<vars, process, attempt, containers>>

\* A phase's container exists before the append that says so; creating it may
\* fail, with or without leaving one behind.
Provision(h, r) ==
  /\ At(h, r, "draining") /\ drive[h][r].status = "running"
  /\ \/ containers' = [containers EXCEPT ![r] = @ \cup {h}] /\ UNCHANGED drive
     \/ /\ \E left \in SUBSET {h} : containers' = [containers EXCEPT ![r] = @ \cup left]
        /\ GoTo(h, r, "failing")
  /\ UNCHANGED <<vars, process, attempt, version, status>>

\* The drain records `to`: a further step of a phase, or the end of the run.
Record(h, r, to, next) ==
  \/ /\ Stored(r, drive[h][r].version, to)
     /\ GoOn(h, r, next, drive[h][r].version + 1, to)
  \/ /\ Stored(r, drive[h][r].version, to) \/ NotStored
     /\ GoOn(h, r, "failing", drive[h][r].version, to)

\* A phase goes a step further; its container goes when the phase completes, if
\* removing it works.
Progress(h, r) ==
  /\ At(h, r, "draining") /\ drive[h][r].status = "running"
  /\ version[r] < MaxVersion
  /\ Record(h, r, "running", "draining")
  /\ \E removed \in SUBSET {h} : containers' = [containers EXCEPT ![r] = @ \ removed]
  /\ UNCHANGED <<vars, process, attempt>>

Finish(h, r) ==
  /\ At(h, r, "draining") /\ drive[h][r].status = "running"
  /\ Record(h, r, "finished", "tearing")
  /\ UNCHANGED <<vars, process, attempt, containers>>

\* An agent, a gate or any other step of the drain raises; a run that had ended
\* before it was folded raises on its first command.
PhaseFails(h, r) ==
  /\ At(h, r, "draining")
  /\ GoTo(h, r, "failing")
  /\ UNCHANGED <<vars, process, attempt, containers, version, status>>

\* record_failed_execution: an aggregate that has ended refuses the command, an
\* append that fails is only logged; either way the teardown follows and the
\* drain returns.  Saving the work may raise instead, and escape.
RecordFailure(h, r) ==
  /\ At(h, r, "failing")
  /\ \/ /\ drive[h][r].status = "running"
        /\ Stored(r, drive[h][r].version, "failed") \/ NotStored
        /\ GoOn(h, r, "tearing", drive[h][r].version, "failed")
     \/ drive[h][r].status # "running" /\ GoTo(h, r, "tearing") /\ NotStored
     \/ GoTo(h, r, "abandoning") /\ NotStored
  /\ UNCHANGED <<vars, process, attempt, containers>>

\* The cancelled drain's append, within its budget or not at all.
RecordInterruption(h, r) ==
  /\ At(h, r, "interrupting")
  /\ Stored(r, drive[h][r].version, "interrupted") \/ NotStored
  /\ GoOn(h, r, "abandoning", drive[h][r].version, "interrupted")
  /\ UNCHANGED <<vars, process, attempt, containers>>

\* Mutation: the row is closed as soon as the teardown has been tried.
ClosesUnreaped(h, r) ==
  /\ \/ At(h, r, "tearing") /\ GoTo(h, r, "closing")
     \/ At(h, r, "abandoning") /\ EndDrive(h, r)
  /\ \E removed \in SUBSET {h} : containers' = [containers EXCEPT ![r] = @ \ removed]
  /\ UNCHANGED <<vars, process, attempt, version, status>>

\* abandon_all: removing a workspace may fail, and does so silently.
TearDown(h, r) ==
  /\ \/ At(h, r, "tearing") /\ GoTo(h, r, "reaping")
     \/ At(h, r, "abandoning") /\ EndDrive(h, r)
  /\ \E removed \in SUBSET {h} : containers' = [containers EXCEPT ![r] = @ \ removed]
  /\ UNCHANGED <<vars, process, attempt, version, status>>

\* _released: the row is closed only if the run's resources are shown gone.
ReapOwn(h, r) ==
  /\ At(h, r, "reaping")
  /\ \/ /\ containers' = [containers EXCEPT ![r] = @ \ {h}]
        /\ GoTo(h, r, "closing")
     \/ /\ \E removed \in SUBSET {h} : containers' = [containers EXCEPT ![r] = @ \ removed]
        /\ EndDrive(h, r)
  /\ UNCHANGED <<vars, process, attempt, version, status>>

\* Mutation: a run its host let go is given back to the queue, not closed.
GivesBack(h, r) ==
  /\ At(h, r, "closing")
  /\ Defer(r, drive[h][r].token, TRUE) \/ UNCHANGED vars
  /\ EndDrive(h, r)
  /\ UNCHANGED <<process, attempt, containers, version, status>>

\* The close is refused if the row was fenced meanwhile, and may fail.
CloseOwn(h, r) ==
  /\ At(h, r, "closing")
  /\ Close(r, drive[h][r].token) \/ UNCHANGED vars
  /\ EndDrive(h, r)
  /\ UNCHANGED <<process, attempt, containers, version, status>>

\* The keeper works until its drain is done.
Kept(h, r) ==
  drive[h][r] # None /\ drive[h][r].stage \notin {"reaping", "closing"}

RenewLease(h, r) ==
  /\ Kept(h, r)
  /\ Renew(r, drive[h][r].token)
  /\ UNCHANGED hosting

Owns(h, r) == /\ runs[r].state = "claimed"
              /\ runs[r].token = drive[h][r].token
              /\ runs[r].lease > 0

\* A renewal that finds the lease expired or superseded cancels the drain.  One
\* that cannot reach the queue is tried again, so a drive may outlive its lease.
LoseLease(h, r) ==
  /\ Kept(h, r) /\ ~Owns(h, r)
  /\ drive' = [drive EXCEPT ![h][r] = Cancelled(@)]
  /\ UNCHANGED <<vars, process, attempt, containers, version, status>>

-----------------------------------------------------------------------------
(* Reconciliation *)

AttemptAt(h, r, stage) == attempt[h][r] # None /\ attempt[h][r].stage = stage

Advance(h, r, stage) == attempt' = [attempt EXCEPT ![h][r].stage = stage]

EndAttempt(h, r) == attempt' = [attempt EXCEPT ![h][r] = None]

\* Mutation: the rows of a departed reconciler are left to it.
AcquireExpired(h, r) == Up(h) /\ FenceExpired(h, r) /\ UNCHANGED hosting

\* _acquire; what it acquires is in the host's rows from then on.
Acquire(h, r) ==
  /\ Up(h)
  /\ TakeOver(h, r) \/ FenceExpired(h, r)
  /\ UNCHANGED hosting

\* Mutation: a row is picked by its reconciler alone, closed or not.
StartsClosed(h, r) ==
  /\ Up(h) /\ attempt[h][r] = None
  /\ runs[r].reconciler = h
  /\ attempt' = [attempt EXCEPT ![h][r] =
       [stage |-> IF runs[r].state = "fencing" THEN "reaping" ELSE "loading",
        token |-> runs[r].token, executor |-> runs[r].executor, version |-> 0]]
  /\ UNCHANGED <<vars, process, drive, containers, version, status>>

\* An attempt starts where the row says the last one got to.
StartAttempt(h, r) ==
  /\ Up(h) /\ attempt[h][r] = None
  /\ runs[r].state \in Fenced /\ runs[r].reconciler = h
  /\ attempt' = [attempt EXCEPT ![h][r] =
       [stage |-> IF runs[r].state = "fencing" THEN "reaping" ELSE "loading",
        token |-> runs[r].token, executor |-> runs[r].executor, version |-> 0]]
  /\ UNCHANGED <<vars, process, drive, containers, version, status>>

\* Any error ends an attempt; the row says where the next one resumes.
AttemptFails(h, r) ==
  /\ attempt[h][r] # None
  /\ EndAttempt(h, r)
  /\ UNCHANGED <<vars, process, drive, containers, version, status>>

\* The executor's container is removed, and shown gone or not.
ReapExecutor(h, r) ==
  /\ AttemptAt(h, r, "reaping")
  /\ containers' = [containers EXCEPT ![r] = @ \ {attempt[h][r].executor}]
  /\ Advance(h, r, "marking") \/ EndAttempt(h, r)
  /\ UNCHANGED <<vars, process, drive, version, status>>

Mark(h, r) ==
  /\ AttemptAt(h, r, "marking")
  /\ MarkReaped(h, r, attempt[h][r].token)
  /\ Advance(h, r, "loading") \/ EndAttempt(h, r)
  /\ UNCHANGED <<process, drive, containers, version, status>>

\* A run that has ended has its row closed only.
Load(h, r) ==
  /\ AttemptAt(h, r, "loading")
  /\ attempt' = [attempt EXCEPT
       ![h][r].stage = IF status[r] = "running" THEN "appending" ELSE "closing",
       ![h][r].version = version[r]]
  /\ UNCHANGED <<vars, process, drive, containers, version, status>>

\* Mutation: a refused append is taken for one that lost to the owner's own end.
ClosesRefused(h, r) ==
  /\ AttemptAt(h, r, "appending")
  /\ Stored(r, attempt[h][r].version, "interrupted") \/ NotStored
  /\ Advance(h, r, "closing") \/ EndAttempt(h, r)
  /\ UNCHANGED <<vars, process, drive, containers>>

Interrupt(h, r) ==
  /\ AttemptAt(h, r, "appending")
  /\ Stored(r, attempt[h][r].version, "interrupted")
  /\ Advance(h, r, "closing") \/ EndAttempt(h, r)
  /\ UNCHANGED <<vars, process, drive, containers>>

CloseRow(h, r) ==
  /\ AttemptAt(h, r, "closing")
  /\ CloseInterrupted(r, attempt[h][r].token)
  /\ EndAttempt(h, r)
  /\ UNCHANGED <<process, drive, containers, version, status>>

-----------------------------------------------------------------------------
(* Next *)

\* A release commits, or is lost with its connection; leases run out.
Database(r) ==
  /\ CommitRelease(r) \/ AbortRelease(r) \/ LeaseTick(r)
  /\ UNCHANGED hosting

Lifecycle == \E h \in Hosts : Boot(h) \/ Beat(h) \/ ShutDown(h) \/ Leave(h) \/ Crash(h)

DriveStep(h, r) ==
  \/ Fold(h, r) \/ FoldCancels(h, r) \/ Provision(h, r) \/ Progress(h, r) \/ Finish(h, r)
  \/ PhaseFails(h, r) \/ RecordFailure(h, r) \/ RecordInterruption(h, r) \/ TearDown(h, r)
  \/ ReapOwn(h, r) \/ CloseOwn(h, r)

Driving ==
  \E h \in Hosts, r \in Runs :
    ClaimRun(h, r) \/ DriveStep(h, r) \/ RenewLease(h, r) \/ LoseLease(h, r)

AttemptStep(h, r) ==
  \/ AttemptFails(h, r) \/ ReapExecutor(h, r) \/ Mark(h, r)
  \/ Load(h, r) \/ Interrupt(h, r) \/ CloseRow(h, r)

Attempting ==
  \E h \in Hosts, r \in Runs : Acquire(h, r) \/ StartAttempt(h, r) \/ AttemptStep(h, r)

HostNext ==
  \/ Lifecycle \/ Driving \/ Attempting
  \/ \E r \in Runs : StartRun(r) \/ OpenerCancels(r) \/ EditStream(r) \/ Database(r)

HostSpec == HostInit /\ [][HostNext]_sysVars

\* A live host's loop and its tasks go on; leases run out; a reap, an append and a
\* release that is tried again and again succeeds in the end.
Fairness ==
  /\ \A h \in Hosts : WF_sysVars(Beat(h)) /\ WF_sysVars(Leave(h))
  /\ \A r \in Runs : /\ SF_sysVars(CommitRelease(r) /\ UNCHANGED hosting)
                     /\ WF_sysVars(LeaseTick(r) /\ UNCHANGED hosting)
  /\ \A h \in Hosts, r \in Runs :
       /\ WF_sysVars(ClaimRun(h, r)) /\ WF_sysVars(DriveStep(h, r))
       /\ WF_sysVars(Acquire(h, r))
       /\ WF_sysVars(StartAttempt(h, r)) /\ WF_sysVars(AttemptStep(h, r))
       /\ SF_sysVars(ReapExecutor(h, r) /\ attempt'[h][r] # None)
       /\ SF_sysVars(Mark(h, r)) /\ SF_sysVars(Load(h, r))
       /\ SF_sysVars(Interrupt(h, r)) /\ SF_sysVars(CloseRow(h, r))

LiveHostSpec == HostSpec /\ Fairness

-----------------------------------------------------------------------------
(* Properties *)

\* The stream has one terminal event: whatever a stalled owner, its cancelled
\* drain and a reconciler append, a run that ended stays ended the way it did.
OneTerminal ==
  [][\A r \in Runs : status[r] \in Ended => status'[r] = status[r]]_sysVars

\* A row is interrupted only over a stream that has ended, even if the interrupting
\* append lost to an edit, to the owner or to the network.
InterruptedIsTerminal ==
  \A r \in Runs : runs[r].state = "interrupted" => status[r] \in Ended

\* A run never executes in two places: no second executor drives it, or has a
\* container for it, while the first may still have one.
RunsInOnePlace ==
  \A r \in Runs :
    Cardinality(containers[r] \cup {h \in Hosts : drive[h][r] # None}) <= 1

\* _released: a row its executor closed has nothing left on the executor.
DoneIsGone == \A r \in Runs : runs[r].state = "done" => containers[r] = {}

\* Closing a run frees its slot, so it comes after the terminal event: "the row is
\* closed only after the stream is terminal" (ADR-072 D5).
DoneIsTerminal == \A r \in Runs : runs[r].state = "done" => status[r] \in Ended

\* Every admitted run reaches a terminal row, whatever crashes, restarts, lost
\* leases and failed calls come first, if in the end some host stays up and every
\* dead host is replaced in its container, or was deregistered.
FleetSettles == <>[](registered # {} /\ \A h \in registered : Up(h))

RunsEnd ==
  \A r \in Runs : FleetSettles => (runs[r].state = "admitted" ~> runs[r].state \in Terminal)

\* The run as its life sees it: the row's state without the queue's own detours,
\* and the hosts that have a drive or a container of it.
LifeState(r) ==
  IF runs[r].state \in Fenced THEN "fenced"
  ELSE IF runs[r].state \in {"claimed"} \cup Terminal THEN runs[r].state
  ELSE "waiting"

Places(r) == containers[r] \cup {h \in Hosts : drive[h][r] # None}

Life == INSTANCE ExecutionRun WITH
  state   <- [r \in Runs |-> LifeState(r)],
  places  <- [r \in Runs |-> Places(r)],
  outcome <- status

\* Crashes, stalled owners, failed reaps and raced releases included, a run is
\* taken once, never moves, and is closed only when it is gone or has ended.
ImplementsRun == Life!LifeSpec
=============================================================================
