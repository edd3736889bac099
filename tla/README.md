# Verification of Syntropic137: the execution core

Syntropic137 runs agent workflows. A start, by a client or by a GitHub event that fires a
trigger rule, is recorded, admitted, given a slot, driven through its phases in containers,
and recorded in an event store. With the run queue switched on, starts wait in Postgres and
host processes claim them. This directory models that path in TLA+: what may happen to
events, starts, runs, slots and containers when processes crash, restart and stall, when
writers of one stream collide, and when what a step reads is already out of date.

    tlc -workers 2 -config MCRunQueue.cfg MCRunQueue     # any run
    tlapm RunQueue_proofs.tla                            # any proof module

## Inventory of the system

Paths are relative to `src/`. *A* is `packages/syn-adapters/src/syn_adapters`, *D* is
`packages/syn-domain/src/syn_domain/contexts`, *API* is `apps/syn-api/src/syn_api`.

| Component | State | Operations | What is hard | What makes it correct |
|---|---|---|---|---|
| **Run Queue** (`A/execution_runs/postgres.py`, `schema.sql`) | tables `execution_runs`, `execution_budget`, `executor_hosts`, `executor_pools` | register, heartbeat, reserve, promote, sweep, claim, renew, close, defer, fence, take over, mark reaped, close interrupted | several API and host processes at once; statements that wait for row locks and see old snapshots; late and repeated calls | slots are counted exactly once; one claimant per machine; tokens fence old holders; nothing recorded is stuck |
| **Execution Host** (`A/execution_host/`) | tasks per run, reconciliation attempts, leases | claim loop, drive, renew, reap, interrupt, leave | crash and shutdown at every await; a stalled owner racing its reconciler | one terminal event, one place of execution, no slot freed over live resources, every run ends |
| **Claimed run** (`D/orchestration/slices/execute_workflow/`) | the to-do fold, the aggregate held in memory, the runtimes | fold, dispatch of phases, complete, fail, cancel, interrupt, teardown | appends that are refused or unacknowledged; cancellation inside failure handling | the outcome is recorded before the row is closed |
| **WorkflowExecution aggregate** (`D/orchestration/domain/aggregate_execution/`) | event stream, status, phases, attempts, tags | about thirty commands | optimistic concurrency with edits from the API | commands are refused once the run has ended |
| **Execution todo** (`D/orchestration/slices/execution_todo/`) | pending step per execution | a fold of the events | must agree with the aggregate at every step | a next step exists until the run ends |
| **ExecutionRequest, start and resume process managers** (`D/orchestration/slices/start_execution_request`, `start_resume`) | request streams, retry schedules | accept, withdraw, start, confirm, give up | withdrawal races the start; redelivery of events | a request starts at most one execution, and a withdrawn one none |
| **Admission, capacity, maintenance** (`API/_wiring_admission.py`, `API/services/execution_capacity.py`, `A/maintenance/`) | maintenance mode, tickets, budgets | admit, drain, set mode | check-then-act between processes | nothing starts under maintenance |
| **Projection coordinator** (`A/subscriptions/`) | checkpoints per projection | catch up, live dispatch, retry | crash between apply and checkpoint | at least once, in order, no gaps |
| **Control plane** (`A/control/`) | signals per execution | pause, resume, cancel, inject | signal against end of run | a signal is consumed at most once |
| **GitHub triggers** (`D/github/`, `A/dedup/`) | dedup keys, poller cursors, trigger rules, debounce timers | ingest, evaluate, dispatch | the same event from webhook and poller | one dispatch per event |
| **Session capture and replication** (`A/session_inventory/`) | delivery jobs with leases, receipts | enqueue, claim, deliver, delete | retries, deletion racing delivery | captured once, deleted for good |
| **Event buffer, collector** (`A/events/`, `packages/syn-collector`) | in-memory batches | add, flush | flush failure, shutdown | nothing acknowledged is dropped |
| **Organization, artifacts, evals, templates, feedback** (`D/organization`, `D/artifacts`, `D/feedback`) | aggregates | create, edit, archive | little concurrency beyond the optimistic version | single-aggregate rules |
| **Tokens, GitHub client, workspace backends** | leases of credentials, containers | vend, revoke, create, remove | external services | expiry and cleanup |
| **User interfaces, CLI, docs, perf** | none of the core's | | | |

How the parts interact. A **webhook** or a **poller** presents a GitHub event; the dedup
table lets it in once, and each active **trigger rule** answers it with a fire or a block. A
fire, `POST /execute` or the resume of a parent asks for an execution. On the default path
the request goes on a **start to-do list**, whose drain offers it to the **admission gate**
and the process's **budget**; its task opens the execution's stream once it has a slot and
the gate is open. With the run queue on, the API **reserves** a row, opens the stream and
**promotes** the row; if it dies in between, the opening sweep of some host promotes or
abandons the row by probing the event store. A host **claims** a row, which charges a slot
of its budget row, and **drives** the run under a lease that a keeper task renews. Either
way a **drain** takes the run's to-do list through its phases. When it returns, the host
reaps the run's containers and **closes** the row, which frees the slot. A lease that is not
renewed expires; a reconciler **fences** the row, reaps the executor's containers, **marks**
it reaped, appends the interruption to the stream if the run has not ended, and closes the
row. A reconciler that has left is replaced by **takeover**. A process that starts in a
container is the proof that the container's previous process stopped.

## Modules

| Module | Models | State and actions |
|---|---|---|
| `RunQueue` | the four tables and every statement of `PostgresExecutionRunQueue` | `runs`, `stream`; `registered`, `beat`, `pools`; `enrolled`, `capacity`, `inUse`, `successor`, `recentlyFull`; `checked`, `failures`, `breaker`. One action per method. Each is one committed transaction, except that a release is `BeginRelease` and `CommitRelease`, the two sides of its wait for the budget row, and the opening sweep is `SweepRead`, `SweepProbe`, `SweepSettle`. |
| `RunQueue_proofs` | theorems about `RunQueue` | see *What is proved* |
| `MCRunQueue` | the fleets TLC checks the queue on | |
| `ExecutionHosting` | host processes, drives, lease keepers, reconciliation attempts, containers and the optimistic stream, composed with `RunQueue` | `process`, `drive`, `attempt`, `containers`, `version`, `status`. Every step that calls the queue takes the `RunQueue` action of that statement with the handle the task really holds. |
| `ExecutionHosting_proofs` | theorems about `ExecutionHosting` | see *What is proved* |
| `MCExecutionHosting` | the fleet TLC checks the hosts on | |
| `ExecutionRun` | what queue and hosts promise of a run: it waits, one executor takes it and is the only place it is ever at, it is closed by that executor with nothing left behind, or fenced and ended as interrupted | `state`, `places`, `outcome`. `ExecutionHosting` implements it (`ImplementsRun`): a row's state, the executors that drive it or hold a container of it, its stream's status. |
| `ExecutionRun_proofs` | the theorem that it does | |
| `WorkflowExecution` | one execution: aggregate and stream, the to-do list projected from it, the processor that drains the list | the aggregate's fields; `stream`; `list` with its ranks; `synced` and `delivered`, the list's two writers; `task`, `workspaces`. One action per handler of the processor; `Project` has one case per event handler of the projection. |
| `WorkflowExecution_proofs`, `WorkflowList_proofs`, `WorkflowOrder_proofs` | theorems about the aggregate, lemmas about the list alone, theorems about the drain | see *What is proved* |
| `MCWorkflowExecution` | the workflow TLC checks | |
| `StartPromise` | what starting executions promises: one comes into being once, only if asked for, none while admission is paused; a resume that was called off does not run | `paused`, `requested`, `opened`, `running`, `calledOff` |
| `StartIntake` | the default path of a start: the request streams, both start to-do lists with their process managers, the admission gate, the execution budget, the start's task, cancels, crashes. Implements `StartPromise`. | `record` is the to-do record; `events`, `applied`, `backlog` the coordinator; `woken`, `drain` the processor sides; `waiting`, `running` the budget; `at`, `dispatch` the task; `outstanding`, `put`, `mode` the gate. |
| `StartIntake_proofs`, `MCStartIntake` | its theorems, and the starts TLC checks | |
| `TriggerFiring` | from a presented event to the fire or block on the rule's stream: dedup table and the expiry of its keys, lagging index, guards under their lock, the stream's expected version, pause, resume and delete, crashes | `marked` is the dedup table, `expired` what it has deleted; `managing` a command, which asks the index (`Manage`), reads the rule (`ManageLoad`) and saves it (`ManageSave`); `index`, `counted`, `deliveries` the query store; `at`, `rule`, `todo` the handler of each presentation; `running` the guard's executions; `readers` who holds a rule's current version. |
| `TriggerFiring_proofs`, `MCTriggerFiring` | its theorems, and the events TLC checks | |

How the state corresponds to the code, where it is not obvious:

- **Time.** Timestamps become the comparison the statements make with the clock. `beat[h]`
  is `heartbeat_at` (and `registered_at`) against the staleness window, `lease` the ticks
  left before `leased_until`, `due` is `retry_at` against now, `recentlyFull` says
  `full_since` is within the Overflow Delay (one delay for all pools), `breaker` is NULL,
  future or past. The actions under *Time* let the clock pass.
- **The waiting release.** `_release` runs two statements in one transaction. The second may
  wait for the budget row while the executor's successor registers; it then re-reads that
  row, but finds the successor's row only in the snapshot it took before waiting.
  `releasing[r].seen` is that snapshot.
- **Handles.** In `RunQueue` alone, a caller may present any token ever issued, at any time:
  calls are delayed and repeated at will. In `ExecutionHosting` the callers are the real
  tasks.
- **A drive** goes through `folding` (`fold_claimed_run`), `draining` (the to-do loop),
  `failing` (`record_failed_execution`), `tearing` (`abandon_all`), `reaping` (`_released`),
  `closing`. A cancellation, by shutdown or by the lease keeper, sends it through
  `interrupting` (`preserve_interrupted_run`) and `abandoning`, and leaves the row charged.
  Its `version` and `status` are those of the aggregate it holds in memory, which after a
  failed append differ from the stream's.
- **An append** is stored and acknowledged, stored and not acknowledged, or not stored. It
  is stored only at the version its aggregate expects.
- **A withdrawn resume** (`ExecutionHosting`) may be cancelled at the stream by its opener,
  while the row is still opening (`OpenerCancels`), and by the host that claimed it, before
  it drains (`FoldCancels`). Either reads the stream again when its append is refused, so
  the cancel lands at the version it finds (`CancelWithdrawn`). Whether a run is such a
  resume is left open: any may be. In `ExecutionRun` the first is `Withdraw`, the end of a
  run that still waits; its row is claimed and closed like any other.
- **Phases** in `ExecutionHosting` are reduced to what its properties see of them: a
  container may be created before the append that records it, and removed when the phase
  completes.
- **The list of an execution** (`WorkflowExecution`) is written by the processor, which
  applies the events it has just saved, and, when it is the shared one, a second time by the
  subscription, as late as it likes. The list of a claimed run (`run_todo_fold.py`) has one
  writer: `shared` chooses. On the shared list a `PhaseRetryScheduled` that the subscription
  delivers late sets a phase's mark back, and its attempt may be run once more (`SetBack`):
  order, budget, wholeness and freshness are stated without that case, closed phases and the
  end of the drain with it. A handler and its append are one step: the processor awaits the
  append before anything else is done to the execution. What `complete_phase` does after its
  append, closing the session and tearing the workspace down, is a step of its own
  (`Finalize`), and may raise as well: the run then fails over a phase that is completed.
- **The order of the list** (`items`, a Python list): an item keeps the place it was put at,
  a new one goes behind the last, and a removal leaves a gap, so `items` is a function from
  the places in use. What the code reads of the list, its first item, its order and its
  members, is the same.
- **A record's dispatch** (`StartIntake`) is named by `dispatched_at` in the code. Two
  stamps are enough: what matters is whether a report names the record's present dispatch,
  and while a record waits to be dispatched one of the two is free (proved: `StampsSound`).
  `DISPATCH_GRACE` becomes the choice of `late`, which dispatched records a pass takes for
  lost.
- **The two drains** run in tasks of their own, off the coordinator's path
  (`coordinator_service.py:535`), one pass at a time per list; a wake during a pass is kept.
  A pass works through the records it read, and writes only over one that is still as read
  (`_save(..., only_over=record)`).
- **The guards of a trigger** read in-memory executions, fire counts and deliveries one
  after the other; `Guard` reads all three at once. Nothing is lost: the executions are read
  first, counts and deliveries only grow, and the lock excludes the one step that adds to
  the executions of this rule and pull request.
- **An expired key** (`Expire`). A deduplication key is deleted once it is older than its
  days, one by default. Days are not counted: any key may go, at any time, and the events it
  lets in again are in `unchecked`, with those let in because the table did not answer.
- **A version conflict** (`TriggerFiring`): who has read a rule's stream as it now is, is in
  `readers`; an append empties it, so every other reader's append is refused.
- **An execution that was fired** ends at the earliest after its handler's two writes
  (`Record`): before its end it starts a container, while the handler only writes two rows.
  Without that, a fire could be recorded in the guard after its end had been applied, and
  would be held for ever.

## Runs

| Run | Instance | What it shows |
|---|---|---|
| `queue` | 2 runs, machine `m1` with processes `a1` (2 slots) then `a2`, `m2` with `b1`; 2 lease ticks | slot accounting, one claimant per machine, token fencing, exclusive reconciliation, through restarts under charged runs and late or repeated releases |
| `queue_placement` | 2 runs, 2 hosts sweeping: one in a preferred pool, one without credentials | a run is queued only if recorded, and every recorded run is queued; holding a run back for preferred executors never leaves it to nobody |
| `queue_overflow` | 1 run, 3 pools: one dead, one without an Overflow Budget, one with | violation: the executor that may not overflow keeps the one that may from overflowing |
| `queue_shrinks` | 1 run, 3 hosts | violation: a slot is lost when a release waits through a registration |
| `hosting` | 1 run, `a1` then `a2` in `m1`, `b1` in `m2`, streams of length 3 before the end | one terminal event, no row closed over a running stream by a reconciler, one place of execution, nothing left behind a closed row; the hosts implement `ExecutionRun` |
| `hosting_live` | 1 run, `a1` then `a2` in `m1` | every admitted run reaches a terminal row |
| `hosting_done` | 1 run, 1 host | violation: a row is closed as done over a stream that stays running |
| `workflow` | 3 phases: a review whose agent may lose its last event, a command gate, a last review; started or resumed at any of them; own or shared list | phases run in order, within budget, and never again once closed; a completed run is whole; every drain ends and a shared list is cleared |
| `intake` | 1 direct start, 1 resume, 1 slot, 2 attempts, 3 inputs | the accounts of gate and budget are exact, records are true, `StartPromise` is implemented, every accepted start comes to something |
| `intake_withdrawn` | the same | violation: a direct start runs after its cancel answered that it will not |
| `triggers` | 1 rule, 1 attempt, 5 presentations of 3 events, 2 faults or commands | one live execution of a rule and pull request, attempts kept, an event fires once while its key is kept, only active rules fire, the guard lets go, every event is dealt with |
| `trigger_missed` | the same, no faults | violation: an event is marked as seen and recorded nowhere |

**Bounds.** Two runs are enough for two charges on one budget row, for one release waiting
while another row of the same executor is claimed, and for two runs of different workloads
in line. Three processes give a machine with a restart and a second machine to reconcile it;
the accounting of longer successions is covered by the proofs. `MaxToken` stops claims at
that token; fencing and takeover are not bounded by it, and end because hosts are finite and
never return. In the code a row is claimed once, as `defer`, the only way back into line,
has no caller; `queue` allows it all the same. `MaxVersion` bounds a stream before its
terminal events: 3 allows an edit and a phase step to collide. In `workflow` three phases
give a review something to jump over. In `intake`, requests, pauses, cancels, crashes and
failed attempts, a failed look at the request or parent (`Unread`) among them, are inputs:
three allow one start any two of the others, or both starts one; one slot makes the starts
wait for each other. In `triggers` one event comes by a webhook, its redelivery and the
poller, another is of the same pull request, and a third meets no rule and so takes no lock;
two rules differ from one only in the deliveries they share, and any number is covered by
the proofs. Both have one API process at a time. `Calm`, `Still`, `SweptFirst`, `Queueing`,
`Unswept` in `MCRunQueue` and `InOrder` in `MCExecutionHosting` keep a run to its question;
each says what it leaves out. `queue_placement` sweeps its first run only, and its second
run, there to fill an executor, comes in after that; sweeps that overlap with claims are
covered by `QueuedRunsAreRecorded`. `InOrder` is a symmetry: of two interchangeable
processes, or presentations, the first comes first. It leaves liveness alone, since no
fairness is assumed of booting or of presenting. `Awaited` in `MCTriggerFiring` lets a key
expire only while its event is still to be presented again and none of the event's handlers
is at work: a key nobody looks for may as well stay, and a handler takes less than a day.
The proofs do without it. Runs are interchangeable (symmetry) in `queue`.

**Deadlock** is checked in the queue runs. The others switch it off, as they may
legitimately stop: processes that have all gone, an ended execution, starts and events all
dealt with.

**Fairness.** `queue_placement`: a host's loop starts a new sweep whenever the last has ended
(`_tend_sweep`), the sweep goes through its list, and the event store answers a probe in the
end. `hosting_live`: a live host's loop beats, claims, acquires and starts attempts every
turn; its tasks go on (agents have timeouts, so a drain ends); leases run out if nobody
renews them. Strong fairness is assumed of what is retried for ever and may fail each time:
a reap shown complete, marking, loading, appending the interruption, closing, and the commit
of a release. Nothing forces `Crash`, `ShutDown`, `Boot`, an edit, or a reap to fail.
`FleetSettles` is the premise of `RunsEnd`: in the end some host is registered and every
registered host is up. It rests on the deployment restarting a process in its container; the
code has no other way to retire the row of a host that crashed, or whose deregistration
failed, and the run of such a host's reconciliations would wait for it. `workflow`: the
processor goes on, its handlers return in the end (agents have timeouts), and the
subscription catches up. `intake`: the coordinator, the drains, the handlers and tasks of
the event loop go on; a pause ends or times out and admission is opened again. Nothing but a
stored event wakes the lists, so `LiveSpec` also assumes that other executions start now and
then (`OtherStarted`): on a system that falls quiet, a record that was dispatched just
before a crash is younger than `DISPATCH_GRACE` when the restarted process reads it, and
waits for the next start of anything. `triggers`: the event loop goes on with its handlers.
No request, presentation, fault or command is forced.

## Findings

Shown by a run:

1. *A slot is lost* (`queue_shrinks`). `_release` frees a retired predecessor's slot by
   moving it to the successor's row in one statement. If the successor registers while that
   statement waits for the predecessor's row, the predecessor's row loses the slot and the
   successor's row does not get it.
2. *Done over a running stream* (`hosting_done`). A terminal append that is refused or
   unacknowledged is logged and forgotten; the drive still closes the row.
3. *A withdrawn start runs* (`intake_withdrawn`). A direct start looks at its request once,
   when it has its slot. A cancel that lands between that look and the stream's first write
   is answered "it will not run"; the start then runs. A resume is asked again after its
   stream exists.
4. *An event is lost* (`trigger_missed`). An event is marked in the dedup table before it is
   evaluated. Two events of one rule that hold different locks, or none, append to the
   rule's one stream at the same version; the refused append raises out of the pipeline,
   nothing is recorded, and the redelivery and the poll of the event are dropped as
   duplicates.
5. *Overflow stops at an unbudgeted pool* (`queue_overflow`). A first pool's host is dead,
   full for long or not claiming. The pool after it has no Overflow Budget, so it may not
   take what the first could; but it is idle and stamps a Claim Check with room, which holds
   back every pool after it, budgeted ones too: `claiming_with_room` does not ask whether
   the executor may overflow. The run waits for the first pool although the last has budget
   and room. The plan for capabilities counts on "An idle, dead or full higher pool must
   still never suppress overflow"; ADR-072 D13 words the rule the way the code has it.

Seen while modelling, and in the model where it has the code, without a run of their own:

- `take_over` does not recompute `reader_epoch`, which ADR-072 says it does (:338, :625).
  Nothing reads it yet (`event_epoch.py:8`).
- A member that was stale while its pool was redefined keeps its registration
  (`postgres.py:541`), beats again, and claims agent runs its backend has no credentials
  for.
- A phase's container is created without a look at the lease (`phase_workspace.py:208`), so
  an owner cut off from Postgres may create one after the reconciler's reap.
- The concurrency guard of a trigger lets go of executions that complete or fail only
  (`realtime_adapter.py:308`): one that is cancelled, interrupted or never started keeps its
  rule and pull request blocked until the API restarts.
- A deduplication key is deleted after a day by default (`_wiring.py:490`,
  `settings/polling.py:52`; ADR-060 says seven). The delivery guard does not stand in for
  it: it knows a fire by the webhook's delivery id, and the poller presents the same event
  under its dedup key. So an event that a webhook fired, and that a poll presents more than
  a day later (polling had been stopped, say), fires its rule again, where ADR-060 (:89)
  counts on "cross-source idempotency for polled events". `FiresOnce` names the case: it
  holds of an event by two sources while the key is kept, and of one delivery after that
  too, unless its fire was forgotten.
- The delivery guard does not ask which rule fired (`safety_guards.py:112`), so the first of
  two rules that fire on one delivery blocks the second, against the comment at `:34`.
- A block that may be retried is not: production gives the handler no debouncer
  (`EvaluateWebhookHandler.py:175`). ADR-060 says of the dispatch rate that events are "just
  delayed".

## What is proved

All constants are arbitrary: any number of runs, hosts, containers, pools, starts, rules and
events, any capacities, limits and lease lengths. The assumptions are the named `ASSUME`s of
the modules: finite sets, `None` outside them and no item of a to-do list, capacities, limits
and epochs natural numbers, command phases apart from reviews, and that a redelivery is of
the same event.

**`RunQueue_proofs`.** `AccountsInvariant` is the inductive invariant. The properties of
interest are not inductive on their own. `ChargeConservation` needs that a row names an
executor exactly while it is charged, and that a waiting release still matches its row
(`ReleaseMatchesRow`: the lock). `WithinCapacity` needs to know where capacity went: an
earlier process with a successor has no free slot (its capacity is exactly what is charged
to it), so a release takes one off both numbers. `OneClaimantPerMachine` then needs that at
most one process of a container has no successor (`OneNewest`, `Succession`). Counting is
done by `Cardinality` lemmas on `ChargedTo` and `FreeSlots`. From it follow
`ChargesConserved`, `NeverOverCapacity`, `NewestClaimsAlone`. The action properties
`HandoversBumpTokens`, `FencedRunsStayFenced` and `ReconcilersAreNotEvicted` go action by
action; the last needs that a row that was never fenced has no reconciler.
`QueuedRunsAreRecorded` needs that what a probe saw present stays present.
`MachinesNeverGrow` compares sums over the rows of a machine as cardinalities of sets of
slots. A process that registers is given what its predecessors in the container have free,
and they keep what is charged, so the sum stays. A release that commits late takes one slot
off its executor's row and gives at most one to a successor. The sum may fall, which is
finding 1. `FundedRunsAreServed` says how far placement can be trusted: of the live
executors with room that could take a run, take one of the most preferred. Whoever holds it
back is live and more preferred still, so it is not one of them, so it has only just filled
up. The argument needs every one of them to be allowed to overflow, which is what finding 5
lacks, and that the pool of a registered host is defined (`PoolsKnown`).

**`ExecutionHosting_proofs`.** First, what a step may make of each piece of the hosts'
state: of a drive (`DriveBecomes`), an attempt, a stream, a run's containers, a row, a
release. These lemmas go through the actions once; the invariants after them are proved from
the summaries. `HostInv` ties the handle of every task to the row: it was issued, so its
token is between 1 and the row's. From it every step of the hosts is a step of the queue or
leaves it alone, which is `HostImplementsQueue`, `HostSpec => Spec`; slot accounting
(`HostedChargesConserved`) and all the other theorems about the queue carry over.
`OneTerminalEvent` rests on `StreamInv`: no task's copy of a stream is ahead of it, and a
copy at its very version that says "running" is right, so an append that is accepted is
accepted by a running run. `InterruptedRowsAreTerminal` follows an attempt, its release and
the row (`EndedInv`). `RunsExecuteOnce` and `DoneRowsAreGone` rest on `PlaceInv`: the places
of a run are none while it waits, at most its executor while it is charged, and none from
the moment its executor asks to close it.

**`ExecutionRun_proofs`.** `HostImplementsRun`: every step of the fleet is, for each run, a
step of its life or none. Places only shrink except by a claim (from the summaries of
`ExecutionHosting_proofs`), a row moves as `RunQueue`'s lemmas say, and a stream ends only
under a claimed or fenced row, or under one that is still opening, when the opener cancels a
withdrawn resume. The case of a fenced row needs `AttemptRows`: a reconciliation attempt is
at a row that is fenced, or was until it closed it, and `InterruptedIsTerminal` shows that
in the latter case the stream had ended.

**`WorkflowExecution_proofs`.** `ClosedForGood`, by `Sound`: the aggregate remembers which
phases the stream closed and whether it ended, and the phase that is running is not one of
them. Nothing in it looks into the list: the aggregate's guards alone keep closed phases
closed, whoever else writes the list.

**`WorkflowList_proofs`.** What each handler of the projection makes of a list that serves
one item, or one item and then the start of the next phase: it serves the item that the
event asks for (the leading writer), or what it served before, if the marks of the phase
have already passed that event (the lagging one).

**`WorkflowOrder_proofs`.** A workflow of any number of phases. None of the drain's
properties is inductive: the list says what to do, the aggregate whether it may be done, and
only the stream ties them together. `OrderInv` goes by where the stream stands. Every event
leaves one thing to be done next (`Stands`), and no event follows that is not an answer to
it (`Lawful`). At the end of the stream the aggregate holds what that takes: every phase
before is completed or skipped, and the workspace and the attempts are those of the present
phase (`HoldsAt`). The list serves what the stream asked for at the last event that either
of its writers has projected (`ListStands`), and the item in hand is what the end of the
stream asks for, as the processor read it after its own projection (`RunInv`). A
subscription that comes behind changes nothing, as no mark goes back (`Covered`), except
after `SetBack`. From it follow `BeginsInOrderHolds`, `BudgetHolds`, `WholeHolds` (an empty
list, which is all the processor sees of the end, means that the last phase has completed)
and `RunTypesHold`. `NeverStaleHolds` is about both kinds of list. While the run goes on,
what is in hand is what the stream asks for, late writer or not (`RunInv`; only `SetBack` is
excepted). After the end a late writer may bring items back and the processor may take one
up, whose command the aggregate refuses (`ClosedStaysClosed`); a list with one writer is
empty once the end is projected (`OwnInv`), so there the processor is at no item at all, and
`SetBack` is no exception.

**`StartIntake_proofs`.** `Sound` counts the leases: `outstanding` is the number of tasks
between slot and stream, and none is there while the gate is closed, so no stream is opened
under a pause; `LeasesAreCounted` and the refinement `IntakeKeepsPromise` follow.
`BudgetSound` adds that no start has two places in the budget and that whoever is past the
queue has a slot (`SlotsAreClaimed`). `RecordsSound` follows each started event from the
stream to the record, through verdicts that were recorded meanwhile (`RecordsAreTrue`).
`AttemptsSound` says that a record which has spent its attempts is settled for good
(`AttemptsAreFinal`). `StampsSound` follows the names of dispatches: a dispatch is under way
in one place, offered by the drain, in the hands of its task, or held as a refusal still to
be reported, and a record that may be dispatched again leaves one of its two names free. So
the model never lacks a name the code would have. With `CoordinatorSound` (the live
boundary is within the stored events) `IntakeTypesHold` follows.

**`TriggerFiring_proofs`.** `TaskInv`: no two handlers hold one lock, and a handler visits a
rule once. `QueueInv`: a fire is applied before its end, so an execution that the guard has
let go is counted. `Effects` summarises what a step may do to the fires, the guard and the
projections; the rest is proved from it. `LiveInv`: whatever was fired and is not over is in
the guard, in the hands of its handler, or forgotten (`OneIsLive`, `GuardLetsItGo`).
`LetInOnce` (of two presentations of an event that got past the dedup table, one is in
`unchecked`: the key was in the table, or had been deleted from it, when the second came)
and `DeliveryInv` give `FiresAtMostOnce`. `AttemptInv`: where the guards pass,
no execution is live, so all that are not forgotten are counted, and are fewer than
`MaxAttempts` (`AttemptsAreLimited`). `ReadersCurrent`: who holds the current version and
read the rule as active is right about it (`FiresWhileActive`).

**Only model-checked.** The liveness properties `RecordedIsQueued`, `RunsEnd`, `DrainEnds`,
`ListIsCleared`, `AskedEnds` and `IngestEnds`: liveness under fairness is out of the
prover's reach. Every invariant and every action property of a passing run is a theorem,
and so are both refinements. `OrderInv` and `StampsSound` were
checked with TLC before they were proved.

## Not modelled

- The `draining` column and `ExecutionHost.drain`: no code in `src/` outside tests sets
  either. Telemetry columns; rows from before `reap_scope` existed.
- The in-memory queue, a single-process test twin.
- In `ExecutionHosting`: the opening sweep (so the opener's cancel comes while the row is
  opening; in the code a sweep may have promoted the row by then), stale heartbeats, idle
  claims and the breaker (all in `RunQueue`); the retry ledger of cancelled work, whose
  appends to an ended stream are among the edits; creates abandoned by a cancellation, which
  finish and are destroyed in the background.
- In `WorkflowExecution`: evidence gates, tags and evals, what a phase produces, the saving
  of work on the way out. Appends succeed there; `ExecutionHosting` has those that fail.
- In `StartIntake`: the inline path of the run queue, starts by triggers, refusals of the
  disk guard, replayed idempotency keys, forks, a second API process, a cancel whose append
  fails after the last look, a resized budget, and tasks cancelled at shutdown while they
  wait.
- In `TriggerFiring`: what a condition or an input mapping says; cold-start presentations of
  the poller; observers and pending head commits; the clocks of cooldown, daily limit and
  dispatch rate, which may block at any time; the dispatch of a fire and its records on the
  rule's stream; a second API process; a command whose append is not acknowledged; pruning
  of the locks.
- The projection coordinator is in an SDK that is not part of the sources; `StartIntake` and
  `TriggerFiring` model what they rely on: stored events applied in order, and in
  `StartIntake` once more if the process dies before the checkpoint.
- The remaining components of the inventory, by plan or because they hold no state of the
  core (user interfaces, CLI, documentation, benchmarks).

## Plan

The queue, the hosts, the run's life, the drain, the intake and the firing of triggers are
modelled, and their safety properties proved. Left, in this order:

1. Trigger dispatch: a fire becomes a start on a third to-do list, and its outcome is
   recorded on the rule's stream.
2. The control plane: pause, resume, inject and cancel signals against the end of a run.
3. Capture delivery jobs: leases, receipts and deletion.
4. The event buffer, token vending and the repository claim, as far as they carry state
   worth checking.
