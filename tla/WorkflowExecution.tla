-------------------------- MODULE WorkflowExecution --------------------------
(***************************************************************************)
(* One execution of a workflow: the aggregate and its event stream, the    *)
(* to-do list projected from the stream, and the processor that drains the *)
(* list phase by phase.                                                    *)
(*                                                                         *)
(* The list has two writers when it is shared: the processor applies the   *)
(* events it has just saved, and the subscription of the same process      *)
(* applies every event of the stream again, as late as it likes.  The list *)
(* of a run an executor claimed has the processor alone.                   *)
(*                                                                         *)
(* Left out: evidence gates (no policy asks for one), tags and evals, what *)
(* a phase produces, and the saving of work on the way out.                *)
(***************************************************************************)
EXTENDS Integers, Sequences

CONSTANTS
  Final,        \* the phases are 1..Final, in their order
  Commands,     \* the command phases; an agent runs the others
  Reviews,      \* the phases whose agent reports a verdict
  Flaky,        \* the phases whose agent's stream may lose its terminal event
  None

Phases == 1..Final

ASSUME WorkflowAssumption ==
  /\ Final \in Nat \ {0}
  /\ Commands \cup Reviews \cup Flaky \subseteq Phases
  /\ Commands \cap (Reviews \cup Flaky) = {}
  /\ None \notin Phases

VARIABLES
  stream,       \* the events of the execution
  status,       \* the aggregate's status
  running,      \* the phase that started and has not completed
  attempts,     \* how often each phase started
  completed,    \* the phases that completed, the inherited ones included
  skipped,      \* the phases a certified review skipped, here or in a parent
  verdict,      \* what each phase's latest agent run reported
  refused,      \* the command phases whose steps failed
  list,         \* the record of the to-do list
  synced,       \* how much of the stream the processor has applied to it
  delivered,    \* and how much the subscription has
  task,         \* the item the processor is at, or the completed phase it is finalizing
  workspaces,   \* the phases it holds a workspace for
  ended,        \* the drain has returned
  shared        \* the subscription writes the processor's list too

aggregate == <<status, running, attempts, completed, skipped, verdict, refused>>
moving    == <<stream, aggregate, list, synced, delivered, task, workspaces, ended>>
runVars   == <<moving, shared>>

MaxPhaseAttempts == 2
Terminal == {"completed", "failed", "cancelled", "interrupted"}

Actions == {"provision", "run", "collect", "complete"}
Item    == [action : Actions, phase : Phases]
Todo(action, p) == [action |-> action, phase |-> p]

\* What the processor is at: an item, or the teardown of a phase whose completion is recorded.
Task == [action : Actions \cup {"finalize"}, phase : Phases]

ASSUME NoTaskAssumption == None \notin Task

\* An event, and the phase it is about: the next one, for NextPhaseReady.
Kinds   == {"started", "provisioned", "agentCompleted", "collected", "nextReady",
            "completed", "retry", "ended"}
Event   == [kind : Kinds, phase : Phases]
Said(kind, p) == [kind |-> kind, phase |-> p]

-----------------------------------------------------------------------------
(* The to-do list *)

Done == 99
Rank == [provision |-> 1, run |-> 2, collect |-> 3, complete |-> 4]

\* An absent record reads as this one.  Items keep their places in the list, from
\* 1, when others are removed: what the order is for is which one is served first.
NoList == [items |-> <<>>, progress |-> [p \in Phases |-> 0]]

Raised(l, p, rank) == [l.progress EXCEPT ![p] = IF @ >= rank THEN @ ELSE rank]

LastPlace(items) == CHOOSE n \in {0} \cup DOMAIN items : \A m \in DOMAIN items : m <= n

Behind(items, item) ==
  [n \in DOMAIN items \cup {LastPlace(items) + 1} |->
     IF n \in DOMAIN items THEN items[n] ELSE item]

Without(items, gone) == [n \in {m \in DOMAIN items : items[m] \notin gone} |-> items[n]]

\* The list is replaced, unless the phase's mark is already there or past it.
AdvanceTodo(l, item) ==
  IF l.progress[item.phase] >= Rank[item.action] THEN l
  ELSE [items |-> <<item>>, progress |-> Raised(l, item.phase, Rank[item.action])]

\* A start: the inherited phases are done, the list begins at the resume phase.
StartTodo(l, at, inherited) ==
  IF l.progress[at] >= Rank["provision"] THEN l
  ELSE [items |-> <<Todo("provision", at)>>,
        progress |-> [p \in Phases |-> IF p \in inherited THEN Done
                                       ELSE IF p = at THEN 1 ELSE l.progress[p]]]

\* The one handler that sets a phase's mark back.
RetryTodo(l, p) ==
  [items |-> Behind(Without(l.items, [action : Actions, phase : {p}]), Todo("provision", p)),
   progress |-> [l.progress EXCEPT ![p] = Rank["provision"]]]

CompleteTodo(l, p) ==
  [items |-> Without(l.items, {Todo("complete", p)}), progress |-> Raised(l, p, Done)]

\* Mutation: the next phase replaces the list.
NextReplaces(l, p) ==
  [items |-> <<Todo("provision", p)>>, progress |-> Raised(l, p, Rank["provision"])]

NextTodo(l, p) ==
  [items |-> Behind(l.items, Todo("provision", p)), progress |-> Raised(l, p, Rank["provision"])]

\* Mutation: a terminal event empties the list and leaves its marks.
ClearsItems(l) == [l EXCEPT !.items = <<>>]

ClearTodo(l) == NoList

\* What the projection makes of one event: a handler for each kind.
Project(l, e, inherited) ==
  [started        |-> StartTodo(l, e.phase, inherited),
   provisioned    |-> AdvanceTodo(l, Todo("run", e.phase)),
   agentCompleted |-> AdvanceTodo(l, Todo("collect", e.phase)),
   collected      |-> AdvanceTodo(l, Todo("complete", e.phase)),
   nextReady      |-> NextTodo(l, e.phase),
   completed      |-> CompleteTodo(l, e.phase),
   retry          |-> RetryTodo(l, e.phase),
   ended          |-> ClearTodo(l)][e.kind]

\* Mutation: what a late writer brings back is served.
ServesAll(l) == DOMAIN l.items

\* The places of the pending items: those below their phase's mark are not served.
Pending(l) == {n \in DOMAIN l.items : l.progress[l.items[n].phase] <= Rank[l.items[n].action]}

-----------------------------------------------------------------------------
(* The aggregate *)

RunTypeOK ==
  /\ stream \in Seq(Event)
  /\ status \in {"running"} \cup Terminal
  /\ running \in Phases \cup {None}
  /\ attempts \in [Phases -> Nat]
  /\ completed \subseteq Phases /\ skipped \subseteq Phases /\ refused \subseteq Commands
  /\ verdict \in [Phases -> {"none", "blocked", "certified"}]
  /\ DOMAIN list.items \subseteq Nat \ {0}
  /\ list \in [items : [DOMAIN list.items -> Item], progress : [Phases -> 0..4 \cup {Done}]]
  /\ synced \in 0..Len(stream) /\ delivered \in 0..Len(stream)
  /\ task \in Task \cup {None}
  /\ workspaces \subseteq Phases
  /\ ended \in BOOLEAN /\ shared \in BOOLEAN

\* What a certified review of phase r skips.
Jumped(r) == (r + 1)..(Final - 1)

\* A start, or the start of a resume at phase `at` whose parent completed, or
\* skipped, every phase before it.
RunInit ==
  \E at \in Phases : \E over \in {{}} \cup {Jumped(r) : r \in IF at = Final THEN Reviews ELSE {}} :
    /\ stream = <<Said("started", at)>>
    /\ completed = (1..(at - 1)) \ over
    /\ skipped = over
    /\ status = "running" /\ running = None
    /\ attempts = [p \in Phases |-> 0]
    /\ verdict = [p \in Phases |-> "none"]
    /\ refused = {}
    /\ list = NoList /\ synced = 0 /\ delivered = 0
    /\ task = None /\ workspaces = {} /\ ended = FALSE /\ shared \in BOOLEAN

\* The phases the run was started with as completed.
Inherited == {p \in Phases : p < stream[1].phase} \ skipped

Record(events) == stream' = stream \o events

\* Mutation: a certified review goes on past the last phase.
AfterPast(p) == IF verdict[p] = "certified" THEN {Final + 1} ELSE {p + 1}

\* A verdict decides what runs after p, if anything.
After(p) == IF verdict[p] = "certified" THEN {Final} ELSE {p + 1}

-----------------------------------------------------------------------------
(* The writers of the list *)

\* The processor projects what it saved, in order, before it does anything else.
Sync ==
  /\ synced < Len(stream)
  /\ list' = Project(list, stream[synced + 1], Inherited)
  /\ synced' = synced + 1
  /\ UNCHANGED <<stream, aggregate, delivered, task, workspaces, ended>>

\* The subscription projects the same events again, each at some later time.
Deliver ==
  /\ shared
  /\ delivered < Len(stream)
  /\ list' = Project(list, stream[delivered + 1], Inherited)
  /\ delivered' = delivered + 1
  /\ UNCHANGED <<stream, aggregate, synced, task, workspaces, ended>>

-----------------------------------------------------------------------------
(* The processor *)

Draining == ~ended /\ synced = Len(stream)

\* The first pending item; it stays on the list until an event removes it.
Read ==
  /\ Draining /\ task = None
  /\ \E n \in Pending(list) :
       /\ \A m \in Pending(list) : n <= m
       /\ task' = list.items[n]
  /\ UNCHANGED <<stream, aggregate, list, synced, delivered, workspaces, ended>>

At(action, p) == Draining /\ task = Todo(action, p)

\* Mutation: a completed phase may start again.
ProvisionReopens(p) ==
  /\ At("provision", p) /\ status = "running"
  /\ Record(<<Said("provisioned", p)>>)
  /\ running' = p
  /\ attempts' = [attempts EXCEPT ![p] = @ + 1]
  /\ workspaces' = workspaces \cup {p}
  /\ task' = None
  /\ UNCHANGED <<status, completed, skipped, verdict, refused, list, synced, delivered, ended>>

\* start_phase: the phase and its workspace are recorded with one append.
Provision(p) ==
  /\ At("provision", p) /\ status = "running" /\ p \notin completed
  /\ Record(<<Said("provisioned", p)>>)
  /\ running' = p
  /\ attempts' = [attempts EXCEPT ![p] = @ + 1]
  /\ workspaces' = workspaces \cup {p}
  /\ task' = None
  /\ UNCHANGED <<status, completed, skipped, verdict, refused, list, synced, delivered, ended>>

\* The agent, or the command steps, finish: with a verdict, or with a failed step.
Finish(p) ==
  /\ At("run", p) /\ p \in workspaces /\ status = "running"
  /\ Record(<<Said("agentCompleted", p)>>)
  /\ \E v \in {"none"} \cup (IF p \in Reviews THEN {"blocked", "certified"} ELSE {}) :
       verdict' = [verdict EXCEPT ![p] = v]
  /\ \E r \in {refused \ {p}} \cup (IF p \in Commands THEN {refused \cup {p}} ELSE {}) :
       refused' = r
  /\ task' = None
  /\ UNCHANGED <<status, running, attempts, completed, skipped, list, synced, delivered,
                 workspaces, ended>>

\* Mutation: one attempt more than the budget.
RetriesOften(p) ==
  /\ At("run", p) /\ p \in workspaces /\ p \in Flaky
  /\ status = "running" /\ running = p
  /\ attempts[p] <= MaxPhaseAttempts
  /\ Record(<<Said("retry", p)>>)
  /\ running' = None
  /\ workspaces' = workspaces \ {p}
  /\ task' = None
  /\ UNCHANGED <<status, attempts, completed, skipped, verdict, refused, list, synced,
                 delivered, ended>>

\* The agent's stream lost its terminal event: the attempt is given up, the phase not.
Retry(p) ==
  /\ At("run", p) /\ p \in workspaces /\ p \in Flaky
  /\ status = "running" /\ running = p
  /\ attempts[p] < MaxPhaseAttempts
  /\ Record(<<Said("retry", p)>>)
  /\ running' = None
  /\ workspaces' = workspaces \ {p}
  /\ task' = None
  /\ UNCHANGED <<status, attempts, completed, skipped, verdict, refused, list, synced,
                 delivered, ended>>

\* An operator's cancel is noticed while the phase runs.
Cancel(p) ==
  /\ At("run", p) /\ p \in workspaces /\ status = "running"
  /\ Record(<<Said("ended", p)>>)
  /\ status' = "cancelled"
  /\ task' = None
  /\ UNCHANGED <<running, attempts, completed, skipped, verdict, refused, list, synced,
                 delivered, workspaces, ended>>

\* Mutation: what was skipped is not told.
CollectsSilently(p) ==
  /\ At("collect", p) /\ p \in workspaces /\ status = "running" /\ p \notin completed
  /\ \/ /\ p \in refused
        /\ Record(<<Said("collected", p), Said("ended", p)>>)
        /\ status' = "failed" /\ UNCHANGED skipped
     \/ /\ p \notin refused /\ p # Final
        /\ \E q \in After(p) : Record(<<Said("collected", p), Said("nextReady", q)>>)
        /\ UNCHANGED <<status, skipped>>
     \/ /\ p \notin refused /\ p = Final
        /\ Record(<<Said("collected", p)>>) /\ UNCHANGED <<status, skipped>>
  /\ task' = None
  /\ UNCHANGED <<running, attempts, completed, verdict, refused, list, synced, delivered,
                 workspaces, ended>>

\* The collection and what the aggregate decides on it are one append: a failed
\* command gate ends the run, a certified review goes on at the last phase.
Collect(p) ==
  /\ At("collect", p) /\ p \in workspaces /\ status = "running" /\ p \notin completed
  /\ \/ /\ p \in refused
        /\ Record(<<Said("collected", p), Said("ended", p)>>)
        /\ status' = "failed" /\ UNCHANGED skipped
     \/ /\ p \notin refused /\ p # Final
        /\ \E q \in After(p) :
             /\ Record(<<Said("collected", p), Said("nextReady", q)>>)
             /\ skipped' = skipped \cup ((p + 1)..(q - 1))
        /\ UNCHANGED status
     \/ /\ p \notin refused /\ p = Final
        /\ Record(<<Said("collected", p)>>) /\ UNCHANGED <<status, skipped>>
  /\ task' = None
  /\ UNCHANGED <<running, attempts, completed, verdict, refused, list, synced, delivered,
                 workspaces, ended>>

\* A collection of a phase that holds no workspace is passed over.
PassOver(p) ==
  /\ At("collect", p) /\ p \notin workspaces
  /\ task' = None
  /\ UNCHANGED <<stream, aggregate, list, synced, delivered, workspaces, ended>>

\* The completion is durable before the phase gives anything up.
Complete(p) ==
  /\ At("complete", p) /\ status = "running" /\ p \notin completed
  /\ Record(<<Said("completed", p)>>)
  /\ completed' = completed \cup {p}
  /\ running' = None
  /\ task' = Todo("finalize", p)
  /\ UNCHANGED <<status, attempts, skipped, verdict, refused, list, synced, delivered, workspaces,
                 ended>>

\* The runtime closes the phase's session and tears its workspace down.
Finalize(p) ==
  /\ At("finalize", p)
  /\ workspaces' = workspaces \ {p}
  /\ task' = None
  /\ UNCHANGED <<stream, aggregate, list, synced, delivered, ended>>

Return == ended' = TRUE /\ workspaces' = {} /\ task' = None

\* Any item's handler may raise, a refused command and a failed teardown included:
\* the run is failed and torn down.  A phase that failed to start is recorded as
\* started.
Fail(p) ==
  /\ Draining /\ task # None /\ task.phase = p
  /\ Return
  /\ IF task.action = "provision" /\ status = "running" /\ p \notin completed
     THEN running' = p /\ attempts' = [attempts EXCEPT ![p] = @ + 1]
     ELSE UNCHANGED <<running, attempts>>
  /\ IF status = "running" THEN Record(<<Said("ended", p)>>) /\ status' = "failed"
                           ELSE UNCHANGED <<stream, status>>
  /\ UNCHANGED <<completed, skipped, verdict, refused, list, synced, delivered>>

\* Mutation: an empty list is the completion of the run, and nothing else.
ConcludesRunning ==
  /\ Draining /\ task = None
  /\ Pending(list) = {} /\ status = "running"
  /\ Return
  /\ Record(<<Said("ended", Final)>>) /\ status' = "completed"
  /\ UNCHANGED <<running, attempts, completed, skipped, verdict, refused, list, synced, delivered>>

\* The list is empty: the run has ended, or this completes it.
Conclude ==
  /\ Draining /\ task = None
  /\ Pending(list) = {}
  /\ Return
  /\ IF status = "running" THEN Record(<<Said("ended", Final)>>) /\ status' = "completed"
                           ELSE UNCHANGED <<stream, status>>
  /\ UNCHANGED <<running, attempts, completed, skipped, verdict, refused, list, synced, delivered>>

\* The platform shuts down, whatever the drain is at.
ShutDown ==
  /\ ~ended
  /\ Return
  /\ \/ status = "running" /\ Record(<<Said("ended", Final)>>) /\ status' = "interrupted"
     \/ UNCHANGED <<stream, status>>
  /\ UNCHANGED <<running, attempts, completed, skipped, verdict, refused, list, synced, delivered>>

-----------------------------------------------------------------------------
Handle(p) ==
  \/ Provision(p) \/ Finish(p) \/ Retry(p) \/ Cancel(p) \/ Collect(p) \/ PassOver(p)
  \/ Complete(p) \/ Finalize(p) \/ Fail(p)

Step ==
  \/ Sync \/ Deliver \/ Read \/ Conclude \/ ShutDown
  \/ \E p \in Phases : Handle(p)

RunNext == Step /\ UNCHANGED shared

RunSpec == RunInit /\ [][RunNext]_runVars

\* The processor goes on, its handlers return, and the subscription catches up.
RunFairness ==
  /\ WF_moving(Sync) /\ WF_moving(Deliver) /\ WF_moving(Read) /\ WF_moving(Conclude)
  /\ WF_moving(\E p \in Phases : Handle(p))

LiveRunSpec == RunSpec /\ RunFairness

-----------------------------------------------------------------------------
(* Properties *)

Reopening == {"provisioned", "retry", "completed"}

Closed(s) ==
  \A i, j \in DOMAIN s :
    i < j => /\ s[i].kind # "ended"
             /\ s[i].kind = "completed" => ~(s[j].phase = s[i].phase /\ s[j].kind \in Reopening)

\* Whatever is on the list, late items included: a completed phase is never
\* started, retried or completed again, and nothing is recorded after the end.
\* The guards are the aggregate's, the items come from a list it does not see.
ClosedStaysClosed == Closed(stream)

\* What the stream last said of a phase is what is to be done about it next.
Follows == [started |-> "provision", nextReady |-> "provision", retry |-> "provision",
            provisioned |-> "run", agentCompleted |-> "collect", collected |-> "complete",
            completed |-> "finalize"]

\* e is the last event about p.
LastSaid(p, e) ==
  \E i \in DOMAIN stream :
    /\ stream[i] = e /\ e.phase = p
    /\ \A j \in DOMAIN stream : i < j => stream[j].phase # p

Fresh ==
  task # None =>
    /\ status = "running"
    /\ \E kind \in DOMAIN Follows :
         LastSaid(task.phase, Said(kind, task.phase)) /\ task.action = Follows[kind]

\* A late subscription sets a retried phase back; the next four leave that out.
SetBack == shared /\ \E i \in DOMAIN stream : stream[i].kind = "retry"

\* The processor is never at an item the stream has moved on from: with a late
\* writer on the list as long as the run goes on, on a run's own list after its end
\* too, when it is at none.
NeverStale ==
  /\ ~shared => Fresh
  /\ status = "running" /\ ~SetBack => Fresh

\* A phase is begun with no other phase's container alive, and with every phase
\* before it completed or skipped: its agent reads what they produced.
BeginsInOrder ==
  task # None /\ task.action = "provision" /\ status = "running" /\ ~SetBack =>
    /\ workspaces = {}
    /\ \A q \in 1..(task.phase - 1) : q \in completed \cup skipped

\* A phase runs at most twice, whoever asked: start_phase itself does not count.
WithinBudget == ~SetBack => \A p \in Phases : attempts[p] <= MaxPhaseAttempts

\* A run is reported complete with every phase completed or skipped, the last
\* one run, and no certified review's phases run after all.
Whole ==
  ~SetBack =>
    /\ status = "completed" => Final \in completed /\ Phases = completed \cup skipped
    /\ completed \cap skipped = {}

\* Every drain ends, whatever its handlers do and its list is made of.
DrainEnds == <>ended

\* Once the subscription has caught up with an ended run, nothing of it is left.
ListIsCleared == <>[](status # "running" => list = NoList)
=============================================================================
