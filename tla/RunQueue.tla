------------------------------ MODULE RunQueue ------------------------------
(***************************************************************************)
(* The Run Queue: the Postgres tables execution_runs, execution_budget,    *)
(* executor_hosts and executor_pools, and the statements of                *)
(* PostgresExecutionRunQueue over them.                                    *)
(*                                                                         *)
(* Every action is one committed transaction, with one exception: a        *)
(* release is two statements, and the snapshot its second statement works  *)
(* from is taken before it waits for the budget row.  BeginRelease and     *)
(* CommitRelease are the two sides of that wait.                           *)
(*                                                                         *)
(* Timestamps are abstracted to the comparison the statements make with    *)
(* the clock (a heartbeat is fresh or stale, a retry due or not, a lease    *)
(* has some ticks left or has expired); "Time" lets the clock pass.        *)
(***************************************************************************)
EXTENDS Integers, FiniteSets

CONSTANTS
  Runs,         \* execution ids
  Hosts,        \* host ids; a host id is one process and is never reused
  Pools,        \* pool ids
  None,         \* SQL NULL
  Container,    \* Hosts -> the container (machine) the process runs in
  Capacity,     \* Hosts -> the capacity the process asks for at register
  Scope,        \* Hosts -> its reap scope
  Recovery,     \* Hosts -> the scopes it holds a Recovery Kit for
  Epoch,        \* Hosts -> the event epoch it reads
  Declares,     \* Hosts -> the pool definition it declares
  WriterEpochs, \* epochs the API may stamp on a run
  Workloads,    \* workloads a run may be reserved with
  Threshold,    \* consecutive failed creates that trip the Outage Breaker
  LeaseTicks,   \* the lease TTL, in ticks of the clock
  MaxToken      \* bound: no claim once a run's lease token has reached it

Workload == {"agent", "scripted"}

Definition == [pool : Pools, priority : Nat, credentials : BOOLEAN, budgeted : BOOLEAN]

ASSUME RunsAssumption == IsFiniteSet(Runs) /\ None \notin Runs
ASSUME HostsAssumption == IsFiniteSet(Hosts) /\ None \notin Hosts
ASSUME CapacityAssumption == Capacity \in [Hosts -> Nat]
ASSUME EpochAssumption == Epoch \in [Hosts -> Nat] /\ WriterEpochs \subseteq Nat
ASSUME DeclaresAssumption == Declares \in [Hosts -> Definition]
ASSUME WorkloadsAssumption == Workloads \subseteq Workload
ASSUME BoundsAssumption == /\ Threshold \in Nat \ {0} /\ LeaseTicks \in Nat \ {0}
                           /\ MaxToken \in Nat

VARIABLES
  runs,         \* execution_runs: one row per execution id
  stream,       \* executions whose start is recorded in the event store
  registered,   \* executor_hosts: the hosts that have a row
  enrolled,     \* execution_budget: the hosts that have a row
  capacity,     \* execution_budget.capacity
  inUse,        \* execution_budget.in_use
  successor,    \* execution_budget.successor_id
  beat,         \* heartbeat_at and registered_at against the staleness window
  checked,      \* hosts whose claim_checked_at is within that window
  recentlyFull, \* hosts whose full_since is within the Overflow Delay
  failures,     \* create_failures, counted up to Threshold
  breaker,      \* claims_disabled_until: NULL, in the future, or past
  pools,        \* executor_pools: the definition held, or None
  releasing,    \* a release transaction waiting for a budget row, per run
  sweep         \* the row an opening sweep of a host is looking at

rowVars    == <<runs, stream>>
hostVars   == <<registered, beat, pools>>
budgetVars == <<enrolled, capacity, inUse, successor, recentlyFull>>
claimVars  == <<checked, failures, breaker>>
txnVars    == <<releasing, sweep>>
vars       == <<rowVars, hostVars, budgetVars, claimVars, txnVars>>

States   == {"none", "opening", "admitted", "claimed", "fencing", "reaped",
             "abandoned", "done", "interrupted"}
Charged  == {"claimed", "fencing", "reaped"}
Fenced   == {"fencing", "reaped"}
Terminal == {"done", "interrupted"}

Row == [state : States, workload : Workload, writer : Nat, reader : Nat \cup {None},
        executor : Hosts \cup {None}, reconciler : Hosts \cup {None}, token : Nat,
        lease : 0..LeaseTicks, due : BOOLEAN, admitted : Nat]

NoRow == [state |-> "none", workload |-> "agent", writer |-> 0, reader |-> None,
          executor |-> None, reconciler |-> None, token |-> 0,
          lease |-> 0, due |-> TRUE, admitted |-> 0]

Release == [from : Charged, to : {"admitted"} \cup Terminal, due : BOOLEAN, seen : SUBSET Hosts]

\* What an opening sweep knows of one row: the state it read, then what its
\* probe of the event store answered ("unread" until it has).
Look == [run : Runs, state : {"opening", "abandoned"},
         presence : {"unread", "present", "absent", "unknown"}]

TypeOK ==
  /\ runs \in [Runs -> Row]
  /\ stream \subseteq Runs
  /\ registered \subseteq enrolled
  /\ enrolled \subseteq Hosts
  /\ capacity \in [Hosts -> Int]
  /\ inUse \in [Hosts -> Int]
  /\ successor \in [Hosts -> Hosts \cup {None}]
  /\ beat \in [Hosts -> {"registered", "fresh", "stale"}]
  /\ checked \subseteq Hosts
  /\ recentlyFull \subseteq Hosts
  /\ failures \in [Hosts -> 0..Threshold]
  /\ breaker \in [Hosts -> {"closed", "disabled", "due"}]
  /\ pools \in [Pools -> Definition \cup {None}]
  /\ releasing \in [Runs -> Release \cup {None}]
  /\ sweep \in [Hosts -> Look \cup {None}]

Init ==
  /\ runs = [r \in Runs |-> NoRow]
  /\ stream = {}
  /\ registered = {}
  /\ enrolled = {}
  /\ capacity = [h \in Hosts |-> 0]
  /\ inUse = [h \in Hosts |-> 0]
  /\ successor = [h \in Hosts |-> None]
  /\ beat = [h \in Hosts |-> "stale"]
  /\ checked = {}
  /\ recentlyFull = {}
  /\ failures = [h \in Hosts |-> 0]
  /\ breaker = [h \in Hosts |-> "closed"]
  /\ pools = [p \in Pools |-> None]
  /\ releasing = [r \in Runs |-> None]
  /\ sweep = [h \in Hosts |-> None]

-----------------------------------------------------------------------------
(* Rows and budgets *)

ChargedTo(h) == {r \in Runs : runs[r].executor = h}

\* A row is locked while a release of it waits; other statements wait or skip it.
Unlocked(r) == releasing[r] = None

Full(h) == inUse[h] >= capacity[h]

\* The execution_budget_full_since trigger: full_since is NULL while there is
\* room, and otherwise the time the row was first seen full.
StampFullSince ==
  recentlyFull' = {h \in enrolled' : /\ inUse'[h] >= capacity'[h]
                                     /\ (h \in enrolled /\ Full(h)) => h \in recentlyFull}

InReach(claimer, h) == Scope[claimer] \in {Scope[h]} \cup Recovery[h]

-----------------------------------------------------------------------------
(* Hosts *)

\* The budget rows of earlier processes in h's container.
Held(h) == {x \in enrolled \ {h} : Container[x] = Container[h]}

\* The free slots of the rows in S; their number is SUM(capacity - in_use).
FreeSlots(S) == UNION {{x} \X ((inUse[x] + 1)..capacity[x]) : x \in S}

\* A member is live to the conflict rule if it beat, or registered, lately.
OtherLiveMembers(h) == {x \in registered \ {h} : /\ Declares[x].pool = Declares[h].pool
                                                 /\ Container[x] # Container[h]
                                                 /\ beat[x] # "stale"}

\* Define the declared pool if it is new, redefine it if no other member is live.
JoinPool(h) ==
  LET p == Declares[h].pool IN
  /\ pools[p] \in {None, Declares[h]} \/ OtherLiveMembers(h) = {}
  /\ pools' = [pools EXCEPT ![p] = Declares[h]]

\* Mutation: the new process gets the capacity it asks for, whatever is still charged.
RegisterFullBudget(h) ==
  /\ enrolled' = enrolled \cup {h}
  /\ capacity' = [x \in Hosts |->
       IF x \in Held(h) THEN inUse[x] ELSE IF x = h THEN Capacity[h] ELSE capacity[x]]
  /\ successor' = [x \in Hosts |-> IF x \in Held(h) THEN h ELSE successor[x]]
  /\ UNCHANGED inUse
  /\ StampFullSince

\* A process in a container is the proof that the container's earlier process
\* stopped: its executor_hosts row goes, its free slots move to the new row and
\* the new row becomes the successor of every earlier one.
RegisterBudget(h) ==
  /\ enrolled' = enrolled \cup {h}
  /\ capacity' = [x \in Hosts |->
       IF x \in Held(h) THEN inUse[x]
       ELSE IF x # h THEN capacity[x]
       ELSE IF Held(h) = {} THEN Capacity[h] ELSE Cardinality(FreeSlots(Held(h)))]
  /\ successor' = [x \in Hosts |-> IF x \in Held(h) THEN h ELSE successor[x]]
  /\ UNCHANGED inUse
  /\ StampFullSince

Register(h) ==
  /\ h \notin enrolled
  /\ JoinPool(h)
  /\ RegisterBudget(h)
  /\ registered' = {x \in registered : Container[x] # Container[h]} \cup {h}
  /\ beat' = [beat EXCEPT ![h] = "registered"]
  /\ UNCHANGED <<rowVars, claimVars, txnVars>>

Deregister(h) ==
  /\ h \in registered
  /\ registered' = registered \ {h}
  /\ UNCHANGED <<rowVars, beat, pools, budgetVars, claimVars, txnVars>>

\* An unregistered host's heartbeat raises LookupError and writes nothing.
Heartbeat(h) ==
  /\ h \in registered
  /\ beat' = [beat EXCEPT ![h] = "fresh"]
  /\ UNCHANGED <<rowVars, registered, pools, budgetVars, claimVars, txnVars>>

-----------------------------------------------------------------------------
(* Starting a run *)

Reserve(r, epoch, workload) ==
  /\ runs[r].state = "none"
  /\ runs' = [runs EXCEPT ![r].state = "opening", ![r].writer = epoch,
                          ![r].workload = workload]
  /\ UNCHANGED <<stream, hostVars, budgetVars, claimVars, txnVars>>

\* The caller of reserve opens the execution's stream, once, in the event store.
OpenStream(r) ==
  /\ runs[r].state # "none"
  /\ r \notin stream
  /\ stream' = stream \cup {r}
  /\ UNCHANGED <<runs, hostVars, budgetVars, claimVars, txnVars>>

\* admitted_at is the row's place in the line: rows are promoted at most once.
Line == Cardinality({r \in Runs : runs[r].admitted > 0})

Promote(r) ==
  /\ runs[r].state \in {"opening", "abandoned"}
  /\ runs' = [runs EXCEPT ![r].state = "admitted", ![r].admitted = Line + 1]

\* The caller marks the row once it knows the start is recorded.
MarkAdmitted(r) ==
  /\ r \in stream
  /\ Promote(r)
  /\ UNCHANGED <<stream, hostVars, budgetVars, claimVars, txnVars>>

\* The sweep lists its rows, and only later probes and settles each of them: an
\* opening row older than its threshold (any, time being unconstrained), and
\* every abandoned one.
SweepRead(h, r) ==
  /\ h \in registered
  /\ sweep[h] = None
  /\ runs[r].state \in {"opening", "abandoned"}
  /\ sweep' = [sweep EXCEPT ![h] = [run |-> r, state |-> runs[r].state, presence |-> "unread"]]
  /\ UNCHANGED <<rowVars, hostVars, budgetVars, claimVars, releasing>>

SweepProbe(h) ==
  /\ sweep[h] # None
  /\ sweep[h].presence = "unread"
  /\ \E answer \in {"unknown", IF sweep[h].run \in stream THEN "present" ELSE "absent"} :
       sweep' = [sweep EXCEPT ![h].presence = answer]
  /\ UNCHANGED <<rowVars, hostVars, budgetVars, claimVars, releasing>>

\* Mutations: a store that does not answer counts as one that has the stream; a
\* row once abandoned is never promoted.
PromotesUnknown(h) ==
  /\ sweep[h].presence # "absent"
  /\ runs[sweep[h].run].state \in {"opening", "abandoned"}

PromotesOpeningOnly(h) ==
  /\ sweep[h].presence = "present"
  /\ runs[sweep[h].run].state = "opening"

\* The state read with the list decides what an absent stream means; the row's
\* present state is compared again by the statement that settles it.
SweepPromotes(h) ==
  /\ sweep[h].presence = "present"
  /\ runs[sweep[h].run].state \in {"opening", "abandoned"}

SweepAbandons(h) ==
  /\ sweep[h].presence = "absent"
  /\ sweep[h].state = "opening"
  /\ runs[sweep[h].run].state = "opening"

SweepSettle(h) ==
  /\ sweep[h] # None
  /\ sweep[h].presence # "unread"
  /\ \/ SweepPromotes(h) /\ Promote(sweep[h].run)
     \/ SweepAbandons(h) /\ runs' = [runs EXCEPT ![sweep[h].run].state = "abandoned"]
     \/ ~SweepPromotes(h) /\ ~SweepAbandons(h) /\ UNCHANGED runs
  /\ sweep' = [sweep EXCEPT ![h] = None]
  /\ UNCHANGED <<stream, hostVars, budgetVars, claimVars, releasing>>

-----------------------------------------------------------------------------
(* The claim and placement *)

PoolOf(h) == pools[Declares[h].pool]

CanRun(h, r) == PoolOf(h).credentials \/ runs[r].workload = "scripted"

CanTake(h, r) == Epoch[h] >= runs[r].writer /\ CanRun(h, r)

ClaimsEnabled(h) == breaker[h] # "disabled"

\* Claiming at all: live by its own heartbeat and not disabled by the breaker.
Claiming(h) == h \in registered /\ beat[h] = "fresh" /\ ClaimsEnabled(h)

Preferred(h) == {x \in registered : PoolOf(x).priority < PoolOf(h).priority}

\* Mutation: a preferred executor holds back by its Claim Check alone, dead or not.
HoldsBackDead(x) == (~Full(x) /\ x \in checked) \/ x \in recentlyFull

\* A preferred executor holds a run back while it claims with room, or has
\* been full for less than the Overflow Delay.
HoldsBack(x) == /\ Claiming(x)
                /\ (~Full(x) /\ x \in checked) \/ x \in recentlyFull

\* Without an Overflow Budget a pool takes only what no registered preferred
\* executor, live or not, could take.
MayOverflow(h, r) == PoolOf(h).budgeted \/ \A x \in Preferred(h) : ~CanTake(x, r)

MayTake(h, r) ==
  /\ runs[r].state = "admitted" /\ runs[r].due
  /\ CanTake(h, r)
  /\ \A x \in Preferred(h) : CanTake(x, r) => ~HoldsBack(x)
  /\ MayOverflow(h, r)

Oldest(h, r) == \A q \in Runs : MayTake(h, q) => runs[r].admitted <= runs[q].admitted

Claim(h, r) ==
  /\ Claiming(h)
  /\ ~Full(h)
  /\ MayTake(h, r) /\ Oldest(h, r)
  /\ runs[r].token < MaxToken
  /\ runs' = [runs EXCEPT ![r].state = "claimed", ![r].executor = h,
                          ![r].token = @ + 1, ![r].reader = Epoch[h], ![r].lease = LeaseTicks]
  /\ inUse' = [inUse EXCEPT ![h] = @ + 1]
  /\ checked' = checked \cup {h}
  /\ breaker' = [breaker EXCEPT ![h] = IF @ = "closed" THEN @ ELSE "disabled"]
  /\ UNCHANGED <<stream, hostVars, enrolled, capacity, successor, failures, txnVars>>
  /\ StampFullSince

\* A claim that takes nothing still stamps the Claim Check.
ClaimNothing(h) ==
  /\ Claiming(h)
  /\ Full(h) \/ \A r \in Runs : ~MayTake(h, r)
  /\ checked' = checked \cup {h}
  /\ UNCHANGED <<rowVars, hostVars, budgetVars, failures, breaker, txnVars>>

RecordCreateFailure(h) ==
  /\ h \in enrolled
  /\ failures' = [failures EXCEPT ![h] = IF @ < Threshold THEN @ + 1 ELSE @]
  /\ breaker' = [breaker EXCEPT ![h] = IF failures[h] + 1 >= Threshold THEN "disabled" ELSE @]
  /\ UNCHANGED <<rowVars, hostVars, budgetVars, checked, txnVars>>

RecordCreateSuccess(h) ==
  /\ h \in enrolled
  /\ failures' = [failures EXCEPT ![h] = 0]
  /\ breaker' = [breaker EXCEPT ![h] = "closed"]
  /\ UNCHANGED <<rowVars, hostVars, budgetVars, checked, txnVars>>

Renew(r, token) ==
  /\ Unlocked(r)
  /\ runs[r].state = "claimed" /\ runs[r].token = token /\ runs[r].lease > 0
  /\ runs' = [runs EXCEPT ![r].lease = LeaseTicks]
  /\ UNCHANGED <<stream, hostVars, budgetVars, claimVars, txnVars>>

-----------------------------------------------------------------------------
(* Release: the row leaves its charged state and its executor's slot is freed *)

\* The row matches and is locked; the budget statement has its snapshot, and
\* may now have to wait for the budget row.
BeginRelease(r, token, from, to, due) ==
  /\ Unlocked(r)
  /\ runs[r].state = from /\ runs[r].token = token
  /\ releasing' = [releasing EXCEPT ![r] =
       [from |-> from, to |-> to, due |-> due, seen |-> enrolled]]
  /\ UNCHANGED <<rowVars, hostVars, budgetVars, claimVars, sweep>>

\* Mutations: a deferred row goes back to the start; a fenced one is closed
\* before its container was reaped; a reaped one is run again.
DeferToOpening(r, token, due)    == BeginRelease(r, token, "claimed", "opening", due)
Rerun(r, token)                  == BeginRelease(r, token, "reaped", "admitted", TRUE)
CloseBeforeReaped(r, token)      == BeginRelease(r, token, "fencing", "interrupted", TRUE)

Close(r, token)            == BeginRelease(r, token, "claimed", "done", TRUE)
Defer(r, token, due)       == BeginRelease(r, token, "claimed", "admitted", due)
CloseInterrupted(r, token) == BeginRelease(r, token, "reaped", "interrupted", TRUE)

\* Mutations: the slot is taken off the successor's count; the earlier process
\* keeps the slot it frees; the freed slot is charged off before in_use falls.
FreeSlotOfSuccessor(c, seen) ==
  /\ inUse' = [inUse EXCEPT ![IF successor[c] = None THEN c ELSE successor[c]] = @ - 1]
  /\ UNCHANGED capacity

FreeSlotInPlace(c, seen) ==
  /\ inUse' = [inUse EXCEPT ![c] = @ - 1]
  /\ UNCHANGED capacity

FreeSlotTwice(c, seen) ==
  /\ inUse' = [inUse EXCEPT ![c] = @ - 1]
  /\ capacity' = [capacity EXCEPT ![c] = IF successor[c] = None THEN @ ELSE @ - 2]

\* The waited-for budget row is read afresh, so its successor_id is current; the
\* successor's own row is looked up in the snapshot, which has it only if it
\* existed when the statement began.
FreeSlot(c, seen) ==
  LET s == successor[c] IN
  /\ inUse' = [inUse EXCEPT ![c] = @ - 1]
  /\ capacity' = [x \in Hosts |-> IF s = None THEN capacity[x]
                                  ELSE IF x = c THEN capacity[x] - 1
                                  ELSE IF x = s /\ s \in seen THEN capacity[x] + 1
                                  ELSE capacity[x]]

CommitRelease(r) ==
  /\ releasing[r] # None
  /\ runs' = [runs EXCEPT ![r].state = releasing[r].to, ![r].executor = None,
                          ![r].lease = 0, ![r].due = releasing[r].due]
  /\ FreeSlot(runs[r].executor, releasing[r].seen)
  /\ releasing' = [releasing EXCEPT ![r] = None]
  /\ UNCHANGED <<stream, hostVars, enrolled, successor, claimVars, sweep>>
  /\ StampFullSince

\* The connection, or the releasing process, dies before the commit.
AbortRelease(r) ==
  /\ releasing[r] # None
  /\ releasing' = [releasing EXCEPT ![r] = None]
  /\ UNCHANGED <<rowVars, hostVars, budgetVars, claimVars, sweep>>

-----------------------------------------------------------------------------
(* Reconciliation *)

FenceExpired(h, r) ==
  /\ h \in registered
  /\ Unlocked(r)
  /\ runs[r].state = "claimed" /\ runs[r].lease = 0
  /\ runs[r].writer <= Epoch[h]
  /\ InReach(runs[r].executor, h)
  /\ runs' = [runs EXCEPT ![r].state = "fencing", ![r].token = @ + 1, ![r].reconciler = h,
                          ![r].reader = IF Epoch[h] < @ THEN Epoch[h] ELSE @]
  /\ UNCHANGED <<stream, hostVars, budgetVars, claimVars, txnVars>>

\* Mutations: a takeover under the token the departed reconciler still holds; a
\* takeover from a reconciler that is only slow.
TakeOverSameToken(h, r) ==
  /\ h \in registered
  /\ Unlocked(r)
  /\ runs[r].state \in Fenced
  /\ runs[r].reconciler \notin registered \cup {h}
  /\ runs[r].writer <= Epoch[h]
  /\ InReach(runs[r].executor, h)
  /\ runs' = [runs EXCEPT ![r].reconciler = h]
  /\ UNCHANGED <<stream, hostVars, budgetVars, claimVars, txnVars>>

TakeOverFromLive(h, r) ==
  /\ h \in registered
  /\ Unlocked(r)
  /\ runs[r].state \in Fenced
  /\ runs[r].reconciler # h
  /\ runs[r].writer <= Epoch[h]
  /\ InReach(runs[r].executor, h)
  /\ runs' = [runs EXCEPT ![r].token = @ + 1, ![r].reconciler = h]
  /\ UNCHANGED <<stream, hostVars, budgetVars, claimVars, txnVars>>

TakeOver(h, r) ==
  /\ h \in registered
  /\ Unlocked(r)
  /\ runs[r].state \in Fenced
  /\ runs[r].reconciler # h
  /\ runs[r].reconciler \notin registered
  /\ runs[r].writer <= Epoch[h]
  /\ InReach(runs[r].executor, h)
  /\ runs' = [runs EXCEPT ![r].token = @ + 1, ![r].reconciler = h]
  /\ UNCHANGED <<stream, hostVars, budgetVars, claimVars, txnVars>>

MarkReaped(h, r, token) ==
  /\ Unlocked(r)
  /\ runs[r].state = "fencing" /\ runs[r].token = token /\ runs[r].reconciler = h
  /\ runs' = [runs EXCEPT ![r].state = "reaped"]
  /\ UNCHANGED <<stream, hostVars, budgetVars, claimVars, txnVars>>

-----------------------------------------------------------------------------
(* Time *)

LeaseTick(r) ==
  /\ runs[r].lease > 0
  /\ runs' = [runs EXCEPT ![r].lease = @ - 1]
  /\ UNCHANGED <<stream, hostVars, budgetVars, claimVars, txnVars>>

RetryFallsDue(r) ==
  /\ ~runs[r].due
  /\ runs' = [runs EXCEPT ![r].due = TRUE]
  /\ UNCHANGED <<stream, hostVars, budgetVars, claimVars, txnVars>>

HeartbeatGoesStale(h) ==
  /\ beat[h] # "stale"
  /\ beat' = [beat EXCEPT ![h] = "stale"]
  /\ UNCHANGED <<rowVars, registered, pools, budgetVars, claimVars, txnVars>>

ClaimCheckGoesStale(h) ==
  /\ h \in checked
  /\ checked' = checked \ {h}
  /\ UNCHANGED <<rowVars, hostVars, budgetVars, failures, breaker, txnVars>>

OverflowDelayPasses(h) ==
  /\ h \in recentlyFull
  /\ recentlyFull' = recentlyFull \ {h}
  /\ UNCHANGED <<rowVars, hostVars, enrolled, capacity, inUse, successor, claimVars, txnVars>>

CooldownPasses(h) ==
  /\ breaker[h] = "disabled"
  /\ breaker' = [breaker EXCEPT ![h] = "due"]
  /\ UNCHANGED <<rowVars, hostVars, budgetVars, checked, failures, txnVars>>

-----------------------------------------------------------------------------
(* Next *)

Membership == \E h \in Hosts : Register(h) \/ Deregister(h) \/ Heartbeat(h)

Starting ==
  \E r \in Runs :
    \/ \E e \in WriterEpochs, w \in Workloads : Reserve(r, e, w)
    \/ OpenStream(r)
    \/ MarkAdmitted(r)

Sweeping ==
  \E h \in Hosts : SweepProbe(h) \/ SweepSettle(h) \/ \E r \in Runs : SweepRead(h, r)

Claims ==
  \E h \in Hosts :
    \/ \E r \in Runs : Claim(h, r)
    \/ ClaimNothing(h)
    \/ RecordCreateFailure(h)
    \/ RecordCreateSuccess(h)

\* A caller's token may be any token ever issued: calls are delayed and repeated.
Releases ==
  \E r \in Runs :
    \/ \E token \in 1..runs[r].token :
         \/ Renew(r, token)
         \/ Close(r, token)
         \/ CloseInterrupted(r, token)
         \/ \E due \in BOOLEAN : Defer(r, token, due)
    \/ CommitRelease(r)
    \/ AbortRelease(r)

Reconciling ==
  \E h \in Hosts, r \in Runs :
    \/ FenceExpired(h, r)
    \/ TakeOver(h, r)
    \/ \E token \in 1..runs[r].token : MarkReaped(h, r, token)

Time ==
  \/ \E r \in Runs : LeaseTick(r) \/ RetryFallsDue(r)
  \/ \E h \in Hosts : \/ HeartbeatGoesStale(h) \/ ClaimCheckGoesStale(h)
                      \/ OverflowDelayPasses(h) \/ CooldownPasses(h)

Next ==
  \/ Membership \/ Starting \/ Sweeping \/ Claims
  \/ Releases \/ Reconciling \/ Time

Spec == Init /\ [][Next]_vars

\* A live host's loop keeps an opening sweep running, a sweep reaches every row
\* it listed, and the event store answers a probe again and again.
FairSweeping ==
  \A h \in Hosts :
    /\ \A r \in Runs : SF_vars(SweepRead(h, r))
    /\ SF_vars(SweepProbe(h) /\ sweep'[h].presence # "unknown")
    /\ WF_vars(SweepSettle(h))

LiveSpec == Spec /\ FairSweeping

-----------------------------------------------------------------------------
(* Properties *)

\* The table's CHECK: a row names an executor exactly while it is charged.
ExecutorIffCharged ==
  \A r \in Runs : runs[r].executor # None <=> runs[r].state \in Charged

\* A slot is counted exactly once: an executor's in_use is the number of rows
\* charged to it, through claims, defers, fencing, takeovers and restarts.
ChargeConservation == \A h \in Hosts : inUse[h] = Cardinality(ChargedTo(h))

\* The CHECK on execution_budget never refuses a statement of the queue: no
\* executor is charged more than its capacity, successors and late releases included.
WithinCapacity == \A h \in Hosts : inUse[h] <= capacity[h]

\* Of the processes that have run in one container, at most one has a free slot:
\* two generations never both claim on one machine's memory.
OneClaimantPerMachine ==
  \A g, h \in enrolled :
    g # h /\ Container[g] = Container[h] => Full(g) \/ Full(h)

\* The slots of all the budget rows of h's machine.
MachineSlots(h) ==
  UNION {{x} \X (1..capacity[x]) : x \in {y \in enrolled : Container[y] = Container[h]}}

MachineCapacity(h) == Cardinality(MachineSlots(h))

\* However often its process restarts, and whatever the new one asks for, a
\* machine never gains a slot it did not have ("the budget is not doubled").
MachineNeverGrows ==
  [][\A h \in enrolled : MachineCapacity(h)' <= MachineCapacity(h)]_vars

\* _register_budget: "The machine's summed capacity never changes".
MachineNeverShrinks ==
  [][\A h \in enrolled : MachineCapacity(h)' >= MachineCapacity(h)]_vars

\* A row is claimable, or beyond, only if its start is recorded: no sweep and no
\* late caller queues a run the event store does not have.
QueuedIsRecorded ==
  \A r \in Runs : runs[r].state \notin {"none", "opening", "abandoned"} => r \in stream

\* Whoever takes a row over, as executor or as reconciler, does so under a token
\* larger than any before: a handle from an earlier holding never matches again.
HandoverBumpsToken ==
  [][\A r \in Runs :
       /\ runs[r].token <= runs'[r].token
       /\ \/ runs'[r].executor \notin {None, runs[r].executor}
          \/ runs'[r].reconciler # runs[r].reconciler
          => runs[r].token < runs'[r].token]_vars

\* Once its lease was seen expired a run is only ever cleaned up: it is never
\* executing again, and its slot is not freed before the row is marked reaped.
FencedNeverRuns ==
  [][\A r \in Runs :
       /\ runs[r].state \in Fenced => runs'[r].state \in Fenced \cup {"interrupted"}
       /\ runs[r].state = "fencing" => runs'[r].executor = runs[r].executor]_vars

\* Reconciliation is exclusive: a reconciler loses a row to another only after
\* its executor_hosts row is gone.
ReconcilerReplacedOnceLeft ==
  [][\A r \in Runs :
       runs[r].reconciler \in registered => runs'[r].reconciler = runs[r].reconciler]_vars

\* h, or an executor preferred to it, may take the run now or has only just filled up.
Served(h, r) ==
  \E x \in Preferred(h) \cup {h} :
    Claiming(x) /\ ((MayTake(x, r) /\ ~Full(x)) \/ x \in recentlyFull)

\* The capability plan: "An idle, dead or full higher pool must still never
\* suppress overflow."  A due run that a live budgeted executor has room for is
\* taken, there or by an executor preferred to it.
PlacementNeverStalls ==
  \A r \in Runs : runs[r].state = "admitted" /\ runs[r].due =>
    \A h \in registered :
      Claiming(h) /\ ~Full(h) /\ CanTake(h, r) /\ PoolOf(h).budgeted => Served(h, r)

\* It is, as long as no live executor without a budget stands between: where
\* every live executor that could take the run may overflow, holding it back for
\* preferred ones never leaves it to nobody.
FundedNeverStalls ==
  \A r \in Runs : runs[r].state = "admitted" /\ runs[r].due =>
    \A h \in registered :
      /\ Claiming(h) /\ ~Full(h) /\ CanTake(h, r)
      /\ \A x \in Preferred(h) \cup {h} : Claiming(x) /\ CanTake(x, r) => MayOverflow(x, r)
      => Served(h, r)

\* While some host stays registered, a run whose start is recorded reaches the
\* queue, even if it was given up as unrecorded before.
RecordedIsQueued ==
  \A r \in Runs :
    <>[](registered # {}) =>
      (r \in stream ~> runs[r].state \notin {"opening", "abandoned"})
=============================================================================
