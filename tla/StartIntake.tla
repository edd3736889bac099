----------------------------- MODULE StartIntake -----------------------------
(***************************************************************************)
(* How an execution is let in, without the run queue (its default): the    *)
(* durable request, the start to-do lists of direct starts and of resumes, *)
(* the admission gate with its maintenance flag and leases, the process's  *)
(* execution budget, and the task that waits for a slot and opens the      *)
(* execution's stream.  One API process at a time, which may crash between *)
(* any two steps and restart: only the event store, the to-do records and  *)
(* the maintenance flag survive.                                           *)
(***************************************************************************)
EXTENDS Naturals, Sequences, FiniteSets

CONSTANTS
  Direct,      \* executions POST /execute may be asked to start
  Resumes,     \* children of parents that may be resumed
  Limit,       \* SYN_EXECUTION_MAX_CONCURRENT
  MaxAttempts, \* MAX_START_ATTEMPTS
  MaxInputs    \* bound: requests, pauses, cancels, crashes and failed attempts in one behaviour

Starts == Direct \union Resumes

\* The two start to-do lists.
Lists == {"direct", "resumes"}
Of(l) == IF l = "direct" THEN Direct ELSE Resumes
ListOf(s) == IF s \in Direct THEN "direct" ELSE "resumes"

ASSUME IntakeAssumption ==
  /\ IsFiniteSet(Starts) /\ Direct \intersect Resumes = {}
  /\ Limit \in Nat \ {0} /\ MaxAttempts \in Nat \ {0}
  /\ MaxInputs \in Nat

VARIABLES
  asked,       \* the request stream; for a resume, its parent's
  opened,      \* executions whose stream exists
  ran,         \* executions that went past their start
  record,      \* the start to-do records
  events,      \* the stored events the coordinator has not passed
  mode,        \* the maintenance flag
  up,          \* the process has restarted and said that admission is open
  backlog,     \* how many of them lie below the live boundary
  applied,     \* the coordinator has applied the first of them, and not passed it
  woken,       \* the lists whose process manager is to run its processor side again
  drain,       \* per list, the task running that side
  post,        \* POST /execute handlers between the gate and the queue
  waiting,     \* the budget's queue
  running,     \* the budget's slots
  at,          \* per start, the step of the task holding its claim
  dispatch,    \* the dispatch that task reports to; 0 for the route's own
  held,        \* refusals met at a slot and not yet reported
  put,         \* the PUT /maintenance in progress
  outstanding, \* the gate's count of leases
  asking,      \* cancels that have withdrawn a start and not yet answered
  calledOff,   \* starts whose cancel was answered "it will not run"
  inputs       \* how many of what MaxInputs bounds have happened

durable  == <<asked, opened, ran, record, events, mode>>
budget   == <<waiting, running, at, dispatch>>
managers == <<applied, woken, drain>>
vars == <<asked, opened, ran, record, events, mode, up, backlog, applied, woken, drain,
          post, waiting, running, at, dispatch, held, put, outstanding, asking, calledOff, inputs>>

Input == inputs < MaxInputs /\ inputs' = inputs + 1

----------------------------------------------------------------------------
(* The to-do record and the rule of its writes.                            *)

\* Which dispatch a record stands for (its dispatched_at). Bound: one report may be outlived by
\* DISPATCH_GRACE, so two names are enough.
Stamps == 1..2
Record == [status : {"absent", "pending", "paused", "retryable", "dispatched", "started", "failed",
                     "withdrawn"},
           attempts : 0..MaxAttempts, stamp : 0..2]
Absent == [status |-> "absent", attempts |-> 0, stamp |-> 0]
Pending == [Absent EXCEPT !.status = "pending"]
OwedStatuses == {"pending", "paused", "retryable", "dispatched"}

\* Mutant of MayReplace: a failure is final even for the event of the start it misjudged.
NeverReplacesFailed(current, proposed) == current \notin {"started", "failed", "withdrawn"}

\* started replaces anything, nothing replaces it; failed and withdrawn yield only to it.
MayReplace(current, proposed) ==
  /\ current # "started"
  /\ current \in {"failed", "withdrawn"} => proposed = "started"

Settle(s, status) ==
  record' = IF MayReplace(record[s].status, status)
            THEN [record EXCEPT ![s] = [status |-> status, attempts |-> @.attempts, stamp |-> 0]]
            ELSE record

\* Mutant of Verdict: one attempt too many.
VerdictOneLate(r, how) ==
  IF how = "broken" /\ r.attempts < MaxAttempts
  THEN [status |-> "retryable", attempts |-> r.attempts + 1, stamp |-> 0]
  ELSE [status |-> IF how = "held" THEN "paused" ELSE "failed", attempts |-> r.attempts, stamp |-> 0]

Verdict(r, how) ==
  LET tries == r.attempts + (IF how = "broken" THEN 1 ELSE 0)
  IN [status   |-> IF how = "held" THEN "paused"
                   ELSE IF how = "refused" \/ tries >= MaxAttempts THEN "failed" ELSE "retryable",
      attempts |-> tries, stamp |-> 0]

\* A failure speaks for its own dispatch and never for what replaced it.
Failed(s, stamp, how) ==
  record' = IF record[s].status = "dispatched" /\ record[s].stamp = stamp
            THEN [record EXCEPT ![s] = Verdict(@, how)] ELSE record

----------------------------------------------------------------------------
(* The execution budget: at most Limit slots, handed to the oldest waiter. *)

Holds(s) == s \in running \/ \E i \in DOMAIN waiting: waiting[i] = s

\* _grant, after one slot was freed or one start has joined the queue.
Grant(slots, queue) ==
  IF queue # <<>> /\ Cardinality(slots) < Limit
  THEN running' = slots \union {Head(queue)} /\ waiting' = Tail(queue)
  ELSE running' = slots /\ waiting' = queue

\* A start claims its place in the step that creates its task; one already held is no second start.
Claim(s, stamp) ==
  IF Holds(s) THEN UNCHANGED budget
  ELSE /\ Grant(running, Append(waiting, s))
       /\ at' = [at EXCEPT ![s] = "queued"]
       /\ dispatch' = [dispatch EXCEPT ![s] = stamp]

\* Mutant of Leave: the slot is freed and nobody is granted it.
LeaveUngranted(s) ==
  /\ running' = running \ {s} /\ waiting' = waiting
  /\ at' = [at EXCEPT ![s] = "none"]
  /\ dispatch' = [dispatch EXCEPT ![s] = 0]

\* The task, which has its slot by then, ends: its claim goes back.
Leave(s) ==
  /\ Grant(running \ {s}, waiting)
  /\ at' = [at EXCEPT ![s] = "none"]
  /\ dispatch' = [dispatch EXCEPT ![s] = 0]

----------------------------------------------------------------------------
(* The admission gate.                                                     *)

Leased == {"checking", "starting", "refused", "broken"}
LockFree == put # "closing"
LeaseEnds == outstanding' = outstanding - 1

\* Closing holds the lock, waits for the leases, then writes the flag before it returns.
CloseBegin ==
  /\ mode = "open" /\ LockFree /\ Input
  /\ put' = "closing"
  /\ UNCHANGED <<durable, up, backlog, managers, post, budget, held, outstanding, asking, calledOff>>

CloseDone ==
  /\ put = "closing" /\ outstanding = 0
  /\ mode' = "paused" /\ put' = "none"
  /\ UNCHANGED <<asked, opened, ran, record, events, up, backlog, managers, post, budget, held,
                 outstanding, asking, calledOff, inputs>>

\* drain_timeout ran out: admission stays open, and the caller hears so.
CloseTimesOut ==
  /\ put = "closing" /\ outstanding # 0
  /\ put' = "none"
  /\ UNCHANGED <<durable, up, backlog, managers, post, budget, held, outstanding, asking, calledOff, inputs>>

Reopen ==
  /\ mode = "paused" /\ put = "none"
  /\ mode' = "open" /\ put' = "announcing"
  /\ UNCHANGED <<asked, opened, ran, record, events, up, backlog, managers, post, budget, held,
                 outstanding, asking, calledOff, inputs>>

Publish(type, s) == events' = Append(events, <<type, s>>)
Announced == Append(events, <<"open">>)

Announce ==
  /\ put = "announcing"
  /\ put' = "none" /\ events' = Announced
  /\ UNCHANGED <<asked, opened, ran, record, mode, up, backlog, managers, post, budget, held,
                 outstanding, asking, calledOff, inputs>>

----------------------------------------------------------------------------
(* The entrances: POST /execute and the resume of a parent.                *)

PostAdmit(s) ==
  /\ s \in Direct /\ post[s] = "none" /\ asked[s] = "none"
  /\ LockFree /\ mode = "open"
  /\ post' = [post EXCEPT ![s] = "admitted"]
  /\ Input
  /\ UNCHANGED <<durable, up, backlog, managers, budget, held, put, outstanding, asking, calledOff>>

\* Durable before the caller hears 200. The gate may have closed since.
PostRecord(s) ==
  /\ post[s] = "admitted"
  /\ post' = [post EXCEPT ![s] = "recorded"]
  /\ asked' = [asked EXCEPT ![s] = "asked"]
  /\ Publish("requested", s)
  /\ UNCHANGED <<opened, ran, record, mode, up, backlog, managers, budget, held, put, outstanding,
                 asking, calledOff, inputs>>

PostQueue(s) ==
  /\ post[s] = "recorded"
  /\ post' = [post EXCEPT ![s] = "none"]
  /\ Claim(s, 0)
  /\ UNCHANGED <<durable, up, backlog, managers, held, put, outstanding, asking, calledOff, inputs>>

\* The parent admits its one resume; the gate is asked when the child starts.
AdmitResume(s) ==
  /\ s \in Resumes /\ asked[s] = "none"
  /\ asked' = [asked EXCEPT ![s] = "asked"]
  /\ Publish("requested", s)
  /\ Input
  /\ UNCHANGED <<opened, ran, record, mode, up, backlog, managers, post, budget, held, put,
                 outstanding, asking, calledOff>>

----------------------------------------------------------------------------
(* Cancelling a start that has no execution yet.                           *)

\* A resume is found by its claim in this process, a direct start by its request; neither once its
\* record says it started.
Withdraw(s) ==
  /\ asked[s] = "asked" /\ record[s].status # "started"
  /\ s \in Resumes => Holds(s)
  /\ asked' = [asked EXCEPT ![s] = "withdrawn"]
  /\ Publish("withdrawn", s)
  /\ asking' = asking \union {s}
  /\ Input
  /\ UNCHANGED <<opened, ran, record, mode, up, backlog, managers, post, budget, held, put,
                 outstanding, calledOff>>

\* One whose stream exists by now is cancelled as a started run is.
Answer(s) ==
  /\ s \in asking
  /\ asking' = asking \ {s}
  /\ calledOff' = IF s \in opened THEN calledOff ELSE calledOff \union {s}
  /\ UNCHANGED <<durable, up, backlog, managers, post, budget, held, put, outstanding, inputs>>

----------------------------------------------------------------------------
(***************************************************************************)
(* The process managers of the two lists.  One coordinator hands each     *)
(* stored event to both: their projection sides apply it, their            *)
(* checkpoints move past it, and a live event wakes their processor sides. *)
(* Those run in tasks of their own, one per list, off the dispatch path.   *)
(***************************************************************************)

Apply ==
  /\ ~applied /\ events # <<>>
  /\ applied' = TRUE
  /\ LET type == Head(events)[1]
         s    == Head(events)[2]
     IN \/ /\ type = "requested"
           /\ record' = IF record[s] = Absent THEN [record EXCEPT ![s] = Pending] ELSE record
        \/ type = "withdrawn" /\ Settle(s, "withdrawn")
        \/ type = "started" /\ IF record[s] = Absent THEN UNCHANGED record ELSE Settle(s, "started")
        \/ type = "open" /\ UNCHANGED record
  /\ UNCHANGED <<asked, opened, ran, events, mode, up, backlog, woken, drain, post, budget, held, put,
                 outstanding, asking, calledOff, inputs>>

\* Both lists subscribe to executions started and to admission re-opened; the rest is a list's own.
Subscribed(event) == IF event[1] \in {"started", "open"} THEN Lists ELSE {ListOf(event[2])}

Checkpoint ==
  /\ applied /\ applied' = FALSE
  /\ events' = Tail(events)
  /\ IF backlog = 0 THEN woken' = woken \union Subscribed(Head(events)) /\ UNCHANGED backlog
     ELSE backlog' = backlog - 1 /\ UNCHANGED woken
  /\ UNCHANGED <<asked, opened, ran, record, mode, up, drain, post, budget, held, put, outstanding,
                 asking, calledOff, inputs>>

Idle == [step |-> "idle", todo |-> {}, now |-> <<>>, stamp |-> 0]

\* Mutant of Owed: what was dispatched before a crash is nobody's to offer.
OwedUndispatched(list, late) == {<<s, record[s]>> : s \in
  {t \in list : record[t].status \in OwedStatuses \ {"dispatched"} /\ ~Holds(t)}}

\* The owed records one pass over a list reads, none of them in hand here. Of the dispatched, those of
\* late: older than DISPATCH_GRACE by the time of the pass.
Owed(list, late) == {<<s, record[s]>> : s \in
  {t \in list : /\ record[t].status \in OwedStatuses
                /\ record[t].status = "dispatched" => t \in late
                /\ ~Holds(t)}}
\* Whose grace may be over. Bound: of the reports one start has not yet delivered, it outlives one.
Lost(list) == {s \in list: /\ record[s].status = "dispatched" /\ ~Holds(s)
                           /\ \E n \in Stamps: <<s, n>> \notin held}

Pass(todo) == IF todo = {} THEN Idle ELSE [Idle EXCEPT !.step = "pass", !.todo = todo]
Reads(l, late) == drain' = [drain EXCEPT ![l] = Pass(Owed(Of(l), late))]

\* A wake during a pass is kept for the next one.
BeginPass(l) ==
  /\ l \in woken /\ drain[l].step = "idle"
  /\ woken' = woken \ {l}
  /\ \E late \in SUBSET Lost(Of(l)): Reads(l, late)
  /\ UNCHANGED <<durable, up, backlog, applied, post, budget, held, put, outstanding, asking, calledOff,
                 inputs>>

\* Some other execution starts, by a trigger: its live event writes nothing here and wakes this list.
OtherStarted(l, late) ==
  /\ up /\ events = <<>> /\ drain[l].step = "idle" /\ Owed(Of(l), late) # {}
  /\ Reads(l, late)
  /\ UNCHANGED <<durable, up, backlog, applied, woken, post, budget, held, put, outstanding, asking,
                 calledOff, inputs>>

\* dispatched before the offer, and only over the record this pass read.
Dispatch(l) ==
  /\ drain[l].step = "pass"
  /\ \E entry \in drain[l].todo:
       LET s == entry[1]
           rest == drain[l].todo \ {entry}
           stamp == CHOOSE n \in Stamps: <<s, n>> \notin held
       IN IF record[s] = entry[2]
          THEN /\ record' = [record EXCEPT ![s] = [status |-> "dispatched", attempts |-> @.attempts,
                                                   stamp |-> stamp]]
               /\ drain' = [drain EXCEPT ![l] = [step |-> "offering", todo |-> rest, now |-> s,
                                                 stamp |-> stamp]]
          ELSE drain' = [drain EXCEPT ![l] = Pass(rest)] /\ UNCHANGED record
  /\ UNCHANGED <<asked, opened, ran, events, mode, up, backlog, applied, woken, post, budget, held, put,
                 outstanding, asking, calledOff, inputs>>

Offered(l, how) ==
  /\ drain' = [drain EXCEPT ![l] = Pass(drain[l].todo)]
  /\ IF how = "taken" THEN UNCHANGED record ELSE Failed(drain[l].now, drain[l].stamp, how)

\* start_requested and start_resume up to the gate: a start in hand or a withdrawn direct one is no
\* offer, a closed gate holds it, a stored declaration or a fault may fail it.
Offer(l) ==
  /\ drain[l].step = "offering"
  /\ LET s == drain[l].now
         none == Holds(s) \/ (s \in Direct /\ asked[s] = "withdrawn")
     IN \/ none /\ Offered(l, "taken") /\ UNCHANGED inputs
        \/ ~none /\ mode = "paused" /\ Offered(l, "held") /\ UNCHANGED inputs
        \/ ~none /\ mode = "open" /\ asked[s] = "withdrawn" /\ Offered(l, "refused") /\ UNCHANGED inputs
        \/ /\ ~none /\ mode = "open" /\ asked[s] = "asked"
           /\ \/ \E how \in {"refused", "broken"}: Offered(l, how) /\ Input
              \/ /\ drain' = [drain EXCEPT ![l] = [@ EXCEPT !.step = "admitting"]]
                 /\ UNCHANGED <<record, inputs>>
  /\ UNCHANGED <<asked, opened, ran, events, mode, up, backlog, applied, woken, post, budget, held, put,
                 outstanding, asking, calledOff>>

\* Inside admitting(): decided under the lock, and the task created before it is left.
Admit(l) ==
  /\ drain[l].step = "admitting" /\ LockFree
  /\ IF mode = "paused" THEN Offered(l, "held") /\ UNCHANGED budget
     ELSE Offered(l, "taken") /\ Claim(drain[l].now, drain[l].stamp)
  /\ UNCHANGED <<asked, opened, ran, events, mode, up, backlog, applied, woken, post, held, put,
                 outstanding, asking, calledOff, inputs>>

----------------------------------------------------------------------------
(* The start's task, from its slot to the end of its execution.            *)

\* Mutant of EnterSlot: what was let in at the entrance stays let in.
EnterSlotUnasked(s) ==
  /\ at[s] = "queued" /\ s \in running
  /\ at' = [at EXCEPT ![s] = "checking"]
  /\ outstanding' = outstanding + 1
  /\ UNCHANGED <<durable, up, backlog, managers, post, waiting, running, dispatch, held, put, asking,
                 calledOff, inputs>>

\* The gate is asked again where the wait ends: leased, or refused with the slot given back.
EnterSlot(s) ==
  /\ at[s] = "queued" /\ s \in running /\ LockFree
  /\ IF mode = "open"
     THEN /\ at' = [at EXCEPT ![s] = "checking"]
          /\ outstanding' = outstanding + 1
          /\ UNCHANGED <<waiting, running, dispatch, held>>
     ELSE /\ Leave(s)
          /\ held' = IF dispatch[s] = 0 THEN held ELSE held \union {<<s, dispatch[s]>>}
          /\ UNCHANGED outstanding
  /\ UNCHANGED <<durable, up, backlog, managers, post, put, asking, calledOff, inputs>>

ReportHeld(s, stamp) ==
  /\ <<s, stamp>> \in held
  /\ held' = held \ {<<s, stamp>>}
  /\ Failed(s, stamp, "held")
  /\ UNCHANGED <<asked, opened, ran, events, mode, up, backlog, managers, post, budget, put,
                 outstanding, asking, calledOff, inputs>>

\* Mutant of Check: a withdrawn start returns without ending its lease.
CheckKeepsLease(s) ==
  /\ at[s] = "checking"
  /\ IF asked[s] = "withdrawn" THEN Leave(s)
     ELSE at' = [at EXCEPT ![s] = "starting"] /\ UNCHANGED <<waiting, running, dispatch>>
  /\ UNCHANGED <<durable, up, backlog, managers, post, held, put, outstanding, asking, calledOff, inputs>>

\* The request, or the resume's parent, read once the slot is held.
Check(s) ==
  /\ at[s] = "checking"
  /\ IF asked[s] = "withdrawn"
     THEN Leave(s) /\ LeaseEnds
     ELSE at' = [at EXCEPT ![s] = "starting"] /\ UNCHANGED <<waiting, running, dispatch, outstanding>>
  /\ UNCHANGED <<durable, up, backlog, managers, post, held, put, asking, calledOff, inputs>>

\* That read fails. A resume's failure is a start that broke; a direct start's leaves its task, which
\* nothing awaits, and is no failure of its record.
Unread(s) ==
  /\ at[s] = "checking" /\ Input
  /\ IF s \in Resumes
     THEN at' = [at EXCEPT ![s] = "broken"] /\ UNCHANGED <<waiting, running, dispatch, outstanding>>
     ELSE Leave(s) /\ LeaseEnds
  /\ UNCHANGED <<durable, up, backlog, managers, post, held, put, asking, calledOff>>

\* The stream's NoStream write. A second start of one execution ends here, as started.
Open(s) ==
  /\ at[s] = "starting"
  /\ LeaseEnds
  /\ IF s \in opened
     THEN Leave(s) /\ UNCHANGED <<opened, ran, events>>
     ELSE /\ opened' = opened \union {s}
          /\ Publish("started", s)
          /\ at' = [at EXCEPT ![s] = IF s \in Resumes THEN "rechecking" ELSE "running"]
          /\ ran' = IF s \in Resumes THEN ran ELSE ran \union {s}
          /\ UNCHANGED <<waiting, running, dispatch>>
  /\ UNCHANGED <<asked, record, mode, up, backlog, managers, post, held, put, asking, calledOff, inputs>>

\* The start fails before its write: by recorded facts, or by a fault, which may also hide a write
\* that reached the store.
Falter(s) ==
  /\ at[s] = "starting" /\ Input
  /\ \/ at' = [at EXCEPT ![s] = "refused"] /\ UNCHANGED <<opened, events>>
     \/ at' = [at EXCEPT ![s] = "broken"] /\ UNCHANGED <<opened, events>>
     \/ /\ s \notin opened
        /\ at' = [at EXCEPT ![s] = "broken"]
        /\ opened' = opened \union {s}
        /\ Publish("started", s)
  /\ UNCHANGED <<asked, ran, record, mode, up, backlog, managers, post, waiting, running, dispatch,
                 held, put, outstanding, asking, calledOff>>

\* The failure is recorded under the claim and the lease; the route's own task only logs it.
Report(s) ==
  /\ at[s] \in {"refused", "broken"}
  /\ IF dispatch[s] = 0 THEN UNCHANGED record ELSE Failed(s, dispatch[s], at[s])
  /\ Leave(s) /\ LeaseEnds
  /\ UNCHANGED <<asked, opened, ran, events, mode, up, backlog, managers, post, held, put, asking,
                 calledOff, inputs>>

\* Mutant of Recheck: the lease, ended by the stream's write, is ended again with the task.
RecheckEndsLease(s) ==
  /\ at[s] = "rechecking"
  /\ LeaseEnds /\ Leave(s) /\ UNCHANGED ran
  /\ UNCHANGED <<asked, opened, record, events, mode, up, backlog, managers, post, held, put, asking,
                 calledOff, inputs>>

\* A resumed child reads its parent again after its stream exists, and is cancelled if withdrawn.
Recheck(s) ==
  /\ at[s] = "rechecking"
  /\ IF asked[s] = "withdrawn"
     THEN Leave(s) /\ UNCHANGED ran
     ELSE /\ at' = [at EXCEPT ![s] = "running"]
          /\ ran' = ran \union {s}
          /\ UNCHANGED <<waiting, running, dispatch>>
  /\ UNCHANGED <<asked, opened, record, events, mode, up, backlog, managers, post, held, put,
                 outstanding, asking, calledOff, inputs>>

Finish(s) ==
  /\ at[s] = "running"
  /\ Leave(s)
  /\ UNCHANGED <<durable, up, backlog, managers, post, held, put, outstanding, asking, calledOff, inputs>>

----------------------------------------------------------------------------
(* The process dies and comes back.                                        *)

Fresh ==
  /\ applied' = FALSE /\ woken' = {} /\ drain' = [l \in Lists |-> Idle]
  /\ post' = [s \in Starts |-> "none"]
  /\ waiting' = <<>> /\ running' = {}
  /\ at' = [s \in Starts |-> "none"] /\ dispatch' = [s \in Starts |-> 0]
  /\ held' = {} /\ put' = "none" /\ outstanding' = 0 /\ asking' = {}

\* Nothing happens until it is up again. What is stored by then is backlog.
Crash ==
  /\ Input
  /\ up' = FALSE /\ backlog' = Len(events)
  /\ Fresh
  /\ UNCHANGED <<durable, calledOff>>

\* Every start says again that admission is open; an announcement that fails is logged.
AnnounceAtStart ==
  /\ ~up /\ up' = TRUE
  /\ events' = IF mode = "open" THEN Announced ELSE events
  /\ UNCHANGED <<asked, opened, ran, record, mode, backlog, managers, post, budget, held, put,
                 outstanding, asking, calledOff, inputs>>

----------------------------------------------------------------------------
Init ==
  /\ asked = [s \in Starts |-> "none"]
  /\ opened = {} /\ ran = {}
  /\ record = [s \in Starts |-> Absent]
  /\ events = <<>> /\ backlog = 0
  /\ mode = "open" /\ up = TRUE /\ inputs = 0 /\ calledOff = {}
  /\ applied = FALSE /\ woken = {} /\ drain = [l \in Lists |-> Idle]
  /\ post = [s \in Starts |-> "none"]
  /\ waiting = <<>> /\ running = {}
  /\ at = [s \in Starts |-> "none"] /\ dispatch = [s \in Starts |-> 0]
  /\ held = {} /\ put = "none" /\ outstanding = 0 /\ asking = {}

Entrances(s) == PostAdmit(s) \/ AdmitResume(s)
HandlerSteps(s) ==
  PostRecord(s) \/ PostQueue(s) \/ Answer(s) \/ \E n \in Stamps: ReportHeld(s, n)
TaskSteps(s) == EnterSlot(s) \/ Check(s) \/ Open(s) \/ Report(s) \/ Recheck(s) \/ Finish(s)
CoordinatorSteps == Apply \/ Checkpoint
DrainSteps(l) == BeginPass(l) \/ Dispatch(l) \/ Offer(l) \/ Admit(l)
GateSteps == CloseDone \/ CloseTimesOut \/ Reopen \/ Announce \/ AnnounceAtStart

\* Every step the process owes.
Owes ==
  \/ GateSteps \/ CoordinatorSteps
  \/ \E l \in Lists: DrainSteps(l)
  \/ \E s \in Starts: HandlerSteps(s) \/ TaskSteps(s)

\* What clients, operators and faults may do.
World ==
  \/ CloseBegin \/ Crash
  \/ \E s \in Starts: Entrances(s) \/ Withdraw(s) \/ Unread(s) \/ Falter(s)

Next == Owes \/ World \/ \E l \in Lists: \E late \in SUBSET Lost(Of(l)): OtherStarted(l, late)
Spec == Init /\ [][Next]_vars

Fairness ==
  /\ WF_vars(GateSteps) /\ WF_vars(CoordinatorSteps)
  /\ \A l \in Lists: WF_vars(DrainSteps(l))
  /\ WF_vars(\E s \in Starts: HandlerSteps(s) \/ TaskSteps(s))

\* Other executions keep starting, at times longer than the grace apart: nothing but a stored event
\* wakes the lists, so on a system that falls quiet what a crash took from its task waits for one.
LiveSpec == Spec /\ Fairness /\ \A l \in Lists: WF_vars(OtherStarted(l, Lost(Of(l))))

----------------------------------------------------------------------------
LeasedStarts == {s \in Starts: at[s] \in Leased}

\* The shapes of the state.
IntakeTypeOK ==
  /\ asked \in [Starts -> {"none", "asked", "withdrawn"}]
  /\ opened \subseteq Starts /\ ran \subseteq opened /\ calledOff \subseteq Starts
  /\ asking \subseteq Starts
  /\ record \in [Starts -> Record]
  /\ mode \in {"open", "paused"} /\ up \in BOOLEAN
  /\ put \in {"none", "closing", "announcing"} /\ outstanding \in Nat
  /\ backlog \in 0..Len(events) /\ applied \in BOOLEAN /\ woken \subseteq Lists
  /\ \A l \in Lists: drain[l].todo \subseteq Of(l) \X Record /\ drain[l].stamp \in {0} \union Stamps
  /\ post \in [Starts -> {"none", "admitted", "recorded"}]
  /\ running \subseteq Starts
  /\ at \in [Starts -> {"none", "queued", "rechecking", "running"} \union Leased]
  /\ dispatch \in [Starts -> 0..2] /\ held \subseteq Starts \X Stamps

\* The gate's count is the number of starts between their slot and their stream: a lease ended
\* twice would let a pause return over a start, one never ended would hold every pause up.
LeaseCount == outstanding = Cardinality(LeasedStarts)

\* A claim is held exactly while its task lives, and no slot stands empty while a start waits:
\* an abandoned claim would take a slot out of the budget for good.
ClaimsAreTasks ==
  /\ running \union {waiting[i] : i \in DOMAIN waiting} = {s \in Starts: at[s] # "none"}
  /\ Cardinality(running) <= Limit
  /\ waiting # <<>> => Cardinality(running) = Limit

\* What a to-do record says of its execution is so: started only if it exists, and an execution
\* that exists is recorded as started, or the event that will record it is still to come -
\* whatever failures were recorded in between.
RecordIsTrue ==
  \A s \in Starts:
    /\ record[s].status = "started" => s \in opened
    /\ s \in opened /\ record[s].status # "started" =>
         \E i \in DOMAIN events: events[i] = <<"started", s>>

\* A start that used up its attempts is never offered again.
ExhaustedIsOver ==
  \A s \in Starts: record[s].attempts >= MaxAttempts => record[s].status \in {"failed", "started"}

\* The intake keeps the promise of StartPromise: nothing comes into being while PUT /maintenance
\* has closed the gate, nothing unasked for, and no resume that a cancel has called off runs.
Promise == INSTANCE StartPromise WITH
  paused <- mode = "paused",
  requested <- {s \in Starts: asked[s] # "none"},
  running <- ran
ImplementsPromise == Promise!PromiseSpec

\* Accepted, and nothing has come of it yet.
Pendent == {s \in Starts: asked[s] = "asked" /\ s \notin opened /\ record[s].status # "failed"}

\* Every accepted start comes to something: its execution exists, it was withdrawn, or its record
\* says why it failed. Through a crash at any step, pauses and failed attempts.
AskedEnds == []<>(Pendent = {})

\* A withdrawn request, whoever starts it: its start must never run
\* (ExecutionRequestAggregate.withdrawn), as its cancel has answered.
WithdrawnNeverRuns == calledOff \intersect ran = {}
=============================================================================
