------------------------ MODULE WorkflowOrder_proofs ------------------------
(***************************************************************************)
(* The processor works through the phases of an execution in their order,  *)
(* within their budget, and misses none.  The argument goes by where the   *)
(* stream stands: each event leaves one thing to be done next, the list    *)
(* serves that thing, and the aggregate accepts it.                        *)
(***************************************************************************)
EXTENDS WorkflowExecution_proofs, WorkflowList_proofs

-----------------------------------------------------------------------------
(* Where a stream stands *)

\* After the i-th event of s the execution is at phase c, which `act` is to be done
\* about; q is the phase after it, once that is known.
Stands(s, i, c, act, q) ==
  \/ /\ act = "provision" /\ q = None
     /\ \/ s[i] \in {Said("started", c), Said("retry", c)}
        \/ s[i].kind = "completed" /\ i > 1 /\ s[i - 1] = Said("nextReady", c)
  \/ act = "run" /\ q = None /\ s[i] = Said("provisioned", c)
  \/ act = "collect" /\ q = None /\ s[i] = Said("agentCompleted", c)
  \/ act = "complete" /\ q = None /\ s[i] = Said("collected", c)
  \/ /\ act = "complete" /\ q \in Phases /\ c < q
     /\ s[i] = Said("nextReady", q) /\ i > 1 /\ s[i - 1] = Said("collected", c)

\* The last phase has completed.
Rests(s, i) == s[i] = Said("completed", Final)

\* The i-th event is one that may follow where the events before it stand.
Legal(s, i) ==
  \E c \in Phases :
    \/ s[i] = Said("provisioned", c) /\ Stands(s, i - 1, c, "provision", None)
    \/ s[i] = Said("agentCompleted", c) /\ Stands(s, i - 1, c, "run", None)
    \/ s[i] = Said("retry", c) /\ Stands(s, i - 1, c, "run", None)
    \/ s[i] = Said("collected", c) /\ Stands(s, i - 1, c, "collect", None)
    \/ \E q \in Phases : /\ s[i] = Said("nextReady", q) /\ c < q
                         /\ Stands(s, i - 1, c, "complete", None)
    \/ \E q \in Phases : s[i] = Said("completed", c) /\ Stands(s, i - 1, c, "complete", q)
    \/ c = Final /\ s[i] = Said("completed", c) /\ Stands(s, i - 1, c, "complete", None)

Lawful(s) ==
  /\ Len(s) > 0 /\ s[1].kind = "started"
  /\ \A i \in 2..Len(s) : s[i].kind = "ended" \/ Legal(s, i)

-----------------------------------------------------------------------------
(* What the aggregate holds there *)

\* The workspace of a completed phase lives until it is finalized.
Closing == IF task # None /\ task.action = "finalize" THEN {task.phase} ELSE {}

HoldsAt(c, act, q) ==
  /\ \A p \in Phases : p < c => p \in completed \cup skipped
  /\ \A p \in completed : p < c
  /\ \A p \in skipped : p >= c => q \in Phases /\ c < p /\ p < q
  /\ q \in Phases => \A p \in Phases : c < p /\ p < q => p \in skipped
  /\ act = "complete" /\ q = None => c = Final
  /\ ~ended => workspaces = IF act = "provision" THEN Closing ELSE {c}
  /\ \A p \in Phases : p > c => attempts[p] = 0
  /\ act = "provision" => attempts[c] < MaxPhaseAttempts

Everything == Phases = completed \cup skipped /\ Final \in completed

\* The aggregate is where its stream is, and so is the item in hand.
RunInv ==
  status = "running" =>
    LET n == Len(stream)
    IN /\ \/ \E c \in Phases, act \in Actions, q \in Phases \cup {None} :
               Stands(stream, n, c, act, q) /\ HoldsAt(c, act, q)
          \/ Rests(stream, n) /\ Everything
       /\ task # None =>
            /\ ~ended
            /\ IF task.action = "finalize" THEN stream[n] = Said("completed", task.phase)
               ELSE \E q \in Phases \cup {None} : Stands(stream, n, task.phase, task.action, q)

-----------------------------------------------------------------------------
(* What the list says there *)

\* How much of the stream the list has seen: the writer that lags adds nothing.
Applied == IF delivered > synced THEN delivered ELSE synced

ListStands ==
  \/ Applied = 0 /\ list = NoList
  \/ \E c \in Phases, act \in Actions, q \in Phases \cup {None} :
       Applied > 0 /\ Stands(stream, Applied, c, act, q) /\ ListAt(list, c, act, q)
  \/ Applied > 0 /\ Rests(stream, Applied) /\ ListRests(list)

\* No mark of a list with two writers ever goes back.
Covered ==
  \A i \in 1..Applied : RankOf[stream[i].kind] <= list.progress[stream[i].phase]

ListInv == status = "running" => ListStands /\ (shared => Covered)

\* A list with one writer is empty once the end has been projected.
OwnInv ==
  ~shared => /\ delivered = 0
             /\ task # None => status = "running"
             /\ status # "running" =>
                  /\ stream[Len(stream)].kind = "ended"
                  /\ synced = Len(stream) => list = NoList

Placed == \E k \in Nat : \A n \in DOMAIN list.items : n <= k

Typed == Sound /\ RunTypeOK /\ Placed

Ordered == Lawful(stream) /\ RunInv /\ ListInv /\ WithinBudget /\ Whole

OrderInv ==
  /\ Typed
  /\ OwnInv
  /\ ended => task = None
  /\ ~SetBack => Ordered

-----------------------------------------------------------------------------
(* Types *)

\* What was recorded stays as it was; what is new stands at the end.
LEMMA Lengthened ==
  ASSUME NEW e \in Event, stream \in Seq(Event), Record(<<e>>)
  PROVE  LET n == Len(stream)
         IN /\ n \in Nat /\ Len(stream') = n + 1 /\ stream' \in Seq(Event)
            /\ stream'[n + 1] = e
            /\ \A i \in 1..n : stream'[i] = stream[i]
BY DEF Record

LEMMA LengthenedTwice ==
  ASSUME NEW e \in Event, NEW f \in Event, stream \in Seq(Event), Record(<<e, f>>)
  PROVE  LET n == Len(stream)
         IN /\ n \in Nat /\ Len(stream') = n + 2 /\ stream' \in Seq(Event)
            /\ stream'[n + 1] = e /\ stream'[n + 2] = f
            /\ \A i \in 1..n : stream'[i] = stream[i]
<1> DEFINE s == stream \o <<e>>
<1>1. stream' = s \o <<f>>
  BY AppendedTwice DEF Record
<1>2. /\ s \in Seq(Event) /\ Len(s) = Len(stream) + 1 /\ Len(stream) \in Nat
      /\ s[Len(stream) + 1] = e /\ \A i \in 1..Len(stream) : s[i] = stream[i]
  OBVIOUS
<1> HIDE DEF s
<1>3. /\ stream' \in Seq(Event) /\ Len(stream') = Len(s) + 1 /\ stream'[Len(s) + 1] = f
      /\ \A i \in 1..Len(s) : stream'[i] = s[i]
  BY <1>1, <1>2
<1> QED BY <1>2, <1>3

LEMMA TheList == RunTypeOK /\ Placed => IsList(list)
BY DEF RunTypeOK, Placed, IsList

LEMMA TypesInitially == RunInit => RunTypeOK /\ Placed
<1> SUFFICES ASSUME RunInit PROVE RunTypeOK /\ Placed
  OBVIOUS
<1>1. PICK at \in Phases :
        /\ stream = <<Said("started", at)>>
        /\ \E over : /\ over = {} \/ \E r \in Phases : over = Jumped(r)
                     /\ completed = (1..(at - 1)) \ over /\ skipped = over
  <2>1. PICK at \in Phases :
          \E over \in {{}} \cup {Jumped(r) : r \in IF at = Final THEN Reviews ELSE {}} :
            stream = <<Said("started", at)>> /\ completed = (1..(at - 1)) \ over /\ skipped = over
    BY DEF RunInit
  <2> QED BY <2>1, WorkflowAssumption
<1>2. Said("started", at) \in Event
  BY AnEvent DEF Kinds
<1>3. stream \in Seq(Event) /\ Len(stream) = 1
  BY <1>1, <1>2
<1>4. completed \subseteq Phases /\ skipped \subseteq Phases
  <2>1. \A r \in Phases : Jumped(r) \subseteq Phases
    BY WorkflowAssumption DEF Jumped, Phases
  <2>2. 1..(at - 1) \subseteq Phases
    BY WorkflowAssumption DEF Phases
  <2> QED BY <1>1, <2>1, <2>2
<1>5. IsList(list)
  BY EmptyIsList DEF RunInit
<1>6. /\ DOMAIN list.items \subseteq Nat \ {0}
      /\ list \in [items : [DOMAIN list.items -> Item], progress : [Phases -> 0..4 \cup {Done}]]
      /\ Placed
  BY <1>5 DEF IsList, Placed
<1>7. /\ status = "running" /\ running = None /\ attempts \in [Phases -> Nat]
      /\ verdict \in [Phases -> {"none", "blocked", "certified"}]
      /\ refused = {} /\ synced = 0 /\ delivered = 0 /\ task = None /\ workspaces = {}
      /\ ended = FALSE /\ shared \in BOOLEAN
  BY DEF RunInit
<1>8. synced \in 0..Len(stream) /\ delivered \in 0..Len(stream)
  BY <1>3, <1>7
<1> QED BY <1>3, <1>4, <1>6, <1>7, <1>8 DEF RunTypeOK

\* The parts of the type that the handlers of a phase leave to each other.
Counted == synced \in 0..Len(stream) /\ delivered \in 0..Len(stream)

LEMMA CountedRecord ==
  ASSUME RunTypeOK, NEW e \in Event, Record(<<e>>), UNCHANGED <<synced, delivered>>
  PROVE  stream' \in Seq(Event) /\ Counted'
<1>1. stream \in Seq(Event) /\ synced \in 0..Len(stream) /\ delivered \in 0..Len(stream)
  BY DEF RunTypeOK
<1> QED BY <1>1, Lengthened DEF Counted

LEMMA ListTypeStays ==
  ASSUME RunTypeOK, Placed, UNCHANGED list
  PROVE  /\ DOMAIN list'.items \subseteq Nat \ {0}
         /\ list' \in [items : [DOMAIN list'.items -> Item], progress : [Phases -> 0..4 \cup {Done}]]
         /\ Placed'
BY DEF RunTypeOK, Placed

LEMMA ProjectionTypes ==
  ASSUME RunTypeOK, Placed, NEW i \in 1..Len(stream), list' = Project(list, stream[i], Inherited),
         UNCHANGED <<stream, aggregate, task, workspaces, ended, shared>>,
         synced' \in 0..Len(stream), delivered' \in 0..Len(stream)
  PROVE  RunTypeOK' /\ Placed'
<1>1. stream \in Seq(Event) /\ stream[i] \in Event
  BY DEF RunTypeOK
<1>2. IsList(list')
  BY <1>1, TheList, ProjectedIsList
<1>3. /\ DOMAIN list'.items \subseteq Nat \ {0}
      /\ list' \in [items : [DOMAIN list'.items -> Item], progress : [Phases -> 0..4 \cup {Done}]]
      /\ Placed'
  BY <1>2 DEF IsList, Placed
<1> QED BY <1>3 DEF RunTypeOK, aggregate

\* A handler that records one event and leaves the list alone.
LEMMA RecordTypes ==
  ASSUME RunTypeOK, Placed, NEW e \in Event, Record(<<e>>),
         UNCHANGED <<list, synced, delivered, shared>>,
         status' \in {"running"} \cup Terminal, running' \in Phases \cup {None},
         attempts' \in [Phases -> Nat], completed' \subseteq Phases, skipped' \subseteq Phases,
         refused' \subseteq Commands, verdict' \in [Phases -> {"none", "blocked", "certified"}],
         task' \in Task \cup {None}, workspaces' \subseteq Phases, ended' \in BOOLEAN
  PROVE  RunTypeOK' /\ Placed'
BY CountedRecord, ListTypeStays DEF RunTypeOK, Counted

LEMMA HandlerTypes ==
  ASSUME RunTypeOK, Placed, NEW p \in Phases, Handle(p), UNCHANGED shared
  PROVE  RunTypeOK' /\ Placed'
<1>0. /\ status \in {"running"} \cup Terminal /\ running \in Phases \cup {None}
      /\ attempts \in [Phases -> Nat] /\ completed \subseteq Phases /\ skipped \subseteq Phases
      /\ refused \subseteq Commands /\ verdict \in [Phases -> {"none", "blocked", "certified"}]
      /\ workspaces \subseteq Phases /\ ended \in BOOLEAN
  BY DEF RunTypeOK
<1>1. CASE Provision(p)
  <2>1. Said("provisioned", p) \in Event
    BY AnEvent DEF Kinds
  <2>2. /\ Record(<<Said("provisioned", p)>>) /\ task' = None
        /\ UNCHANGED <<status, completed, skipped, verdict, refused, list, synced, delivered, ended>>
        /\ running' = p /\ attempts' = [attempts EXCEPT ![p] = @ + 1] /\ workspaces' = workspaces \cup {p}
    BY <1>1 DEF Provision
  <2>3. attempts' \in [Phases -> Nat] /\ workspaces' \subseteq Phases
    BY <1>0, <2>2
  <2> QED BY <1>0, <2>1, <2>2, <2>3, RecordTypes
<1>2. CASE Finish(p)
  <2>1. Said("agentCompleted", p) \in Event
    BY AnEvent DEF Kinds
  <2>2. /\ Record(<<Said("agentCompleted", p)>>) /\ task' = None
        /\ UNCHANGED <<status, running, attempts, completed, skipped, list, synced, delivered,
                       workspaces, ended>>
    BY <1>2 DEF Finish
  <2>3. PICK v \in {"none"} \cup (IF p \in Reviews THEN {"blocked", "certified"} ELSE {}) :
          verdict' = [verdict EXCEPT ![p] = v]
    BY <1>2 DEF Finish
  <2>4. PICK r \in {refused \ {p}} \cup (IF p \in Commands THEN {refused \cup {p}} ELSE {}) : refused' = r
    BY <1>2 DEF Finish
  <2>5. verdict' \in [Phases -> {"none", "blocked", "certified"}]
    BY <1>0, <2>3
  <2>6. refused' \subseteq Commands
    BY <1>0, <2>4
  <2> QED BY <1>0, <2>1, <2>2, <2>5, <2>6, RecordTypes
<1>3. CASE Retry(p)
  <2>1. Said("retry", p) \in Event
    BY AnEvent DEF Kinds
  <2>2. /\ Record(<<Said("retry", p)>>) /\ task' = None /\ running' = None
        /\ workspaces' = workspaces \ {p}
        /\ UNCHANGED <<status, attempts, completed, skipped, verdict, refused, list, synced,
                       delivered, ended>>
    BY <1>3 DEF Retry
  <2>3. workspaces' \subseteq Phases
    BY <1>0, <2>2
  <2> QED BY <1>0, <2>1, <2>2, <2>3, RecordTypes
<1>4. CASE Cancel(p)
  <2>1. Said("ended", p) \in Event
    BY AnEvent DEF Kinds
  <2>2. /\ Record(<<Said("ended", p)>>) /\ task' = None /\ status' = "cancelled"
        /\ UNCHANGED <<running, attempts, completed, skipped, verdict, refused, list, synced,
                       delivered, workspaces, ended>>
    BY <1>4 DEF Cancel
  <2> QED BY <1>0, <2>1, <2>2, RecordTypes DEF Terminal
<1>5. CASE Collect(p)
  <2>0. /\ task' = None
        /\ UNCHANGED <<running, attempts, completed, verdict, refused, list, synced, delivered,
                       workspaces, ended>>
    BY <1>5 DEF Collect
  <2>a. stream \in Seq(Event) /\ synced \in 0..Len(stream) /\ delivered \in 0..Len(stream)
    BY DEF RunTypeOK
  <2>1. ASSUME NEW e \in Event, NEW f \in Event, Record(<<e, f>>),
               skipped' \subseteq Phases, status' \in {"running"} \cup Terminal
        PROVE  RunTypeOK' /\ Placed'
    <3>1. stream' \in Seq(Event) /\ Len(stream') = Len(stream) + 2 /\ Len(stream) \in Nat
      BY <2>1, <2>a, LengthenedTwice
    <3>2. synced' \in 0..Len(stream') /\ delivered' \in 0..Len(stream')
      BY <2>0, <2>a, <3>1
    <3> QED BY <1>0, <2>0, <2>1, <3>1, <3>2, ListTypeStays DEF RunTypeOK
  <2>b. \A q \in Phases : Said("collected", p) \in Event /\ Said("ended", p) \in Event
                          /\ Said("nextReady", q) \in Event
    BY AnEvent DEF Kinds
  <2>2. CASE /\ Record(<<Said("collected", p), Said("ended", p)>>)
             /\ status' = "failed" /\ UNCHANGED skipped
    BY <1>0, <2>1, <2>2, <2>b DEF Terminal
  <2>3. CASE /\ p # Final /\ UNCHANGED status
             /\ \E q \in After(p) :
                  /\ Record(<<Said("collected", p), Said("nextReady", q)>>)
                  /\ skipped' = skipped \cup ((p + 1)..(q - 1))
    <3>1. PICK q \in After(p) :
            /\ Record(<<Said("collected", p), Said("nextReady", q)>>)
            /\ skipped' = skipped \cup ((p + 1)..(q - 1))
      BY <2>3
    <3>2. q \in Phases
      BY <2>3, WorkflowAssumption DEF After, Phases
    <3>3. skipped' \subseteq Phases
      BY <1>0, <3>1, <3>2, WorkflowAssumption DEF Phases
    <3> QED BY <1>0, <2>1, <2>3, <2>b, <3>1, <3>2, <3>3
  <2>4. CASE Record(<<Said("collected", p)>>) /\ UNCHANGED <<status, skipped>>
    BY <1>0, <2>0, <2>4, <2>b, RecordTypes
  <2> QED BY <1>5, <2>2, <2>3, <2>4 DEF Collect
<1>6. CASE PassOver(p)
  BY <1>6, ListTypeStays DEF PassOver, aggregate, RunTypeOK
<1>7. CASE Complete(p)
  <2>1. Said("completed", p) \in Event
    BY AnEvent DEF Kinds
  <2>2. /\ Record(<<Said("completed", p)>>) /\ task' = Todo("finalize", p) /\ running' = None
        /\ completed' = completed \cup {p}
        /\ UNCHANGED <<status, attempts, skipped, verdict, refused, list, synced, delivered,
                       workspaces, ended>>
    BY <1>7 DEF Complete
  <2>3. completed' \subseteq Phases /\ workspaces' \subseteq Phases /\ task' \in Task
    BY <1>0, <2>2 DEF Todo, Task
  <2> QED BY <1>0, <2>1, <2>2, <2>3, RecordTypes
<1>8. CASE Fail(p)
  <2>1. /\ task' = None /\ workspaces' = {} /\ ended' = TRUE
        /\ UNCHANGED <<completed, skipped, verdict, refused, list, synced, delivered>>
        /\ \/ running' = p /\ attempts' = [attempts EXCEPT ![p] = @ + 1]
           \/ UNCHANGED <<running, attempts>>
        /\ \/ Record(<<Said("ended", p)>>) /\ status' = "failed"
           \/ UNCHANGED <<stream, status>>
    BY <1>8 DEF Fail, Return
  <2>2. running' \in Phases \cup {None} /\ attempts' \in [Phases -> Nat]
    BY <1>0, <2>1
  <2>3. Said("ended", p) \in Event
    BY AnEvent DEF Kinds
  <2>4. CASE Record(<<Said("ended", p)>>) /\ status' = "failed"
    BY <1>0, <2>1, <2>2, <2>3, <2>4, RecordTypes DEF Terminal
  <2>5. CASE UNCHANGED <<stream, status>>
    BY <1>0, <2>1, <2>2, <2>5, ListTypeStays DEF RunTypeOK
  <2> QED BY <2>1, <2>4, <2>5
<1>9. CASE Finalize(p)
  <2>1. /\ task' = None /\ workspaces' \subseteq Phases
        /\ UNCHANGED <<stream, aggregate, list, synced, delivered, ended>>
    BY <1>0, <1>9 DEF Finalize
  <2> QED BY <2>1, ListTypeStays DEF aggregate, RunTypeOK
<1> QED BY <1>1, <1>2, <1>3, <1>4, <1>5, <1>6, <1>7, <1>8, <1>9 DEF Handle

LEMMA TypesStep == RunTypeOK /\ Placed /\ [RunNext]_runVars => RunTypeOK' /\ Placed'
<1> SUFFICES ASSUME RunTypeOK, Placed, [RunNext]_runVars PROVE RunTypeOK' /\ Placed'
  OBVIOUS
<1>0. /\ stream \in Seq(Event) /\ Len(stream) \in Nat
      /\ synced \in 0..Len(stream) /\ delivered \in 0..Len(stream)
      /\ Final \in Phases
  BY WorkflowAssumption DEF RunTypeOK, Phases
<1>1. CASE Sync /\ UNCHANGED shared
  <2>1. /\ synced + 1 \in 1..Len(stream) /\ synced' \in 0..Len(stream) /\ delivered' \in 0..Len(stream)
        /\ list' = Project(list, stream[synced + 1], Inherited)
        /\ UNCHANGED <<stream, aggregate, task, workspaces, ended, shared>>
    BY <1>0, <1>1 DEF Sync
  <2> QED BY <2>1, ProjectionTypes
<1>2. CASE Deliver /\ UNCHANGED shared
  <2>1. /\ delivered + 1 \in 1..Len(stream) /\ synced' \in 0..Len(stream) /\ delivered' \in 0..Len(stream)
        /\ list' = Project(list, stream[delivered + 1], Inherited)
        /\ UNCHANGED <<stream, aggregate, task, workspaces, ended, shared>>
    BY <1>0, <1>2 DEF Deliver
  <2> QED BY <2>1, ProjectionTypes
<1>3. CASE Read /\ UNCHANGED shared
  <2>1. PICK n \in Pending(list) : task' = list.items[n]
    BY <1>3 DEF Read
  <2>a. task' \in Item
    BY <2>1, TheList, PendingIs
  <2>2. task' \in Task
    BY <2>a DEF Task, Item
  <2> QED BY <1>3, <2>2, ListTypeStays DEF Read, aggregate, RunTypeOK
<1>4. CASE (Conclude \/ ShutDown) /\ UNCHANGED shared
  <2>1. /\ task' = None /\ workspaces' = {} /\ ended' = TRUE
        /\ UNCHANGED <<running, attempts, completed, skipped, verdict, refused, list, synced, delivered, shared>>
    BY <1>4 DEF Conclude, ShutDown, Return
  <2>2. Said("ended", Final) \in Event
    BY <1>0, AnEvent DEF Kinds
  <2>3. CASE Record(<<Said("ended", Final)>>) /\ status' \in Terminal
    BY <2>1, <2>2, <2>3, RecordTypes DEF RunTypeOK
  <2>4. CASE UNCHANGED <<stream, status>>
    BY <2>1, <2>4, ListTypeStays DEF RunTypeOK
  <2> QED BY <1>4, <2>3, <2>4 DEF Conclude, ShutDown, Terminal
<1>5. CASE (\E p \in Phases : Handle(p)) /\ UNCHANGED shared
  BY <1>5, HandlerTypes
<1>6. CASE UNCHANGED runVars
  BY <1>6, ListTypeStays DEF runVars, moving, aggregate, RunTypeOK
<1> QED BY <1>1, <1>2, <1>3, <1>4, <1>5, <1>6 DEF RunNext, Step

\* Every component of the run stays what it is declared to be; the list stays a
\* finite list of items of this workflow, whoever writes it and in what order.
THEOREM RunTypesHold == RunSpec => []RunTypeOK
<1>1. RunInit => RunTypeOK /\ Placed
  BY TypesInitially
<1>2. (RunTypeOK /\ Placed) /\ [RunNext]_runVars => (RunTypeOK /\ Placed)'
  BY TypesStep
<1> QED BY <1>1, <1>2, PTL DEF RunSpec

-----------------------------------------------------------------------------
(* The end of a run *)

\* All that a handler of the processor, or its end, does to the list's reader.
Records ==
  /\ UNCHANGED <<list, synced, delivered>>
  /\ task' = None \/ (status' = "running" /\ ~ended')
  /\ \/ UNCHANGED <<stream, status>>
     \/ status' = "running" /\ \E e \in Event : Record(<<e>>)
     \/ status' = "running" /\ \E e, f \in Event : Record(<<e, f>>)
     \/ \E e \in Event : Record(<<e>>) /\ e.kind = "ended"
     \/ \E e, f \in Event : Record(<<e, f>>) /\ f.kind = "ended"

LEMMA HandlersRecord ==
  ASSUME RunTypeOK, \/ \E p \in Phases : Handle(p)
                    \/ Conclude \/ ShutDown
  PROVE  Records
<1>0. /\ \A p, q \in Phases : /\ Said("provisioned", p) \in Event /\ Said("agentCompleted", p) \in Event
                             /\ Said("retry", p) \in Event /\ Said("ended", p) \in Event
                             /\ Said("collected", p) \in Event /\ Said("nextReady", q) \in Event
                             /\ Said("completed", p) \in Event /\ Said("ended", p).kind = "ended"
      /\ Final \in Phases
  BY AnEvent, WorkflowAssumption DEF Kinds, Phases
<1>1. ASSUME NEW p \in Phases, Provision(p) PROVE Records
  BY <1>0, <1>1 DEF Provision, Records
<1>2. ASSUME NEW p \in Phases, Finish(p) PROVE Records
  BY <1>0, <1>2 DEF Finish, Records
<1>3. ASSUME NEW p \in Phases, Retry(p) PROVE Records
  BY <1>0, <1>3 DEF Retry, Records
<1>4. ASSUME NEW p \in Phases, Cancel(p) PROVE Records
  BY <1>0, <1>4 DEF Cancel, Records
<1>5. ASSUME NEW p \in Phases, Collect(p) PROVE Records
  <2>0. task' = None /\ UNCHANGED <<list, synced, delivered>> /\ status = "running"
    BY <1>5 DEF Collect
  <2>1. CASE Record(<<Said("collected", p), Said("ended", p)>>)
    BY <1>0, <2>0, <2>1 DEF Records
  <2>2. CASE /\ p # Final /\ UNCHANGED status
             /\ \E q \in After(p) : Record(<<Said("collected", p), Said("nextReady", q)>>)
    <3>1. PICK q \in After(p) : Record(<<Said("collected", p), Said("nextReady", q)>>)
      BY <2>2
    <3>2. q \in Phases
      BY <2>2, WorkflowAssumption DEF After, Phases
    <3> QED BY <1>0, <2>0, <2>2, <3>1, <3>2 DEF Records
  <2>3. CASE Record(<<Said("collected", p)>>) /\ UNCHANGED status
    BY <1>0, <2>0, <2>3 DEF Records
  <2> QED BY <1>5, <2>1, <2>2, <2>3 DEF Collect
<1>6. ASSUME NEW p \in Phases, PassOver(p) PROVE Records
  BY <1>6 DEF PassOver, Records, aggregate
<1>7. ASSUME NEW p \in Phases, Complete(p) PROVE Records
  BY <1>0, <1>7 DEF Complete, At, Draining, Records
<1>8. ASSUME NEW p \in Phases, Fail(p) PROVE Records
  BY <1>0, <1>8 DEF Fail, Return, Records
<1>9. ASSUME Conclude \/ ShutDown PROVE Records
  BY <1>0, <1>9 DEF Conclude, ShutDown, Return, Records
<1>10. ASSUME NEW p \in Phases, Finalize(p) PROVE Records
  BY <1>10 DEF Finalize, Records, aggregate
<1> QED BY <1>1, <1>2, <1>3, <1>4, <1>5, <1>6, <1>7, <1>8, <1>9, <1>10 DEF Handle

\* What was recorded before is as it was; the end, when it is recorded, is last.
LEMMA RecordsExtend ==
  ASSUME RunTypeOK, Records
  PROVE  /\ Len(stream) \in Nat /\ Len(stream') \in Nat /\ Len(stream) <= Len(stream')
         /\ \A i \in 1..Len(stream) : stream'[i] = stream[i]
         /\ \/ UNCHANGED <<stream, status>> \/ status' = "running"
            \/ Len(stream) < Len(stream') /\ stream'[Len(stream')].kind = "ended"
<1>1. stream \in Seq(Event) /\ Len(stream) \in Nat
  BY DEF RunTypeOK
<1>2. CASE UNCHANGED <<stream, status>>
  BY <1>1, <1>2
<1>3. ASSUME NEW e \in Event, Record(<<e>>)
      PROVE  /\ Len(stream') = Len(stream) + 1 /\ stream'[Len(stream')] = e
             /\ \A i \in 1..Len(stream) : stream'[i] = stream[i]
  BY <1>1, <1>3, Lengthened
<1>4. ASSUME NEW e \in Event, NEW f \in Event, Record(<<e, f>>)
      PROVE  /\ Len(stream') = Len(stream) + 2 /\ stream'[Len(stream')] = f
             /\ \A i \in 1..Len(stream) : stream'[i] = stream[i]
  BY <1>1, <1>4, LengthenedTwice
<1>5. CASE \E e \in Event : Record(<<e>>) /\ (status' = "running" \/ e.kind = "ended")
  <2>1. PICK e \in Event : Record(<<e>>) /\ (status' = "running" \/ e.kind = "ended")
    BY <1>5
  <2>2. /\ Len(stream') = Len(stream) + 1 /\ stream'[Len(stream')] = e
        /\ \A i \in 1..Len(stream) : stream'[i] = stream[i]
    BY <1>3, <2>1
  <2> QED BY <1>1, <2>1, <2>2
<1>6. CASE \E e, f \in Event : Record(<<e, f>>) /\ (status' = "running" \/ f.kind = "ended")
  <2>1. PICK e \in Event, f \in Event : Record(<<e, f>>) /\ (status' = "running" \/ f.kind = "ended")
    BY <1>6
  <2>2. /\ Len(stream') = Len(stream) + 2 /\ stream'[Len(stream')] = f
        /\ \A i \in 1..Len(stream) : stream'[i] = stream[i]
    BY <1>4, <2>1
  <2> QED BY <1>1, <2>1, <2>2
<1> QED BY <1>2, <1>5, <1>6 DEF Records

LEMMA OwnStep ==
  ASSUME RunTypeOK, Placed, OwnInv, ended => task = None, [RunNext]_runVars
  PROVE  OwnInv' /\ (ended => task = None)'
<1>0. /\ stream \in Seq(Event) /\ Len(stream) \in Nat
      /\ synced \in 0..Len(stream) /\ delivered \in 0..Len(stream) /\ ended \in BOOLEAN
  BY DEF RunTypeOK
<1>1. CASE Sync /\ UNCHANGED shared
  <2>1. /\ synced < Len(stream) /\ synced' = synced + 1
        /\ list' = Project(list, stream[synced + 1], Inherited)
        /\ UNCHANGED <<stream, status, delivered, task, ended, shared>>
    BY <1>1 DEF Sync, aggregate
  <2>2. ASSUME ~shared, status # "running", synced' = Len(stream) PROVE list' = NoList
    <3>1. stream[synced + 1] \in Event /\ stream[synced + 1].kind = "ended"
      BY <1>0, <2>1, <2>2 DEF OwnInv
    <3> QED BY <2>1, <3>1, Projections
  <2> QED BY <1>0, <2>1, <2>2 DEF OwnInv
<1>2. CASE Deliver /\ UNCHANGED shared
  BY <1>2 DEF Deliver, OwnInv, aggregate
<1>3. CASE Read /\ UNCHANGED shared
  <2>1. Draining /\ Pending(list) # {} /\ UNCHANGED <<stream, status, list, synced, delivered, ended, shared>>
    BY <1>3 DEF Read, aggregate
  <2>2. Pending(NoList) = {}
    BY EmptyIsList, PendingIs DEF NoList
  <2>3. ASSUME ~shared PROVE status = "running"
    BY <2>1, <2>2, <2>3 DEF OwnInv, Draining
  <2> QED BY <2>1, <2>3 DEF OwnInv, Draining
<1>4. CASE ((\E p \in Phases : Handle(p)) \/ Conclude \/ ShutDown) /\ UNCHANGED shared
  <2>1. Records
    BY <1>4, HandlersRecord
  <2>2. /\ UNCHANGED <<list, synced, delivered, shared>>
        /\ task' = None \/ (status' = "running" /\ ~ended')
    BY <1>4, <2>1 DEF Records
  <2>3. ASSUME ~shared, status' # "running"
        PROVE  stream'[Len(stream')].kind = "ended" /\ (synced' = Len(stream') => list' = NoList)
    <3>1. CASE UNCHANGED <<stream, status>>
      BY <2>2, <2>3, <3>1 DEF OwnInv
    <3>2. CASE Len(stream) < Len(stream') /\ stream'[Len(stream')].kind = "ended"
      BY <1>0, <2>2, <3>2
    <3> QED BY <2>1, <2>3, <3>1, <3>2, RecordsExtend
  <2> QED BY <2>2, <2>3 DEF OwnInv
<1>5. CASE UNCHANGED runVars
  BY <1>5 DEF runVars, moving, aggregate, OwnInv
<1> QED BY <1>1, <1>2, <1>3, <1>4, <1>5 DEF RunNext, Step

-----------------------------------------------------------------------------
(* Where a stream stands, and where it goes *)

LEMMA Events ==
  ASSUME NEW c, NEW kind
  PROVE  Said(kind, c).kind = kind /\ Said(kind, c).phase = c
BY DEF Said

\* A stream stands in one place.
LEMMA StandsOnce ==
  ASSUME NEW s, NEW i, NEW c, NEW act, NEW q, Stands(s, i, c, act, q),
         NEW d, NEW other, NEW r, Stands(s, i, d, other, r)
  PROVE  c = d /\ act = other /\ q = r
<1>1. CASE s[i].kind \in {"started", "retry"}
  BY <1>1, Events DEF Stands
<1>2. CASE s[i].kind = "completed"
  BY <1>2, Events DEF Stands
<1>3. CASE s[i].kind \in {"provisioned", "agentCompleted", "collected"}
  BY <1>3, Events DEF Stands
<1>4. CASE s[i].kind = "nextReady"
  BY <1>4, Events DEF Stands
<1> QED BY <1>1, <1>2, <1>3, <1>4, Events DEF Stands

LEMMA StandsFor ==
  ASSUME NEW s, NEW i, NEW c, NEW act, NEW q, Stands(s, i, c, act, q)
  PROVE  /\ act \in Actions /\ s[i].kind # "ended"
         /\ act # "complete" => q = None
         /\ q \in Phases => act = "complete" /\ c < q
         /\ q \in Phases \cup {None}
<1>1. None \notin Phases
  BY WorkflowAssumption
<1>2. act \in Actions /\ s[i].kind # "ended"
  BY Events DEF Stands, Actions
<1> QED BY <1>1, <1>2 DEF Stands

\* What was recorded before stands where it stood.
LEMMA StandsStill ==
  ASSUME NEW s, NEW t, NEW i \in Nat \ {0}, \A j \in 1..i : t[j] = s[j],
         NEW c, NEW act, NEW q
  PROVE  /\ Stands(t, i, c, act, q) <=> Stands(s, i, c, act, q)
         /\ Rests(t, i) <=> Rests(s, i)
<1>1. t[i] = s[i] /\ (i > 1 => t[i - 1] = s[i - 1])
  <2>1. i \in 1..i /\ (i > 1 => i - 1 \in 1..i)
    OBVIOUS
  <2> QED BY <2>1
<1> QED BY <1>1 DEF Stands, Rests

LEMMA LegalStill ==
  ASSUME NEW s, NEW t, NEW i \in Nat, i > 1, \A j \in 1..i : t[j] = s[j], Legal(s, i)
  PROVE  Legal(t, i)
<1>1. t[i] = s[i] /\ i - 1 \in Nat \ {0} /\ \A j \in 1..(i - 1) : t[j] = s[j]
  <2>1. i \in 1..i /\ i - 1 \in Nat \ {0} /\ 1..(i - 1) \subseteq 1..i
    OBVIOUS
  <2> QED BY <2>1
<1>2. \A c, act, q : Stands(s, i - 1, c, act, q) => Stands(t, i - 1, c, act, q)
  BY <1>1, StandsStill
<1> QED BY <1>1, <1>2 DEF Legal

\* What may follow, and where it leads.
LEMMA Leads ==
  ASSUME NEW s, NEW i \in Nat, i > 1, Legal(s, i)
  PROVE  \E c \in Phases :
           \/ /\ s[i] = Said("provisioned", c)
              /\ Stands(s, i - 1, c, "provision", None) /\ Stands(s, i, c, "run", None)
           \/ /\ s[i] = Said("agentCompleted", c)
              /\ Stands(s, i - 1, c, "run", None) /\ Stands(s, i, c, "collect", None)
           \/ /\ s[i] = Said("retry", c)
              /\ Stands(s, i - 1, c, "run", None) /\ Stands(s, i, c, "provision", None)
           \/ /\ s[i] = Said("collected", c)
              /\ Stands(s, i - 1, c, "collect", None) /\ Stands(s, i, c, "complete", None)
           \/ \E q \in Phases :
                /\ s[i] = Said("nextReady", q) /\ c < q
                /\ Stands(s, i - 1, c, "complete", None) /\ Stands(s, i, c, "complete", q)
           \/ \E q \in Phases :
                /\ s[i] = Said("completed", c) /\ c < q
                /\ Stands(s, i - 1, c, "complete", q) /\ Stands(s, i, q, "provision", None)
           \/ /\ c = Final /\ s[i] = Said("completed", c)
              /\ Stands(s, i - 1, c, "complete", None) /\ Rests(s, i)
<1>0. None \notin Phases
  BY WorkflowAssumption
<1>1. PICK c \in Phases :
        \/ s[i] = Said("provisioned", c) /\ Stands(s, i - 1, c, "provision", None)
        \/ s[i] = Said("agentCompleted", c) /\ Stands(s, i - 1, c, "run", None)
        \/ s[i] = Said("retry", c) /\ Stands(s, i - 1, c, "run", None)
        \/ s[i] = Said("collected", c) /\ Stands(s, i - 1, c, "collect", None)
        \/ \E q \in Phases : s[i] = Said("nextReady", q) /\ c < q /\ Stands(s, i - 1, c, "complete", None)
        \/ \E q \in Phases : s[i] = Said("completed", c) /\ Stands(s, i - 1, c, "complete", q)
        \/ c = Final /\ s[i] = Said("completed", c) /\ Stands(s, i - 1, c, "complete", None)
  BY DEF Legal
<1>2. /\ s[i] = Said("provisioned", c) => Stands(s, i, c, "run", None)
      /\ s[i] = Said("agentCompleted", c) => Stands(s, i, c, "collect", None)
      /\ s[i] = Said("retry", c) => Stands(s, i, c, "provision", None)
      /\ s[i] = Said("collected", c) => Stands(s, i, c, "complete", None)
      /\ c = Final /\ s[i] = Said("completed", c) => Rests(s, i)
  BY DEF Stands, Rests
<1>3. ASSUME NEW q \in Phases, s[i] = Said("nextReady", q), c < q, Stands(s, i - 1, c, "complete", None)
      PROVE  Stands(s, i, c, "complete", q)
  <2>1. s[i - 1] = Said("collected", c)
    BY <1>0, <1>3 DEF Stands
  <2> QED BY <1>3, <2>1 DEF Stands
<1>4. ASSUME NEW q \in Phases, s[i] = Said("completed", c), Stands(s, i - 1, c, "complete", q)
      PROVE  c < q /\ Stands(s, i, q, "provision", None)
  <2>1. s[i - 1] = Said("nextReady", q) /\ c < q
    BY <1>0, <1>4 DEF Stands
  <2> QED BY <1>4, <2>1, Events DEF Stands
<1> QED BY <1>1, <1>2, <1>3, <1>4

\* Nothing is to be done where a stream rests, so nothing follows but its end.
LEMMA RestsApart ==
  ASSUME NEW s, NEW i \in Nat, i > 1, Legal(s, i), Rests(s, i),
         NEW c, NEW act, NEW q
  PROVE  ~Stands(s, i, c, act, q)
<1> SUFFICES ASSUME Stands(s, i, c, act, q) PROVE FALSE
  OBVIOUS
<1>1. s[i].kind = "completed" /\ s[i].phase = Final
  BY Events DEF Rests
<1>2. s[i - 1] = Said("nextReady", c)
  BY <1>1, Events DEF Stands
<1>3. PICK d \in Phases, r \in Phases \cup {None} :
        /\ s[i] = Said("completed", d) /\ Stands(s, i - 1, d, "complete", r)
        /\ r = None \/ (r \in Phases /\ d < r)
  BY <1>1, Leads, Events
<1>4. d = Final
  BY <1>1, <1>3, Events
<1>5. r \in Phases
  BY <1>2, <1>3, Events DEF Stands
<1> QED BY <1>3, <1>4, <1>5, WorkflowAssumption DEF Phases

LEMMA LawfulGrows ==
  ASSUME NEW s \in Seq(Event), NEW t \in Seq(Event), Lawful(s), Len(t) = Len(s) + 1,
         \A i \in 1..Len(s) : t[i] = s[i],
         t[Len(t)].kind = "ended" \/ Legal(t, Len(t))
  PROVE  Lawful(t)
<1>1. Len(s) \in Nat /\ Len(s) > 0 /\ s[1].kind = "started" /\ t[1] = s[1]
  BY DEF Lawful
<1>2. ASSUME NEW i \in 2..Len(t) PROVE t[i].kind = "ended" \/ Legal(t, i)
  <2>1. CASE i = Len(t)
    BY <2>1
  <2>2. CASE i # Len(t)
    <3>1. i \in 2..Len(s) /\ i \in Nat /\ i > 1 /\ t[i] = s[i] /\ \A j \in 1..i : t[j] = s[j]
      BY <1>1, <1>2, <2>2
    <3>2. s[i].kind = "ended" \/ Legal(s, i)
      BY <3>1 DEF Lawful
    <3> QED BY <3>1, <3>2, LegalStill
  <2> QED BY <2>1, <2>2
<1> QED BY <1>1, <1>2 DEF Lawful

-----------------------------------------------------------------------------
(* What the handlers leave to the list *)

\* The list goes on standing where it stood: nothing recorded moves it.
LEMMA ListWaits ==
  ASSUME RunTypeOK, ListInv, Records, UNCHANGED shared, status = "running"
  PROVE  ListInv'
<1>0. /\ synced \in 0..Len(stream) /\ delivered \in 0..Len(stream) /\ Len(stream) \in Nat
      /\ UNCHANGED <<list, synced, delivered>>
      /\ \A i \in 1..Len(stream) : stream'[i] = stream[i]
  BY RecordsExtend DEF RunTypeOK, Records
<1>a. PICK m \in 0..Len(stream) : m = Applied
  BY <1>0 DEF Applied
<1>1. Applied' = m
  BY <1>0, <1>a DEF Applied
<1>2. \A i \in 1..m : stream'[i] = stream[i]
  BY <1>0
<1>3. ListStands => ListStands'
  <2>1. CASE m = 0 /\ list = NoList
    BY <1>0, <1>a, <1>1, <2>1 DEF ListStands
  <2>2. ASSUME m > 0, NEW c \in Phases, NEW act \in Actions, NEW q \in Phases \cup {None},
               Stands(stream, m, c, act, q), ListAt(list, c, act, q)
        PROVE  ListStands'
    <3>1. Stands(stream', m, c, act, q)
      BY <1>2, <2>2, StandsStill
    <3> QED BY <1>0, <1>a, <1>1, <2>2, <3>1 DEF ListStands
  <2>3. ASSUME m > 0, Rests(stream, m), ListRests(list)
        PROVE  ListStands'
    <3>1. Rests(stream', m)
      BY <1>2, <2>3, StandsStill
    <3> QED BY <1>0, <1>a, <1>1, <2>3, <3>1 DEF ListStands
  <2> QED BY <1>a, <2>1, <2>2, <2>3 DEF ListStands
<1>4. Covered => Covered'
  BY <1>0, <1>a, <1>1, <1>2 DEF Covered
<1> QED BY <1>3, <1>4 DEF ListInv

\* One event recorded of an open run, that may follow, leads on.
LEMMA GoesOn ==
  ASSUME RunTypeOK, Ordered, NEW n, n = Len(stream), status = "running", status' = "running",
         NEW e \in Event, Record(<<e>>), UNCHANGED <<list, synced, delivered, shared>>,
         \/ task' = None
         \/ \E c \in Phases : task' = Todo("finalize", c) /\ ~ended' /\ e = Said("completed", c),
         Legal(stream', n + 1),
         \/ \E c \in Phases, act \in Actions, q \in Phases \cup {None} :
              Stands(stream', n + 1, c, act, q) /\ HoldsAt(c, act, q)'
         \/ Rests(stream', n + 1) /\ Everything'
  PROVE  Lawful(stream') /\ RunInv' /\ ListInv'
<1>1. /\ stream \in Seq(Event) /\ stream' \in Seq(Event) /\ Len(stream') = n + 1
      /\ stream'[n + 1] = e /\ \A i \in 1..Len(stream) : stream'[i] = stream[i]
  BY Lengthened DEF RunTypeOK
<1>a. task' # None => /\ ~ended' /\ task'.action = "finalize"
                      /\ stream'[n + 1] = Said("completed", task'.phase)
  BY <1>1 DEF Todo
<1>2. Lawful(stream')
  BY <1>1, LawfulGrows DEF Ordered
<1>3. RunInv'
  BY <1>1, <1>a DEF RunInv
<1>4. Records
  BY DEF Records
<1> QED BY <1>2, <1>3, <1>4, ListWaits DEF Ordered

\* The item in hand is where the aggregate is.
LEMMA InHand ==
  ASSUME RunTypeOK, Ordered, NEW n, n = Len(stream), status = "running",
         NEW c \in Phases, NEW act \in Actions, task = Todo(act, c)
  PROVE  /\ n \in Nat \ {0} /\ ~ended /\ task # None /\ Closing = {}
         /\ \E q \in Phases \cup {None} : Stands(stream, n, c, act, q) /\ HoldsAt(c, act, q)
<1>1. n \in Nat \ {0} /\ stream \in Seq(Event)
  BY DEF RunTypeOK, Ordered, Lawful
<1>2. task.phase = c /\ task.action = act /\ task # None /\ act # "finalize"
  <2>1. Todo(act, c) \in Task
    BY DEF Todo, Task
  <2> QED BY <2>1, ItemsAre, NoTaskAssumption DEF Actions
<1>3. PICK q \in Phases \cup {None} : ~ended /\ Stands(stream, n, c, act, q)
  BY <1>2 DEF RunInv, Ordered
<1>4. ~Rests(stream, n)
  <2>1. CASE n = 1
    BY <2>1, Events DEF Rests, Ordered, Lawful
  <2>2. CASE n > 1
    <3>1. stream[n].kind # "ended"
      BY <1>3, StandsFor
    <3>2. Legal(stream, n)
      BY <1>1, <2>2, <3>1 DEF Ordered, Lawful
    <3> QED BY <1>1, <1>3, <2>2, <3>2, RestsApart
  <2> QED BY <1>1, <2>1, <2>2
<1>5. PICK d \in Phases, other \in Actions, r \in Phases \cup {None} :
        Stands(stream, n, d, other, r) /\ HoldsAt(d, other, r)
  BY <1>4 DEF RunInv, Ordered
<1>6. c = d /\ act = other /\ q = r
  BY <1>3, <1>5, StandsOnce
<1> QED BY <1>1, <1>2, <1>3, <1>5, <1>6 DEF Closing

\* What is recorded of the item in hand may follow, and leads where it says.
LEMMA InHandLeads ==
  ASSUME NEW n \in Nat \ {0}, NEW s, NEW t, NEW e, t[n + 1] = e, \A i \in 1..n : t[i] = s[i],
         NEW c \in Phases, NEW act \in Actions, NEW q \in Phases \cup {None},
         Stands(s, n, c, act, q)
  PROVE  /\ e = Said("provisioned", c) /\ act = "provision" =>
              Legal(t, n + 1) /\ Stands(t, n + 1, c, "run", None)
         /\ e = Said("agentCompleted", c) /\ act = "run" =>
              Legal(t, n + 1) /\ Stands(t, n + 1, c, "collect", None)
         /\ e = Said("retry", c) /\ act = "run" =>
              Legal(t, n + 1) /\ Stands(t, n + 1, c, "provision", None)
         /\ e = Said("collected", c) /\ act = "collect" =>
              Legal(t, n + 1) /\ Stands(t, n + 1, c, "complete", None)
         /\ e = Said("completed", c) /\ act = "complete" /\ q \in Phases =>
              Legal(t, n + 1) /\ Stands(t, n + 1, q, "provision", None)
         /\ e = Said("completed", c) /\ act = "complete" /\ q = None /\ c = Final =>
              Legal(t, n + 1) /\ Rests(t, n + 1)
<1>1. t[n + 1] = e /\ (n + 1) - 1 = n /\ n + 1 > 1 /\ n + 1 \in Nat
  OBVIOUS
<1>2. Stands(t, n, c, act, q)
  BY StandsStill
<1>3. act # "complete" => q = None
  BY StandsFor
<1>4. ASSUME e = Said("provisioned", c), act = "provision"
      PROVE  Legal(t, n + 1) /\ Stands(t, n + 1, c, "run", None)
  BY <1>1, <1>2, <1>3, <1>4 DEF Legal, Stands
<1>5. ASSUME e = Said("agentCompleted", c), act = "run"
      PROVE  Legal(t, n + 1) /\ Stands(t, n + 1, c, "collect", None)
  BY <1>1, <1>2, <1>3, <1>5 DEF Legal, Stands
<1>6. ASSUME e = Said("retry", c), act = "run"
      PROVE  Legal(t, n + 1) /\ Stands(t, n + 1, c, "provision", None)
  BY <1>1, <1>2, <1>3, <1>6 DEF Legal, Stands
<1>7. ASSUME e = Said("collected", c), act = "collect"
      PROVE  Legal(t, n + 1) /\ Stands(t, n + 1, c, "complete", None)
  BY <1>1, <1>2, <1>3, <1>7 DEF Legal, Stands
<1>8. ASSUME e = Said("completed", c), act = "complete", q \in Phases
      PROVE  Legal(t, n + 1) /\ Stands(t, n + 1, q, "provision", None)
  <2>1. t[n] = Said("nextReady", q)
    BY <1>2, <1>8, WorkflowAssumption DEF Stands
  <2>2. Stands(t, n + 1, q, "provision", None)
    BY <1>1, <1>8, <2>1, Events DEF Stands
  <2> QED BY <1>1, <1>2, <1>8, <2>2 DEF Legal
<1>9. ASSUME e = Said("completed", c), act = "complete", q = None, c = Final
      PROVE  Legal(t, n + 1) /\ Rests(t, n + 1)
  BY <1>1, <1>2, <1>9 DEF Legal, Rests
<1> QED BY <1>4, <1>5, <1>6, <1>7, <1>8, <1>9

LEMMA StandsNext ==
  ASSUME NEW n \in Nat \ {0}, NEW t, NEW c \in Phases, NEW q \in Phases, c < q,
         Stands(t, n, c, "complete", None), t[n + 1] = Said("nextReady", q)
  PROVE  Legal(t, n + 1) /\ Stands(t, n + 1, c, "complete", q)
<1>1. (n + 1) - 1 = n /\ n + 1 > 1 /\ t[n] = Said("collected", c)
  BY WorkflowAssumption DEF Stands
<1>2. Legal(t, n + 1)
  BY <1>1 DEF Legal
<1> QED BY <1>1, <1>2 DEF Stands

-----------------------------------------------------------------------------
(* The handlers, one by one *)

\* A run that ends, or has ended, need only have kept what it counted.
LEMMA Closes ==
  ASSUME RunTypeOK, Ordered, ~SetBack, UNCHANGED <<completed, skipped>>, status' # "running",
         status' = "completed" => Everything \/ status = "completed",
         \/ UNCHANGED <<stream, status>>
         \/ \E p \in Phases : Record(<<Said("ended", p)>>)
         \/ Lawful(stream'),
         \A p \in Phases : attempts'[p] <= MaxPhaseAttempts
  PROVE  Ordered'
<1>1. RunInv' /\ ListInv'
  BY DEF RunInv, ListInv
<1>2. WithinBudget'
  BY DEF WithinBudget
<1>3. Whole'
  BY DEF Whole, Ordered, Everything
<1>4. Lawful(stream')
  <2>1. ASSUME NEW p \in Phases, Record(<<Said("ended", p)>>) PROVE Lawful(stream')
    <3>1. Said("ended", p) \in Event /\ Said("ended", p).kind = "ended" /\ stream \in Seq(Event)
      BY AnEvent DEF Kinds, RunTypeOK
    <3>2. /\ stream' \in Seq(Event) /\ Len(stream') = Len(stream) + 1
          /\ stream'[Len(stream')].kind = "ended" /\ \A i \in 1..Len(stream) : stream'[i] = stream[i]
      BY <2>1, <3>1, Lengthened
    <3> QED BY <3>1, <3>2, LawfulGrows DEF Ordered
  <2> QED BY <2>1 DEF Ordered
<1> QED BY <1>1, <1>2, <1>3, <1>4 DEF Ordered

LEMMA Budgeted ==
  ASSUME RunTypeOK, Ordered, ~SetBack, NEW p \in Phases
  PROVE  attempts[p] \in Nat /\ attempts[p] <= MaxPhaseAttempts
BY DEF RunTypeOK, Ordered, WithinBudget

\* What an open run that goes on leaves as it was.
LEMMA KeepsCounting ==
  ASSUME Ordered, ~SetBack, UNCHANGED <<attempts, completed, skipped>>, status' = "running"
  PROVE  WithinBudget' /\ Whole'
BY DEF Ordered, WithinBudget, Whole

LEMMA ProvisionOrdered ==
  ASSUME RunTypeOK, Ordered, ~SetBack, NEW p \in Phases, Provision(p), UNCHANGED shared
  PROVE  Ordered'
<1> DEFINE e == Said("provisioned", p)
<1>1. PICK n : n = Len(stream)
  OBVIOUS
<1>2. /\ task = Todo("provision", p) /\ status = "running" /\ status' = "running" /\ Record(<<e>>)
      /\ attempts' = [attempts EXCEPT ![p] = @ + 1] /\ workspaces' = workspaces \cup {p}
      /\ task' = None /\ UNCHANGED <<completed, skipped, list, synced, delivered, ended>>
  BY DEF Provision, At
<1>3. "provision" \in Actions /\ "run" \in Actions /\ e \in Event
  BY AnEvent DEF Actions, Kinds
<1>4. PICK q \in Phases \cup {None} :
        /\ n \in Nat \ {0} /\ ~ended /\ Closing = {}
        /\ Stands(stream, n, p, "provision", q) /\ HoldsAt(p, "provision", q)
  BY <1>1, <1>2, <1>3, InHand
<1>5. q = None /\ None \notin Phases
  BY <1>4, StandsFor, WorkflowAssumption
<1>6. stream'[n + 1] = e /\ \A i \in 1..n : stream'[i] = stream[i]
  BY <1>1, <1>2, <1>3, Lengthened DEF RunTypeOK
<1>7. Legal(stream', n + 1) /\ Stands(stream', n + 1, p, "run", None)
  BY <1>3, <1>4, <1>6, InHandLeads
<1>8. attempts[p] \in Nat /\ attempts[p] < 2 /\ attempts'[p] = attempts[p] + 1
      /\ \A x \in Phases \ {p} : attempts'[x] = attempts[x]
  BY <1>2, <1>4, Budgeted DEF HoldsAt, MaxPhaseAttempts, RunTypeOK
<1>9. HoldsAt(p, "run", None)'
  <2>1. workspaces' = {p}
    BY <1>2, <1>4 DEF HoldsAt
  <2>2. \A x \in Phases : x > p => attempts'[x] = 0
    BY <1>4, <1>8, Numbers DEF HoldsAt
  <2> QED BY <1>2, <1>4, <1>5, <2>1, <2>2 DEF HoldsAt
<1>10. WithinBudget' /\ Whole'
  <2>1. \A x \in Phases : attempts'[x] <= MaxPhaseAttempts
    <3> SUFFICES ASSUME NEW x \in Phases PROVE attempts'[x] <= MaxPhaseAttempts
      OBVIOUS
    <3> QED BY <1>8, Budgeted DEF MaxPhaseAttempts
  <2> QED BY <1>2, <2>1 DEF WithinBudget, Whole, Ordered
<1> HIDE DEF e
<1>11. Lawful(stream') /\ RunInv' /\ ListInv'
  BY <1>1, <1>2, <1>3, <1>7, <1>9, GoesOn
<1> QED BY <1>10, <1>11 DEF Ordered

LEMMA FinishOrdered ==
  ASSUME RunTypeOK, Ordered, ~SetBack, NEW p \in Phases, Finish(p), UNCHANGED shared
  PROVE  Ordered'
<1> DEFINE e == Said("agentCompleted", p)
<1>1. PICK n : n = Len(stream)
  OBVIOUS
<1>2. /\ task = Todo("run", p) /\ status = "running" /\ status' = "running" /\ Record(<<e>>)
      /\ task' = None
      /\ UNCHANGED <<attempts, completed, skipped, list, synced, delivered, workspaces, ended>>
  BY DEF Finish, At
<1>3. "run" \in Actions /\ "collect" \in Actions /\ e \in Event
  BY AnEvent DEF Actions, Kinds
<1>4. PICK q \in Phases \cup {None} :
        /\ n \in Nat \ {0} /\ ~ended
        /\ Stands(stream, n, p, "run", q) /\ HoldsAt(p, "run", q)
  BY <1>1, <1>2, <1>3, InHand
<1>5. q = None
  BY <1>4, StandsFor
<1>6. stream'[n + 1] = e /\ \A i \in 1..n : stream'[i] = stream[i]
  BY <1>1, <1>2, <1>3, Lengthened DEF RunTypeOK
<1>7. Legal(stream', n + 1) /\ Stands(stream', n + 1, p, "collect", None)
  BY <1>3, <1>4, <1>6, InHandLeads
<1>8. HoldsAt(p, "collect", None)'
  BY <1>2, <1>4, <1>5 DEF HoldsAt
<1> HIDE DEF e
<1>9. Lawful(stream') /\ RunInv' /\ ListInv'
  BY <1>1, <1>2, <1>3, <1>7, <1>8, GoesOn
<1> QED BY <1>2, <1>9, KeepsCounting DEF Ordered

LEMMA RetryOrdered ==
  ASSUME RunTypeOK, Ordered, ~SetBack, NEW p \in Phases, Retry(p), UNCHANGED shared
  PROVE  Ordered'
<1> DEFINE e == Said("retry", p)
<1>1. PICK n : n = Len(stream)
  OBVIOUS
<1>2. /\ task = Todo("run", p) /\ status = "running" /\ status' = "running" /\ Record(<<e>>)
      /\ task' = None /\ attempts[p] < MaxPhaseAttempts /\ workspaces' = workspaces \ {p}
      /\ UNCHANGED <<attempts, completed, skipped, list, synced, delivered, ended>>
  BY DEF Retry, At
<1>3. "run" \in Actions /\ "provision" \in Actions /\ e \in Event
  BY AnEvent DEF Actions, Kinds
<1>4. PICK q \in Phases \cup {None} :
        /\ n \in Nat \ {0} /\ ~ended
        /\ Stands(stream, n, p, "run", q) /\ HoldsAt(p, "run", q)
  BY <1>1, <1>2, <1>3, InHand
<1>5. q = None
  BY <1>4, StandsFor
<1>6. stream'[n + 1] = e /\ \A i \in 1..n : stream'[i] = stream[i]
  BY <1>1, <1>2, <1>3, Lengthened DEF RunTypeOK
<1>7. Legal(stream', n + 1) /\ Stands(stream', n + 1, p, "provision", None)
  BY <1>3, <1>4, <1>6, InHandLeads
<1>8. workspaces' = {}
  BY <1>2, <1>4 DEF HoldsAt
<1>9. HoldsAt(p, "provision", None)'
  BY <1>2, <1>4, <1>5, <1>8 DEF HoldsAt, Closing
<1> HIDE DEF e
<1>10. Lawful(stream') /\ RunInv' /\ ListInv'
  BY <1>1, <1>2, <1>3, <1>7, <1>9, GoesOn
<1> QED BY <1>2, <1>10, KeepsCounting DEF Ordered

LEMMA CompleteOrdered ==
  ASSUME RunTypeOK, Ordered, ~SetBack, NEW p \in Phases, Complete(p), UNCHANGED shared
  PROVE  Ordered'
<1> DEFINE e == Said("completed", p)
<1>1. PICK n : n = Len(stream)
  OBVIOUS
<1>2. /\ task = Todo("complete", p) /\ status = "running" /\ status' = "running" /\ Record(<<e>>)
      /\ task' = Todo("finalize", p) /\ completed' = completed \cup {p}
      /\ UNCHANGED <<attempts, skipped, list, synced, delivered, workspaces, ended>>
  BY DEF Complete, At
<1>3. "complete" \in Actions /\ "provision" \in Actions /\ e \in Event
  BY AnEvent DEF Actions, Kinds
<1>4. PICK q \in Phases \cup {None} :
        /\ n \in Nat \ {0} /\ ~ended
        /\ Stands(stream, n, p, "complete", q) /\ HoldsAt(p, "complete", q)
  BY <1>1, <1>2, <1>3, InHand
<1>5. None \notin Phases /\ p \in Nat /\ (q \in Phases => q \in Nat /\ p < q)
      /\ \A x \in Phases : x \in Nat /\ x <= Final
  BY <1>4, StandsFor, Numbers, WorkflowAssumption DEF Phases
<1>6. stream'[n + 1] = e /\ \A i \in 1..n : stream'[i] = stream[i]
  BY <1>1, <1>2, <1>3, Lengthened DEF RunTypeOK
<1>7. workspaces' = {p} /\ Closing' = {p}
  <2>1. Todo("finalize", p) \in Task /\ Todo("finalize", p).action = "finalize" /\ Todo("finalize", p).phase = p
    BY DEF Todo, Task
  <2>2. Closing' = {p}
    BY <1>2, <2>1, NoTaskAssumption DEF Closing
  <2> QED BY <1>2, <1>4, <2>2 DEF HoldsAt
<1>12. \E c \in Phases : task' = Todo("finalize", c) /\ ~ended' /\ e = Said("completed", c)
  BY <1>2, <1>4
<1>8. \A x \in skipped : x # p
  <2>1. \A x \in skipped : x \in Phases
    BY DEF RunTypeOK
  <2> QED BY <1>4, <1>5, <2>1 DEF HoldsAt
<1>9. WithinBudget' /\ Whole'
  BY <1>2, <1>8 DEF WithinBudget, Whole, Ordered
<1>10. CASE q \in Phases
  <2>1. Legal(stream', n + 1) /\ Stands(stream', n + 1, q, "provision", None)
    BY <1>3, <1>4, <1>6, <1>10, InHandLeads
  <2>2. \A x \in Phases : x < q => x \in completed' \cup skipped'
    <3> SUFFICES ASSUME NEW x \in Phases, x < q PROVE x \in completed' \cup skipped'
      OBVIOUS
    <3>1. x < p \/ x = p \/ p < x
      BY <1>5
    <3> QED BY <1>2, <1>4, <1>10, <3>1 DEF HoldsAt
  <2>3. \A x \in completed' : x < q
    <3> SUFFICES ASSUME NEW x \in completed' PROVE x < q
      OBVIOUS
    <3>1. x = p \/ (x \in completed /\ x \in Phases)
      BY <1>2 DEF RunTypeOK
    <3>2. x = p \/ (x < p /\ x \in Nat)
      BY <1>4, <1>5, <3>1 DEF HoldsAt
    <3> QED BY <1>5, <1>10, <3>2
  <2>4. \A x \in skipped' : ~(x >= q)
    <3> SUFFICES ASSUME NEW x \in skipped, x >= q PROVE FALSE
      BY <1>2
    <3>1. x \in Phases /\ x \in Nat
      BY <1>5 DEF RunTypeOK
    <3>2. x >= p
      BY <1>5, <1>10, <3>1
    <3>3. x < q
      BY <1>4, <3>2 DEF HoldsAt
    <3> QED BY <1>5, <1>10, <3>1, <3>3
  <2>5. \A x \in Phases : x >= q => attempts'[x] = 0
    <3> SUFFICES ASSUME NEW x \in Phases, x >= q PROVE attempts[x] = 0
      BY <1>2
    <3>1. x > p
      BY <1>5, <1>10
    <3> QED BY <1>4, <3>1 DEF HoldsAt
  <2>6. (\A x \in Phases : x > q => attempts'[x] = 0) /\ attempts'[q] < MaxPhaseAttempts
    <3>1. q >= q /\ \A x \in Phases : x > q => x >= q
      BY <1>5, <1>10
    <3> QED BY <1>10, <2>5, <3>1 DEF MaxPhaseAttempts
  <2>7. HoldsAt(q, "provision", None)'
    BY <1>5, <1>7, <2>2, <2>3, <2>4, <2>6 DEF HoldsAt
  <2> HIDE DEF e
  <2>8. Lawful(stream') /\ RunInv' /\ ListInv'
    BY <1>1, <1>2, <1>3, <1>10, <1>12, <2>1, <2>7, GoesOn
  <2> QED BY <1>9, <2>8 DEF Ordered
<1>11. CASE q = None
  <2>1. p = Final
    BY <1>4, <1>11 DEF HoldsAt
  <2>2. Legal(stream', n + 1) /\ Rests(stream', n + 1)
    BY <1>3, <1>4, <1>6, <1>11, <2>1, InHandLeads
  <2>3. ASSUME NEW x \in Phases PROVE x \in completed' \cup skipped'
    <3>1. x < p \/ x = p
      BY <1>5, <2>1, WorkflowAssumption
    <3> QED BY <1>2, <1>4, <3>1 DEF HoldsAt
  <2>4. completed' \cup skipped' \subseteq Phases
    BY <1>2 DEF RunTypeOK
  <2>5. Everything'
    BY <1>2, <2>1, <2>3, <2>4 DEF Everything
  <2> HIDE DEF e
  <2>6. Lawful(stream') /\ RunInv' /\ ListInv'
    BY <1>1, <1>2, <1>3, <1>12, <2>2, <2>5, GoesOn
  <2> QED BY <1>9, <2>6 DEF Ordered
<1> QED BY <1>10, <1>11

\* The completed phase gives up its workspace; what is next is as it was.
LEMMA FinalizeOrdered ==
  ASSUME RunTypeOK, Ordered, ~SetBack, NEW p \in Phases, Finalize(p), UNCHANGED shared
  PROVE  Ordered'
<1>1. PICK n : n = Len(stream)
  OBVIOUS
<1>2. /\ task = Todo("finalize", p) /\ task' = None /\ workspaces' = workspaces \ {p}
      /\ UNCHANGED <<stream, aggregate, list, synced, delivered, ended, shared>>
  BY DEF Finalize, At
<1>3. task # None /\ task.action = "finalize" /\ task.phase = p
  <2>1. Todo("finalize", p) \in Task /\ Todo("finalize", p).action = "finalize" /\ Todo("finalize", p).phase = p
    BY DEF Todo, Task
  <2> QED BY <1>2, <2>1, NoTaskAssumption
<1>4. Closing = {p} /\ Closing' = {}
  BY <1>2, <1>3 DEF Closing
<1>5. ASSUME status = "running" PROVE stream[n].kind = "completed"
  BY <1>1, <1>3, <1>5, Events DEF RunInv, Ordered
<1>6. ASSUME status = "running", NEW c \in Phases, NEW act \in Actions, NEW q \in Phases \cup {None},
             Stands(stream, n, c, act, q), HoldsAt(c, act, q)
      PROVE  HoldsAt(c, act, q)'
  <2>1. act = "provision"
    BY <1>5, <1>6, Events DEF Stands
  <2>2. ~ended => workspaces' = {}
    BY <1>2, <1>4, <1>6, <2>1 DEF HoldsAt
  <2> QED BY <1>2, <1>4, <1>6, <2>1, <2>2 DEF HoldsAt, aggregate
<1>7. RunInv'
  <2> SUFFICES ASSUME status = "running"
               PROVE  \/ \E c \in Phases, act \in Actions, q \in Phases \cup {None} :
                           Stands(stream, n, c, act, q) /\ HoldsAt(c, act, q)'
                      \/ Rests(stream, n) /\ Everything
    BY <1>1, <1>2 DEF RunInv, Everything, aggregate
  <2> QED BY <1>1, <1>6 DEF RunInv, Ordered
<1>8. ListInv'
  BY <1>2 DEF ListInv, ListStands, Covered, Applied, Ordered, aggregate
<1>9. WithinBudget' /\ Whole'
  BY <1>2 DEF WithinBudget, Whole, Ordered, aggregate
<1> QED BY <1>2, <1>7, <1>8, <1>9 DEF Ordered

LEMMA CollectOrdered ==
  ASSUME RunTypeOK, Ordered, ~SetBack, NEW p \in Phases, Collect(p), UNCHANGED shared
  PROVE  Ordered'
<1> DEFINE e == Said("collected", p)  mid == stream \o <<e>>
<1>1. PICK n : n = Len(stream)
  OBVIOUS
<1>2. /\ task = Todo("collect", p) /\ status = "running" /\ task' = None
      /\ UNCHANGED <<attempts, completed, list, synced, delivered, workspaces, ended>>
  BY DEF Collect, At
<1>3. /\ "collect" \in Actions /\ "complete" \in Actions
      /\ e \in Event /\ e.kind = "collected" /\ stream \in Seq(Event)
  BY AnEvent DEF Actions, Kinds, RunTypeOK
<1>4. PICK x \in Phases \cup {None} :
        /\ n \in Nat \ {0} /\ ~ended
        /\ Stands(stream, n, p, "collect", x) /\ HoldsAt(p, "collect", x)
  BY <1>1, <1>2, <1>3, InHand
<1>5. x = None /\ None \notin Phases /\ p \in Nat /\ \A y \in Phases : y \in Nat /\ y <= Final
  BY <1>4, StandsFor, Numbers, WorkflowAssumption DEF Phases
<1>6. /\ mid \in Seq(Event) /\ Len(mid) = n + 1 /\ mid[n + 1] = e
      /\ \A i \in 1..n : mid[i] = stream[i]
  BY <1>1, <1>3
<1> HIDE DEF mid
<1>7. Legal(mid, n + 1) /\ Stands(mid, n + 1, p, "complete", None)
  BY <1>3, <1>4, <1>6, InHandLeads
<1>8. Lawful(mid)
  BY <1>1, <1>3, <1>6, <1>7, LawfulGrows DEF Ordered
<1>9. ASSUME NEW f \in Event, Record(<<e, f>>)
      PROVE  /\ stream' \in Seq(Event) /\ Len(stream') = Len(mid) + 1 /\ stream'[n + 2] = f
             /\ \A i \in 1..Len(mid) : stream'[i] = mid[i]
  <2>1. stream' = mid \o <<f>>
    BY <1>3, <1>9, AppendedTwice DEF Record, mid
  <2>2. Len(mid) + 1 = n + 2
    BY <1>4, <1>6
  <2> HIDE DEF e
  <2> QED BY <1>4, <1>6, <2>1, <2>2
<1>10. CASE /\ Record(<<e, Said("ended", p)>>) /\ status' = "failed" /\ UNCHANGED skipped
  <2>1. Said("ended", p) \in Event /\ Said("ended", p).kind = "ended"
    BY AnEvent DEF Kinds
  <2>2. /\ stream' \in Seq(Event) /\ Len(stream') = Len(mid) + 1 /\ stream'[n + 2].kind = "ended"
        /\ \A i \in 1..Len(mid) : stream'[i] = mid[i]
    BY <1>9, <1>10, <2>1
  <2>3. Len(stream') = n + 2
    BY <1>4, <1>6, <2>2
  <2>4. Lawful(stream')
    BY <1>6, <1>8, <2>2, <2>3, LawfulGrows
  <2>5. \A y \in Phases : attempts'[y] <= MaxPhaseAttempts
    BY <1>2, Budgeted
  <2> QED BY <1>2, <1>10, <2>4, <2>5, Closes
<1>11. CASE /\ p # Final /\ UNCHANGED status
            /\ \E q \in After(p) : /\ Record(<<e, Said("nextReady", q)>>)
                                   /\ skipped' = skipped \cup ((p + 1)..(q - 1))
  <2>1. PICK q \in After(p) : /\ Record(<<e, Said("nextReady", q)>>)
                              /\ skipped' = skipped \cup ((p + 1)..(q - 1))
    BY <1>11
  <2>2. q \in Phases /\ q \in Nat /\ p < q
    BY <1>11, WorkflowAssumption DEF After, Phases
  <2>3. Said("nextReady", q) \in Event
    BY <2>2, AnEvent DEF Kinds
  <2>4. /\ stream' \in Seq(Event) /\ Len(stream') = Len(mid) + 1
        /\ stream'[n + 2] = Said("nextReady", q) /\ \A i \in 1..Len(mid) : stream'[i] = mid[i]
    BY <1>9, <2>1, <2>3
  <2>5. Len(stream') = n + 2 /\ n + 1 \in Nat \ {0} /\ (n + 1) + 1 = n + 2
    BY <1>4, <1>6, <2>4
  <2>6. Stands(stream', n + 1, p, "complete", None)
    BY <1>6, <1>7, <2>4, <2>5, StandsStill
  <2>7. Legal(stream', n + 2) /\ Stands(stream', n + 2, p, "complete", q)
    <3>1. stream'[(n + 1) + 1] = Said("nextReady", q)
      BY <2>4, <2>5
    <3>2. Legal(stream', (n + 1) + 1) /\ Stands(stream', (n + 1) + 1, p, "complete", q)
      BY <2>2, <2>5, <2>6, <3>1, StandsNext
    <3> QED BY <2>5, <3>2
  <2>8. Lawful(stream')
    BY <1>6, <1>8, <2>4, <2>5, <2>7, LawfulGrows
  <2>9. \A y \in skipped : y < p
    <3> SUFFICES ASSUME NEW y \in skipped PROVE y < p
      OBVIOUS
    <3>1. y \in Nat
      BY <1>5 DEF RunTypeOK
    <3>2. ~(y >= p)
      BY <1>4, <1>5 DEF HoldsAt
    <3> QED BY <1>5, <3>1, <3>2
  <2>10. HoldsAt(p, "complete", q)'
    <3>1. \A y \in skipped' : y \in skipped \/ (p < y /\ y < q)
      BY <1>5, <2>1, <2>2
    <3>2. \A y \in skipped' : y >= p => p < y /\ y < q
      <4> SUFFICES ASSUME NEW y \in skipped, y >= p PROVE FALSE
        BY <3>1
      <4> QED BY <1>4, <1>5 DEF HoldsAt
    <3>3. \A y \in Phases : p < y /\ y < q => y \in skipped'
      BY <1>5, <2>1, <2>2
    <3>4. \A y \in Phases : y < p => y \in completed' \cup skipped'
      BY <1>2, <1>4, <2>1 DEF HoldsAt
    <3>5. workspaces' = {p} /\ q # None
      BY <1>2, <1>4, <1>5, <2>2 DEF HoldsAt
    <3> QED BY <1>2, <1>4, <2>2, <3>2, <3>3, <3>4, <3>5 DEF HoldsAt
  <2>11. RunInv'
    BY <1>2, <1>3, <2>2, <2>5, <2>7, <2>10 DEF RunInv
  <2>12. Records
    BY <1>2, <1>3, <1>11, <2>1, <2>3 DEF Records
  <2>13. ListInv'
    BY <1>2, <2>12, ListWaits DEF Ordered
  <2>14. completed' \cap skipped' = {}
    <3> SUFFICES ASSUME NEW y \in completed, y \in (p + 1)..(q - 1) PROVE FALSE
      BY <1>2, <2>1 DEF Whole, Ordered
    <3>1. y < p
      BY <1>4 DEF HoldsAt
    <3> QED BY <1>5, <2>2, <3>1
  <2>15. WithinBudget' /\ Whole'
    BY <1>2, <1>11, <2>14 DEF WithinBudget, Whole, Ordered
  <2> QED BY <2>8, <2>11, <2>13, <2>15 DEF Ordered
<1>12. CASE p = Final /\ Record(<<e>>) /\ UNCHANGED <<status, skipped>>
  <2>1. HoldsAt(p, "complete", None)'
    BY <1>2, <1>4, <1>5, <1>12 DEF HoldsAt
  <2>2. stream' = mid
    BY <1>12 DEF Record, mid
  <2> HIDE DEF e
  <2>3. Lawful(stream') /\ RunInv' /\ ListInv'
    BY <1>1, <1>2, <1>3, <1>7, <1>12, <2>1, <2>2, GoesOn
  <2> QED BY <1>2, <1>12, <2>3, KeepsCounting DEF Ordered
<1> QED BY <1>10, <1>11, <1>12 DEF Collect

\* A run ends or has ended; a phase that failed to start counts as an attempt.
LEMMA EndingsOrdered ==
  ASSUME RunTypeOK, Ordered, ~SetBack, NEW p \in Phases, Cancel(p) \/ PassOver(p) \/ Fail(p),
         UNCHANGED shared
  PROVE  Ordered'
<1>1. CASE Cancel(p)
  <2>1. /\ Record(<<Said("ended", p)>>) /\ status' = "cancelled"
        /\ UNCHANGED <<attempts, completed, skipped>>
    BY <1>1 DEF Cancel
  <2>2. \A x \in Phases : attempts'[x] <= MaxPhaseAttempts
    BY <2>1, Budgeted
  <2> QED BY <2>1, <2>2, Closes
<1>2. CASE PassOver(p)
  <2>1. UNCHANGED <<stream, aggregate, list, synced, delivered, workspaces, ended, shared>> /\ task' = None
    BY <1>2 DEF PassOver
  <2>2. RunInv'
    <3>1. Todo("collect", p).action # "finalize" /\ task = Todo("collect", p)
      BY <1>2, ItemsAre DEF PassOver, At, Todo
    <3>2. Closing = {} /\ Closing' = {}
      BY <2>1, <3>1 DEF Closing
    <3>3. \A c, act, q : HoldsAt(c, act, q) => HoldsAt(c, act, q)'
      BY <2>1, <3>2 DEF HoldsAt, aggregate
    <3> QED BY <2>1, <3>3 DEF RunInv, Ordered, Everything, aggregate
  <2>3. ListInv'
    BY <2>1 DEF ListInv, ListStands, Covered, Applied, Ordered, aggregate
  <2>4. WithinBudget' /\ Whole'
    BY <2>1 DEF WithinBudget, Whole, Ordered, aggregate
  <2> QED BY <2>1, <2>2, <2>3, <2>4 DEF Ordered
<1>3. CASE Fail(p)
  <2>1. /\ UNCHANGED <<completed, skipped>> /\ task.phase = p /\ task # None
        /\ IF status = "running" THEN Record(<<Said("ended", p)>>) /\ status' = "failed"
                                 ELSE UNCHANGED <<stream, status>>
        /\ IF task.action = "provision" /\ status = "running" /\ p \notin completed
           THEN running' = p /\ attempts' = [attempts EXCEPT ![p] = @ + 1]
           ELSE UNCHANGED <<running, attempts>>
    BY <1>3 DEF Fail
  <2>2. ASSUME task.action = "provision", status = "running" PROVE attempts[p] < MaxPhaseAttempts
    <3>1. task = Todo("provision", p) /\ "provision" \in Actions
      BY <2>1, <2>2 DEF Todo, RunTypeOK, Task, Actions
    <3>2. PICK n : n = Len(stream)
      OBVIOUS
    <3>3. \E q \in Phases \cup {None} : HoldsAt(p, "provision", q)
      BY <2>2, <3>1, <3>2, InHand
    <3> QED BY <3>3 DEF HoldsAt
  <2>3. \A x \in Phases : attempts'[x] <= MaxPhaseAttempts
    <3> SUFFICES ASSUME NEW x \in Phases PROVE attempts'[x] <= 2
      BY DEF MaxPhaseAttempts
    <3>1. attempts \in [Phases -> Nat] /\ attempts[x] \in Nat /\ attempts[x] <= 2
      BY Budgeted DEF RunTypeOK, MaxPhaseAttempts
    <3>2. CASE attempts' = [attempts EXCEPT ![p] = @ + 1] /\ task.action = "provision" /\ status = "running"
      BY <2>2, <3>1, <3>2 DEF MaxPhaseAttempts
    <3> QED BY <2>1, <3>1, <3>2
  <2>4. status' # "running" /\ (status' = "completed" => status = "completed")
        /\ (UNCHANGED <<stream, status>> \/ Record(<<Said("ended", p)>>))
    BY <2>1
  <2> QED BY <2>1, <2>3, <2>4, Closes
<1> QED BY <1>1, <1>2, <1>3

LEMMA RestsAlone ==
  ASSUME NEW s \in Seq(Event), Lawful(s), NEW n \in 1..Len(s), Rests(s, n), NEW c, NEW act, NEW q
  PROVE  ~Stands(s, n, c, act, q)
<1>1. s[n].kind = "completed"
  BY Events DEF Rests
<1>2. n \in Nat /\ n > 1 /\ n \in 2..Len(s)
  BY <1>1 DEF Lawful
<1>3. Legal(s, n)
  BY <1>1, <1>2 DEF Lawful
<1> QED BY <1>2, <1>3, RestsApart

\* All of the stream is on the list when the processor looks at it.
LEMMA AllApplied ==
  ASSUME RunTypeOK, Ordered, synced = Len(stream)
  PROVE  Applied = Len(stream) /\ Len(stream) \in Nat \ {0}
BY DEF Applied, RunTypeOK, Ordered, Lawful

\* What the list serves first is served.
LEMMA ServedFirst ==
  ASSUME NEW l, IsList(l), NEW c \in Phases, NEW act \in Actions, NEW q, ListAt(l, c, act, q)
  PROVE  /\ Pending(l) # {}
         /\ \A n \in Pending(l) : (\A m \in Pending(l) : n <= m) => l.items[n] = Todo(act, c)
<1>1. PICK k \in DOMAIN l.items :
        /\ l.items[k] = Todo(act, c)
        /\ q \in Phases => \A m \in Pending(l) : l.items[m] = Todo("provision", q) => k < m
  BY DEF ListAt
<1>2. k \in Pending(l) /\ k \in Nat
  <2>1. l.progress[c] = Rank[act] /\ Rank[act] \in 1..4
    BY Numbers DEF ListAt
  <2> QED BY <1>1, <2>1, ItemsAre, PendingIs
<1>3. ASSUME NEW n \in Pending(l), \A m \in Pending(l) : n <= m
      PROVE  l.items[n] = Todo(act, c)
  <2>1. n \in Nat /\ n <= k
    BY <1>2, <1>3, PendingIs
  <2>2. ~(k < n)
    BY <1>2, <2>1
  <2>3. l.items[n] = Todo(act, c) \/ (q \in Phases /\ l.items[n] = Todo("provision", q))
    BY DEF ListAt
  <2> QED BY <1>1, <2>2, <2>3
<1> QED BY <1>2, <1>3

LEMMA ReadOrdered ==
  ASSUME RunTypeOK, Placed, Ordered, ~SetBack, Read, UNCHANGED shared
  PROVE  Ordered'
<1>1. /\ ~ended /\ synced = Len(stream) /\ task = None
      /\ UNCHANGED <<stream, aggregate, list, synced, delivered, workspaces, ended, shared>>
  BY DEF Read, Draining
<1>2. PICK k \in Pending(list) : (\A m \in Pending(list) : k <= m) /\ task' = list.items[k]
  BY DEF Read
<1>3. ASSUME status = "running"
      PROVE  \E q \in Phases \cup {None} : Stands(stream, Len(stream), task'.phase, task'.action, q)
  <2>1. Applied = Len(stream) /\ Len(stream) \in Nat \ {0} /\ IsList(list)
    BY <1>1, AllApplied, TheList
  <2>2. PICK c \in Phases, act \in Actions, q \in Phases \cup {None} :
          Stands(stream, Len(stream), c, act, q) /\ ListAt(list, c, act, q)
    BY <1>2, <1>3, <2>1 DEF Ordered, ListInv, ListStands, ListRests
  <2>3. task' = Todo(act, c)
    BY <1>2, <2>1, <2>2, ServedFirst
  <2> QED BY <2>2, <2>3, ItemsAre
<1>4. RunInv'
  <2>1. task' \in Item /\ IsList(list)
    BY <1>2, TheList, PendingIs DEF Pending
  <2>2. task'.action # "finalize"
    BY <2>1 DEF Item, Actions
  <2>3. Closing = {} /\ Closing' = {}
    BY <1>1, <2>2 DEF Closing
  <2>4. \A c, act, q : HoldsAt(c, act, q) => HoldsAt(c, act, q)'
    BY <1>1, <2>3 DEF HoldsAt, aggregate
  <2>5. ASSUME status = "running"
        PROVE  \/ \E c \in Phases, act \in Actions, q \in Phases \cup {None} :
                    Stands(stream, Len(stream), c, act, q) /\ HoldsAt(c, act, q)'
               \/ Rests(stream, Len(stream)) /\ Everything
    BY <2>4, <2>5 DEF RunInv, Ordered
  <2>6. /\ UNCHANGED <<stream, ended, status>> /\ Everything' = Everything
    BY <1>1 DEF Everything, aggregate
  <2> QED BY <1>1, <1>3, <2>2, <2>5, <2>6 DEF RunInv
<1>5. ListInv'
  BY <1>1 DEF ListInv, ListStands, Covered, Applied, Ordered, aggregate
<1>6. WithinBudget' /\ Whole'
  BY <1>1 DEF WithinBudget, Whole, Ordered, aggregate
<1> QED BY <1>1, <1>4, <1>5, <1>6 DEF Ordered

\* An empty list is the completion of the run: nothing is left to be done.
LEMMA ConcludeOrdered ==
  ASSUME RunTypeOK, Placed, Ordered, ~SetBack, Conclude, UNCHANGED shared
  PROVE  Ordered'
<1>1. /\ synced = Len(stream) /\ Pending(list) = {}
      /\ IF status = "running" THEN Record(<<Said("ended", Final)>>) /\ status' = "completed"
                               ELSE UNCHANGED <<stream, status>>
      /\ UNCHANGED <<attempts, completed, skipped>>
  BY DEF Conclude, Draining
<1>2. ASSUME status = "running" PROVE Everything
  <2>1. Applied = Len(stream) /\ Len(stream) \in Nat \ {0} /\ IsList(list)
    BY <1>1, AllApplied, TheList
  <2>2. \A c \in Phases, act \in Actions, q \in Phases \cup {None} : ~ListAt(list, c, act, q)
    BY <1>1, <2>1, ServedFirst
  <2>3. Rests(stream, Len(stream))
    BY <1>2, <2>1, <2>2 DEF Ordered, ListInv, ListStands
  <2>4. \A c, act, q : ~Stands(stream, Len(stream), c, act, q)
    <3>1. stream \in Seq(Event) /\ Lawful(stream) /\ Len(stream) \in 1..Len(stream)
      BY <2>1 DEF RunTypeOK, Ordered
    <3> QED BY <2>3, <3>1, RestsAlone
  <2> QED BY <1>2, <2>4 DEF RunInv, Ordered
<1>3. \A x \in Phases : attempts'[x] <= MaxPhaseAttempts
  BY <1>1, Budgeted
<1>4. Final \in Phases
  BY WorkflowAssumption DEF Phases
<1>5. /\ status' # "running" /\ (status' = "completed" => Everything \/ status = "completed")
      /\ UNCHANGED <<stream, status>> \/ \E p \in Phases : Record(<<Said("ended", p)>>)
  BY <1>1, <1>2, <1>4
<1> QED BY <1>1, <1>3, <1>5, Closes

LEMMA ShutDownOrdered ==
  ASSUME RunTypeOK, Ordered, ~SetBack, ShutDown, UNCHANGED shared
  PROVE  Ordered'
<1>1. /\ ended' = TRUE /\ workspaces' = {} /\ task' = None
      /\ \/ status = "running" /\ Record(<<Said("ended", Final)>>) /\ status' = "interrupted"
         \/ UNCHANGED <<stream, status>>
      /\ UNCHANGED <<running, attempts, completed, skipped, list, synced, delivered, shared>>
  BY DEF ShutDown, Return
<1>2. \A x \in Phases : attempts'[x] <= MaxPhaseAttempts
  BY <1>1, Budgeted
<1>3. Final \in Phases
  BY WorkflowAssumption DEF Phases
<1>4. CASE status' # "running"
  <2>1. /\ status' = "completed" => Everything \/ status = "completed"
        /\ UNCHANGED <<stream, status>> \/ \E p \in Phases : Record(<<Said("ended", p)>>)
    BY <1>1, <1>3
  <2> QED BY <1>1, <1>2, <1>4, <2>1, Closes
<1>5. CASE status' = "running"
  <2>1. UNCHANGED <<stream, status>>
    BY <1>1, <1>5
  <2>2. \A c, act, q : HoldsAt(c, act, q) => HoldsAt(c, act, q)'
    BY <1>1 DEF HoldsAt
  <2>3. RunInv'
    BY <1>1, <2>1, <2>2 DEF RunInv, Ordered, Everything
  <2>4. ListInv'
    BY <1>1, <2>1 DEF ListInv, ListStands, Covered, Applied, Ordered
  <2>5. WithinBudget' /\ Whole'
    BY <1>1, <2>1 DEF WithinBudget, Whole, Ordered
  <2> QED BY <2>1, <2>3, <2>4, <2>5 DEF Ordered
<1> QED BY <1>4, <1>5

-----------------------------------------------------------------------------
(* The writers of the list *)

\* The writer that leads takes the list from where the stream stood to where its
\* next event leads.
LEMMA LeaderServes ==
  ASSUME RunTypeOK, Placed, Ordered, status = "running", NEW m, m = Applied,
         NEW k, k = m + 1, k <= Len(stream), stream[k].kind # "ended"
  PROVE  LET new == Project(list, stream[k], Inherited)
         IN \/ \E c \in Phases, act \in Actions, q \in Phases \cup {None} :
                 Stands(stream, k, c, act, q) /\ ListAt(new, c, act, q)
            \/ Rests(stream, k) /\ ListRests(new)
<1> DEFINE e == stream[k]  new == Project(list, e, Inherited)
<1>0. /\ m \in Nat /\ k \in 1..Len(stream) /\ stream \in Seq(Event) /\ Lawful(stream)
      /\ e \in Event /\ e.phase \in Phases /\ IsList(list) /\ ListStands
  <2>1. stream \in Seq(Event) /\ synced \in Nat /\ delivered \in Nat /\ Len(stream) \in Nat
    BY DEF RunTypeOK
  <2>2. m \in Nat /\ k \in 1..Len(stream)
    BY <2>1 DEF Applied
  <2>3. e \in Event /\ e.phase \in Phases
    <3>1. stream[k] \in Event
      BY <2>1, <2>2
    <3> QED BY <3>1 DEF Event
  <2> QED BY <2>1, <2>2, <2>3, TheList DEF Ordered, ListInv
<1>1. CASE m = 0
  <2>1. k = 1 /\ e.kind = "started" /\ list = NoList /\ e = Said("started", e.phase)
    BY <1>0, <1>1 DEF Lawful, ListStands, Said, Event
  <2>2. new = StartTodo(NoList, e.phase, Inherited)
    BY <1>0, <2>1, Projections
  <2>3. \A p \in Inherited : p \in Phases /\ p < e.phase
    BY <2>1 DEF Inherited
  <2>4. ListAt(new, e.phase, "provision", None)
    BY <1>0, <2>2, <2>3, StartServes
  <2>5. Stands(stream, k, e.phase, "provision", None)
    BY <2>1 DEF Stands
  <2>6. "provision" \in Actions
    BY DEF Actions
  <2> HIDE DEF e, new
  <2> QED BY <1>0, <2>4, <2>5, <2>6 DEF e, new
<1>2. CASE m # 0
  <2>1. k \in Nat /\ k > 1 /\ k - 1 = m /\ m > 0 /\ k \in 2..Len(stream) /\ m \in 1..Len(stream)
    BY <1>0, <1>2
  <2>2. Legal(stream, k)
    BY <1>0, <2>1 DEF Lawful
  <2>3. ASSUME NEW c \in Phases, NEW act \in Actions, NEW q \in Phases \cup {None},
               Stands(stream, m, c, act, q)
        PROVE  ListAt(list, c, act, q)
    <3>1. ~Rests(stream, m)
      BY <1>0, <2>1, <2>3, RestsAlone
    <3>2. PICK d \in Phases, other \in Actions, r \in Phases \cup {None} :
            Stands(stream, m, d, other, r) /\ ListAt(list, d, other, r)
      BY <1>0, <2>1, <3>1 DEF ListStands
    <3> QED BY <2>3, <3>2, StandsOnce
  <2>4. PICK c \in Phases :
          \/ /\ e = Said("provisioned", c)
             /\ Stands(stream, m, c, "provision", None) /\ Stands(stream, k, c, "run", None)
          \/ /\ e = Said("agentCompleted", c)
             /\ Stands(stream, m, c, "run", None) /\ Stands(stream, k, c, "collect", None)
          \/ /\ e = Said("retry", c)
             /\ Stands(stream, m, c, "run", None) /\ Stands(stream, k, c, "provision", None)
          \/ /\ e = Said("collected", c)
             /\ Stands(stream, m, c, "collect", None) /\ Stands(stream, k, c, "complete", None)
          \/ \E q \in Phases :
               /\ e = Said("nextReady", q) /\ c < q
               /\ Stands(stream, m, c, "complete", None) /\ Stands(stream, k, c, "complete", q)
          \/ \E q \in Phases :
               /\ e = Said("completed", c) /\ c < q
               /\ Stands(stream, m, c, "complete", q) /\ Stands(stream, k, q, "provision", None)
          \/ /\ c = Final /\ e = Said("completed", c)
             /\ Stands(stream, m, c, "complete", None) /\ Rests(stream, k)
    BY <2>1, <2>2, Leads
  <2>5. /\ "provision" \in Actions /\ "run" \in Actions /\ "collect" \in Actions /\ "complete" \in Actions
        /\ \A q \in Phases : Todo("provision", q) \in Item
    BY ItemsAre DEF Actions
  <2> SUFFICES \/ \E d \in Phases, act \in Actions, q \in Phases \cup {None} :
                    Stands(stream, k, d, act, q) /\ ListAt(new, d, act, q)
               \/ Rests(stream, k) /\ ListRests(new)
    OBVIOUS
  <2> HIDE DEF e
  <2>6. CASE /\ e = Said("provisioned", c)
             /\ Stands(stream, m, c, "provision", None) /\ Stands(stream, k, c, "run", None)
    <3>1. new = AdvanceTodo(list, Todo("run", c))
      BY <1>0, <2>6, Events, Projections
    <3> HIDE DEF new
    <3>2. ListAt(new, c, "run", None)
      BY <1>0, <2>3, <2>5, <2>6, <3>1, Numbers, AdvanceServes
    <3> QED BY <2>5, <2>6, <3>2
  <2>7. CASE /\ e = Said("agentCompleted", c)
             /\ Stands(stream, m, c, "run", None) /\ Stands(stream, k, c, "collect", None)
    <3>1. new = AdvanceTodo(list, Todo("collect", c))
      BY <1>0, <2>7, Events, Projections
    <3> HIDE DEF new
    <3>2. ListAt(new, c, "collect", None)
      BY <1>0, <2>3, <2>5, <2>7, <3>1, Numbers, AdvanceServes
    <3> QED BY <2>5, <2>7, <3>2
  <2>8. CASE /\ e = Said("retry", c)
             /\ Stands(stream, m, c, "run", None) /\ Stands(stream, k, c, "provision", None)
    <3>1. new = RetryTodo(list, c)
      BY <1>0, <2>8, Events, Projections
    <3> HIDE DEF new
    <3>2. ListAt(new, c, "provision", None)
      BY <1>0, <2>3, <2>5, <2>8, <3>1, RetryServes
    <3> QED BY <2>5, <2>8, <3>2
  <2>9. CASE /\ e = Said("collected", c)
             /\ Stands(stream, m, c, "collect", None) /\ Stands(stream, k, c, "complete", None)
    <3>1. new = AdvanceTodo(list, Todo("complete", c))
      BY <1>0, <2>9, Events, Projections
    <3> HIDE DEF new
    <3>2. ListAt(new, c, "complete", None)
      BY <1>0, <2>3, <2>5, <2>9, <3>1, Numbers, AdvanceServes
    <3> QED BY <2>5, <2>9, <3>2
  <2>10. CASE \E q \in Phases :
               /\ e = Said("nextReady", q) /\ c < q
               /\ Stands(stream, m, c, "complete", None) /\ Stands(stream, k, c, "complete", q)
    <3>1. PICK q \in Phases :
               /\ e = Said("nextReady", q) /\ c < q
               /\ Stands(stream, m, c, "complete", None) /\ Stands(stream, k, c, "complete", q)
      BY <2>10
    <3>2. new = NextTodo(list, q)
      BY <1>0, <3>1, Events, Projections
    <3> HIDE DEF new
    <3>3. ListAt(new, c, "complete", q)
      BY <1>0, <2>3, <2>5, <3>1, <3>2, NextServes
    <3> QED BY <2>5, <3>1, <3>3
  <2>11. CASE \E q \in Phases :
               /\ e = Said("completed", c) /\ c < q
               /\ Stands(stream, m, c, "complete", q) /\ Stands(stream, k, q, "provision", None)
    <3>1. PICK q \in Phases :
               /\ e = Said("completed", c) /\ c < q
               /\ Stands(stream, m, c, "complete", q) /\ Stands(stream, k, q, "provision", None)
      BY <2>11
    <3>2. new = CompleteTodo(list, c)
      BY <1>0, <3>1, Events, Projections
    <3> HIDE DEF new
    <3>3. ListAt(new, q, "provision", None)
      BY <1>0, <2>3, <2>5, <3>1, <3>2, CompleteServes
    <3> QED BY <2>5, <3>1, <3>3
  <2>12. CASE /\ c = Final /\ e = Said("completed", c)
              /\ Stands(stream, m, c, "complete", None) /\ Rests(stream, k)
    <3>1. new = CompleteTodo(list, c)
      BY <1>0, <2>12, Events, Projections
    <3> HIDE DEF new
    <3>2. ListRests(new)
      BY <1>0, <2>3, <2>5, <2>12, <3>1, CompleteRests
    <3> QED BY <2>12, <3>2
  <2> QED BY <2>4, <2>6, <2>7, <2>8, <2>9, <2>10, <2>11, <2>12
<1> QED BY <1>1, <1>2

\* Whichever writer projects, whatever it projects, the list stands where it has
\* seen the stream to: the leader moves it there, the other leaves it there.
LEMMA ProjectionStands ==
  ASSUME RunTypeOK, Placed, Sound, Ordered, ~SetBack, status = "running", NEW m, m = Applied,
         NEW k \in 1..Len(stream), list' = Project(list, stream[k], Inherited),
         UNCHANGED <<stream, status, shared>>,
         (k = m + 1 /\ Applied' = k) \/ (shared /\ k <= m /\ Applied' = m)
  PROVE  ListInv'
<1> DEFINE e == stream[k]
<1>0. /\ m \in 0..Len(stream) /\ Len(stream) \in Nat /\ k \in Nat /\ stream \in Seq(Event)
      /\ \A i \in 1..Len(stream) : stream[i] \in Event
      /\ IsList(list) /\ ListStands /\ (shared => Covered)
  <2>1. /\ stream \in Seq(Event) /\ synced \in 0..Len(stream) /\ delivered \in 0..Len(stream)
        /\ Len(stream) \in Nat
    BY DEF RunTypeOK
  <2>2. m \in 0..Len(stream) /\ k \in Nat
    BY <2>1 DEF Applied
  <2>3. \A i \in 1..Len(stream) : stream[i] \in Event
    BY <2>1
  <2> QED BY <2>1, <2>2, <2>3, TheList DEF Ordered, ListInv
<1>1. /\ e \in Event /\ e.kind # "ended" /\ e.phase \in Phases
      /\ shared => \A i \in 1..Len(stream) : stream[i].kind \notin {"retry", "ended"}
  <2>1. \A i \in 1..Len(stream) : stream[i].kind # "ended"
    BY <1>0 DEF Sound, Remembers
  <2>2. shared => \A i \in 1..Len(stream) : stream[i].kind # "retry"
    BY <1>0 DEF SetBack
  <2>3. e \in Event
    BY <1>0
  <2>4. e.phase \in Phases
    BY <2>3 DEF Event
  <2> QED BY <2>1, <2>2, <2>3, <2>4
<1>2. \A i \in 1..Len(stream) : stream[i].phase \in Phases /\ RankOf[stream[i].kind] \in Nat
  <2> SUFFICES ASSUME NEW i \in 1..Len(stream)
               PROVE  stream[i].phase \in Phases /\ RankOf[stream[i].kind] \in Nat
    OBVIOUS
  <2>1. stream[i] \in Event
    BY <1>0
  <2> QED BY <2>1 DEF Event, Kinds, RankOf, Done
<1>3. IsList(list') /\ \A p \in Phases : list.progress[p] \in Nat /\ list'.progress[p] \in Nat
  <2>1. IsList(list')
    BY <1>0, <1>1, ProjectedIsList
  <2> QED BY <1>0, <2>1, PendingIs DEF Done
<1>4. CASE k = m + 1 /\ Applied' = k
  <2>1. \/ \E c \in Phases, act \in Actions, q \in Phases \cup {None} :
             Stands(stream, k, c, act, q) /\ ListAt(list', c, act, q)
        \/ Rests(stream, k) /\ ListRests(list')
    BY <1>1, <1>4, LeaderServes
  <2>2. ListStands'
    BY <1>4, <2>1 DEF ListStands
  <2>3. ASSUME shared PROVE Covered'
    <3> SUFFICES ASSUME NEW i \in 1..k
                 PROVE  RankOf[stream[i].kind] <= list'.progress[stream[i].phase]
      BY <1>4 DEF Covered
    <3>1. /\ list'.progress[e.phase] >= RankOf[e.kind]
          /\ \A p \in Phases : list'.progress[p] >= list.progress[p]
      BY <1>0, <1>1, <2>3, MarksGrow
    <3>2. CASE i = k
      BY <1>1, <1>2, <1>3, <3>1, <3>2
    <3>3. CASE i # k
      <4>1. i \in 1..m /\ i \in 1..Len(stream)
        BY <1>0, <1>4, <3>3
      <4>2. RankOf[stream[i].kind] <= list.progress[stream[i].phase]
        BY <1>0, <2>3, <4>1 DEF Covered
      <4>3. /\ stream[i].phase \in Phases /\ RankOf[stream[i].kind] \in Nat
            /\ list'.progress[stream[i].phase] >= list.progress[stream[i].phase]
        BY <1>2, <3>1, <4>1
      <4> QED BY <1>3, <4>2, <4>3
    <3> QED BY <3>2, <3>3
  <2> QED BY <2>2, <2>3 DEF ListInv
<1>5. CASE shared /\ k <= m /\ Applied' = m
  <2>1. /\ e.kind \notin {"retry", "ended"} /\ RankOf[e.kind] <= list.progress[e.phase]
        /\ m > 0 /\ Covered
    BY <1>0, <1>1, <1>5 DEF Covered
  <2>2. list'.progress = list.progress
    BY <1>0, <1>1, <2>1, LateProjection
  <2>3. Covered'
    BY <1>5, <2>1, <2>2 DEF Covered
  <2>4. ASSUME NEW c \in Phases, NEW act \in Actions, NEW q \in Phases \cup {None},
               Stands(stream, m, c, act, q), ListAt(list, c, act, q)
        PROVE  ListStands'
    <3>1. q \in Phases => act = "complete" /\ c < q
      BY <2>4, StandsFor
    <3>2. ListAt(list', c, act, q)
      BY <1>0, <1>1, <2>1, <2>4, <3>1, LateServes
    <3> QED BY <1>5, <2>1, <2>4, <3>2 DEF ListStands
  <2>5. ASSUME Rests(stream, m), ListRests(list) PROVE ListStands'
    <3>1. ListRests(list')
      BY <1>0, <1>1, <2>1, <2>5, LateRests
    <3> QED BY <1>5, <2>1, <2>5, <3>1 DEF ListStands
  <2>6. ListStands'
    BY <1>0, <2>1, <2>4, <2>5 DEF ListStands
  <2> QED BY <2>3, <2>6 DEF ListInv
<1> QED BY <1>4, <1>5

LEMMA WritersOrdered ==
  ASSUME RunTypeOK, Placed, Sound, OwnInv, Ordered, ~SetBack, Sync \/ Deliver, UNCHANGED shared
  PROVE  Ordered'
<1>0. /\ stream \in Seq(Event) /\ Len(stream) \in Nat
      /\ synced \in 0..Len(stream) /\ delivered \in 0..Len(stream)
      /\ UNCHANGED <<stream, aggregate, task, workspaces, ended, shared>>
  BY DEF RunTypeOK, Sync, Deliver
<1>1. PICK m : m = Applied
  OBVIOUS
<1>2. ASSUME status = "running" PROVE ListInv'
  <2>1. CASE Sync
    <3>1. /\ synced + 1 \in 1..Len(stream) /\ synced' = synced + 1 /\ delivered' = delivered
          /\ list' = Project(list, stream[synced + 1], Inherited)
      BY <1>0, <2>1 DEF Sync
    <3>2. \/ synced + 1 = m + 1 /\ Applied' = synced + 1
          \/ shared /\ synced + 1 <= m /\ Applied' = m
      BY <1>0, <1>1, <3>1 DEF Applied, OwnInv
    <3> QED BY <1>0, <1>1, <1>2, <3>1, <3>2, ProjectionStands DEF aggregate
  <2>2. CASE Deliver
    <3>1. /\ delivered + 1 \in 1..Len(stream) /\ delivered' = delivered + 1 /\ synced' = synced
          /\ shared /\ list' = Project(list, stream[delivered + 1], Inherited)
      BY <1>0, <2>2 DEF Deliver
    <3>2. \/ delivered + 1 = m + 1 /\ Applied' = delivered + 1
          \/ shared /\ delivered + 1 <= m /\ Applied' = m
      BY <1>0, <1>1, <3>1 DEF Applied
    <3> QED BY <1>0, <1>1, <1>2, <3>1, <3>2, ProjectionStands DEF aggregate
  <2> QED BY <2>1, <2>2
<1>3. ListInv'
  BY <1>0, <1>2 DEF ListInv, aggregate
<1>4. RunInv'
  BY <1>0 DEF RunInv, Ordered, HoldsAt, Closing, Everything, aggregate
<1>5. WithinBudget' /\ Whole'
  BY <1>0 DEF WithinBudget, Whole, Ordered, aggregate
<1> QED BY <1>0, <1>3, <1>4, <1>5 DEF Ordered

-----------------------------------------------------------------------------
(* The run *)

LEMMA OrderedInitially == RunInit => OwnInv /\ (ended => task = None) /\ Ordered
<1> SUFFICES ASSUME RunInit PROVE OwnInv /\ (ended => task = None) /\ Ordered
  OBVIOUS
<1>1. PICK at \in Phases :
        /\ stream = <<Said("started", at)>>
        /\ \E over : /\ over = {} \/ \E r \in Phases : at = Final /\ over = Jumped(r)
                     /\ completed = (1..(at - 1)) \ over /\ skipped = over
  <2>1. PICK at \in Phases :
          \E over \in {{}} \cup {Jumped(r) : r \in IF at = Final THEN Reviews ELSE {}} :
            stream = <<Said("started", at)>> /\ completed = (1..(at - 1)) \ over /\ skipped = over
    BY DEF RunInit
  <2> QED BY <2>1, WorkflowAssumption
<1>2. /\ status = "running" /\ running = None /\ attempts = [p \in Phases |-> 0]
      /\ list = NoList /\ synced = 0 /\ delivered = 0 /\ task = None /\ workspaces = {}
      /\ ended = FALSE
  BY DEF RunInit
<1>3. Len(stream) = 1 /\ stream[1] = Said("started", at) /\ stream[1].kind = "started"
  BY <1>1, Events
<1>4. at \in Nat /\ \A p \in Phases : p \in 1..Final /\ p \in Nat
  BY WorkflowAssumption DEF Phases
<1>5. /\ completed \cup skipped = (1..(at - 1)) \cup skipped /\ completed \cap skipped = {}
      /\ completed \subseteq 1..(at - 1)
  BY <1>1
<1>6. \A p \in skipped : p < at
  <2>1. \A r \in Phases : Jumped(r) \subseteq 1..(Final - 1)
    BY <1>4, WorkflowAssumption DEF Jumped
  <2>2. skipped = {} \/ (at = Final /\ skipped \subseteq 1..(Final - 1))
    BY <1>1, <2>1
  <2> QED BY <1>4, <2>2, WorkflowAssumption
<1>7. HoldsAt(at, "provision", None)
  <2>1. \A p \in Phases : p < at => p \in completed \cup skipped
    BY <1>4, <1>5
  <2>2. \A p \in completed : p < at
    BY <1>4, <1>5
  <2>3. \A p \in skipped : ~(p >= at)
    <3> SUFFICES ASSUME NEW p \in skipped, p >= at PROVE FALSE
      OBVIOUS
    <3>1. p \in Nat /\ p < at
      BY <1>4, <1>6, TypesInitially DEF RunTypeOK
    <3> QED BY <1>4, <3>1
  <2>4. None \notin Phases /\ \A p \in Phases : attempts[p] = 0
    BY <1>2, WorkflowAssumption
  <2> QED BY <1>2, <2>1, <2>2, <2>3, <2>4 DEF HoldsAt, Closing, MaxPhaseAttempts
<1>8. Stands(stream, 1, at, "provision", None) /\ "provision" \in Actions
  BY <1>3 DEF Stands, Actions
<1>9. Lawful(stream)
  BY <1>3 DEF Lawful
<1>10. RunInv
  BY <1>2, <1>3, <1>7, <1>8 DEF RunInv
<1>11. ListInv
  BY <1>2 DEF ListInv, ListStands, Covered, Applied
<1>12. WithinBudget /\ Whole
  BY <1>2, <1>5 DEF WithinBudget, Whole, MaxPhaseAttempts
<1>13. OwnInv
  BY <1>2 DEF OwnInv
<1> QED BY <1>2, <1>9, <1>10, <1>11, <1>12, <1>13 DEF Ordered

\* A retry, once it is in the stream of a shared list, stays there.
LEMMA SetBackStays ==
  ASSUME RunTypeOK, SetBack, [RunNext]_runVars
  PROVE  SetBack'
<1>1. PICK i \in 1..Len(stream) : shared /\ stream[i].kind = "retry"
  BY DEF SetBack, RunTypeOK
<1>2. shared'
  BY <1>1 DEF RunNext, runVars
<1>3. /\ Len(stream) \in Nat /\ Len(stream') \in Nat /\ Len(stream) <= Len(stream')
      /\ stream' \in Seq(Event) /\ stream'[i] = stream[i]
  <2>0. stream \in Seq(Event) /\ stream' \in Seq(Event)
    <3>1. CASE UNCHANGED stream
      BY <3>1 DEF RunTypeOK
    <3>2. CASE Records
      BY <3>2, Lengthened, LengthenedTwice DEF RunTypeOK, Records
    <3>3. UNCHANGED stream \/ Records
      BY HandlersRecord DEF RunNext, Step, Sync, Deliver, Read, runVars, moving
    <3> QED BY <3>1, <3>2, <3>3 DEF RunTypeOK
  <2>1. CASE UNCHANGED stream
    BY <2>0, <2>1
  <2>2. CASE Records
    BY <1>1, <2>0, <2>2, RecordsExtend
  <2>3. UNCHANGED stream \/ Records
    BY HandlersRecord DEF RunNext, Step, Sync, Deliver, Read, runVars, moving
  <2> QED BY <2>1, <2>2, <2>3
<1>4. i \in DOMAIN stream'
  BY <1>3
<1> QED BY <1>1, <1>2, <1>3, <1>4 DEF SetBack

LEMMA OrderedStep ==
  ASSUME Typed, OwnInv, Ordered, ~SetBack, [RunNext]_runVars
  PROVE  Ordered'
<1> USE DEF Typed
<1>1. CASE (Sync \/ Deliver) /\ UNCHANGED shared
  BY <1>1, WritersOrdered
<1>2. CASE Read /\ UNCHANGED shared
  BY <1>2, ReadOrdered
<1>3. CASE Conclude /\ UNCHANGED shared
  BY <1>3, ConcludeOrdered
<1>4. CASE ShutDown /\ UNCHANGED shared
  BY <1>4, ShutDownOrdered
<1>5. ASSUME NEW p \in Phases, Handle(p), UNCHANGED shared PROVE Ordered'
  BY <1>5, ProvisionOrdered, FinishOrdered, RetryOrdered, CollectOrdered, CompleteOrdered,
     FinalizeOrdered, EndingsOrdered DEF Handle
<1>6. CASE UNCHANGED runVars
  <2>1. UNCHANGED <<stream, aggregate, list, synced, delivered, task, workspaces, ended, shared>>
    BY <1>6 DEF runVars, moving
  <2>2. RunInv'
    BY <2>1 DEF RunInv, Ordered, HoldsAt, Closing, Everything, aggregate
  <2>3. ListInv'
    BY <2>1 DEF ListInv, ListStands, Covered, Applied, Ordered, aggregate
  <2>4. WithinBudget' /\ Whole'
    BY <2>1 DEF WithinBudget, Whole, Ordered, aggregate
  <2> QED BY <2>1, <2>2, <2>3, <2>4 DEF Ordered
<1> QED BY <1>1, <1>2, <1>3, <1>4, <1>5, <1>6 DEF RunNext, Step

LEMMA OrderInvHolds == RunSpec => []OrderInv
<1>1. RunInit => OrderInv
  BY SoundInitially, TypesInitially, OrderedInitially DEF OrderInv, Typed
<1>2. OrderInv /\ [RunNext]_runVars => OrderInv'
  <2> SUFFICES ASSUME OrderInv, [RunNext]_runVars PROVE OrderInv'
    OBVIOUS
  <2>1. Typed'
    BY SoundStep, TypesStep DEF OrderInv, Typed
  <2>2. OwnInv' /\ (ended => task = None)'
    BY OwnStep DEF OrderInv, Typed
  <2>3. ~SetBack' => Ordered'
    BY SetBackStays, OrderedStep DEF OrderInv, Typed
  <2> QED BY <2>1, <2>2, <2>3 DEF OrderInv
<1> QED BY <1>1, <1>2, PTL DEF RunSpec

\* No phase is started more than twice, whatever fails and whoever writes the
\* list, as long as no late subscription sets a retried phase back.
THEOREM BudgetHolds == RunSpec => []WithinBudget
<1>1. OrderInv => WithinBudget
  BY DEF OrderInv, Ordered, WithinBudget
<1> QED BY <1>1, OrderInvHolds, PTL

\* A run is reported complete only with every phase completed or skipped and the
\* last one run, though all that tells the processor is an empty list.
THEOREM WholeHolds == RunSpec => []Whole
<1>1. OrderInv => Whole
  BY DEF OrderInv, Ordered, Whole
<1> QED BY <1>1, OrderInvHolds, PTL

\* The processor begins a phase with every phase before it completed or skipped and
\* no other workspace held.
THEOREM BeginsInOrderHolds == RunSpec => []BeginsInOrder
<1>1. OrderInv => BeginsInOrder
  <2> SUFFICES ASSUME OrderInv, task # None, task.action = "provision", status = "running", ~SetBack
               PROVE  workspaces = {} /\ \A q \in 1..(task.phase - 1) : q \in completed \cup skipped
    BY DEF BeginsInOrder
  <2>1. PICK n : n = Len(stream)
    OBVIOUS
  <2>2. RunTypeOK /\ Ordered /\ task \in Task
    BY DEF OrderInv, Typed, RunTypeOK
  <2>3. task = Todo("provision", task.phase) /\ task.phase \in Phases /\ "provision" \in Actions
    BY <2>2 DEF Todo, Task, Actions
  <2>4. ~ended /\ Closing = {} /\ \E q \in Phases \cup {None} : HoldsAt(task.phase, "provision", q)
    BY <2>1, <2>2, <2>3, InHand
  <2>5. workspaces = {} /\ \A p \in Phases : p < task.phase => p \in completed \cup skipped
    BY <2>4 DEF HoldsAt
  <2>6. \A q \in 1..(task.phase - 1) : q \in Phases /\ q < task.phase
    BY <2>3, WorkflowAssumption DEF Phases
  <2> QED BY <2>5, <2>6
<1> QED BY <1>1, OrderInvHolds, PTL

\* The item in hand is what the stream last said of its phase: whatever the late
\* writer of a shared list brings back while the run goes on, and without one even
\* after its end, when there is none.
THEOREM NeverStaleHolds == RunSpec => []NeverStale
<1>1. OrderInv => NeverStale
  <2> SUFFICES ASSUME OrderInv, ~shared \/ (status = "running" /\ ~SetBack), task # None
               PROVE  /\ status = "running"
                      /\ \E kind \in DOMAIN Follows :
                           /\ LastSaid(task.phase, Said(kind, task.phase))
                           /\ task.action = Follows[kind]
    BY DEF NeverStale, Fresh
  <2> DEFINE p == task.phase  act == task.action
  <2>0. /\ status = "running" /\ RunTypeOK /\ Ordered /\ stream \in Seq(Event)
        /\ p \in Phases
    BY DEF OrderInv, Typed, OwnInv, SetBack, RunTypeOK, Task
  <2>1. PICK n \in Nat \ {0} : n = Len(stream)
    BY <2>0 DEF Ordered, Lawful
  <2>2. \/ act = "finalize" /\ stream[n] = Said("completed", p)
        \/ \E q \in Phases \cup {None} : Stands(stream, n, p, act, q)
    BY <2>0, <2>1 DEF Ordered, RunInv
  <2>3. /\ n \in DOMAIN stream /\ \A j \in DOMAIN stream : j \in Nat /\ j <= n
        /\ n > 1 => n - 1 \in DOMAIN stream
    BY <2>0, <2>1
  <2>4. ASSUME NEW kind \in DOMAIN Follows, stream[n] = Said(kind, p)
        PROVE  LastSaid(p, Said(kind, p))
    BY <2>3, <2>4, Events DEF LastSaid
  <2>5. ASSUME NEW kind \in DOMAIN Follows, n > 1, stream[n - 1] = Said(kind, p), stream[n].phase # p
        PROVE  LastSaid(p, Said(kind, p))
    <3>1. \A j \in DOMAIN stream : n - 1 < j => j = n
      BY <2>3
    <3> QED BY <2>3, <2>5, <3>1, Events DEF LastSaid
  <2>6. /\ DOMAIN Follows = {"started", "nextReady", "retry", "provisioned", "agentCompleted", "collected",
                            "completed"}
        /\ Follows["completed"] = "finalize"
        /\ Follows["started"] = "provision" /\ Follows["nextReady"] = "provision"
        /\ Follows["retry"] = "provision" /\ Follows["provisioned"] = "run"
        /\ Follows["agentCompleted"] = "collect" /\ Follows["collected"] = "complete"
    BY DEF Follows
  <2> HIDE DEF p, act
  <2>7. CASE \E kind \in DOMAIN Follows : stream[n] = Said(kind, p) /\ act = Follows[kind]
    BY <2>0, <2>4, <2>7 DEF p, act
  <2>8. CASE stream[n].kind = "completed" /\ n > 1 /\ stream[n - 1] = Said("nextReady", p) /\ act = "provision"
    <3>1. n \in 2..Len(stream)
      BY <2>1, <2>8
    <3>2. Legal(stream, n)
      BY <2>0, <2>8, <3>1 DEF Ordered, Lawful
    <3>3. PICK c \in Phases, r \in Phases \cup {None} :
            stream[n] = Said("completed", c) /\ Stands(stream, n - 1, c, "complete", r)
      BY <2>1, <2>8, <3>2, Leads, Events
    <3>4. c < p
      BY <2>8, <3>3, Events DEF Stands
    <3>5. stream[n].phase # p
      BY <2>0, <3>3, <3>4, Events, Numbers DEF p
    <3>6. LastSaid(p, Said("nextReady", p))
      BY <2>5, <2>6, <2>8, <3>5
    <3> QED BY <2>0, <2>6, <2>8, <3>6 DEF p, act
  <2>9. ASSUME NEW q \in Phases, act = "complete", p < q, n > 1,
               stream[n] = Said("nextReady", q), stream[n - 1] = Said("collected", p)
        PROVE  \E kind \in DOMAIN Follows :
                 LastSaid(task.phase, Said(kind, task.phase)) /\ task.action = Follows[kind]
    <3>1. stream[n].phase # p
      BY <2>0, <2>9, Events, Numbers DEF p
    <3>2. LastSaid(p, Said("collected", p))
      BY <2>5, <2>6, <2>9, <3>1
    <3> QED BY <2>0, <2>6, <2>9, <3>2 DEF p, act
  <2>10. \/ \E kind \in DOMAIN Follows : stream[n] = Said(kind, p) /\ act = Follows[kind]
         \/ stream[n].kind = "completed" /\ n > 1 /\ stream[n - 1] = Said("nextReady", p) /\ act = "provision"
         \/ \E q \in Phases :
              /\ act = "complete" /\ p < q /\ n > 1
              /\ stream[n] = Said("nextReady", q) /\ stream[n - 1] = Said("collected", p)
    <3>1. CASE act = "finalize" /\ stream[n] = Said("completed", p)
      BY <2>6, <3>1
    <3>2. CASE \E q \in Phases \cup {None} : Stands(stream, n, p, act, q)
      BY <2>6, <3>2 DEF Stands
    <3> QED BY <2>2, <3>1, <3>2
  <2>11. CASE \E q \in Phases :
                /\ act = "complete" /\ p < q /\ n > 1
                /\ stream[n] = Said("nextReady", q) /\ stream[n - 1] = Said("collected", p)
    <3>1. PICK q \in Phases :
            /\ act = "complete" /\ p < q /\ n > 1
            /\ stream[n] = Said("nextReady", q) /\ stream[n - 1] = Said("collected", p)
      BY <2>11
    <3> QED BY <2>0, <2>9, <3>1
  <2> QED BY <2>7, <2>8, <2>10, <2>11
<1> QED BY <1>1, OrderInvHolds, PTL
=============================================================================
