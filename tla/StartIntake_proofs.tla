-------------------------- MODULE StartIntake_proofs --------------------------
(***************************************************************************)
(* The intake keeps the promise of StartPromise for any number of starts,  *)
(* crashes, pauses and failed attempts: nothing comes into being while     *)
(* admission is paused, nothing unasked for, nothing twice, and no resume  *)
(* that a cancel has called off runs.                                      *)
(*                                                                         *)
(* The argument is the count of the leases: the gate closes at zero, zero  *)
(* means that no task stands between its slot and its stream, and none     *)
(* enters while it is closed.                                              *)
(***************************************************************************)
EXTENDS StartIntake, FiniteSetTheorems, TLAPS

TaskStages == {"none", "queued", "rechecking", "running"} \union Leased

\* The types the argument rests on.
Shapes ==
  /\ asked \in [Starts -> {"none", "asked", "withdrawn"}]
  /\ at \in [Starts -> TaskStages]
  /\ post \in [Starts -> {"none", "admitted", "recorded"}]
  /\ opened \subseteq Starts /\ ran \subseteq opened
  /\ calledOff \subseteq Starts /\ asking \subseteq Starts
  /\ mode \in {"open", "paused"} /\ outstanding \in Nat

\* A drain works on real starts, and admits only one that was asked for.
DrainSound(d) ==
  /\ d = [step |-> d.step, todo |-> d.todo, now |-> d.now, stamp |-> d.stamp]
  /\ \A entry \in d.todo: entry[1] \in Starts
  /\ d.step \in {"offering", "admitting"} => d.now \in Starts
  /\ d.step = "admitting" => asked[d.now] # "none"

DrainsSound ==
  /\ drain = [l \in Lists |-> drain[l]]
  /\ \A l \in Lists: DrainSound(drain[l])

\* Between its slot and its stream a start holds a lease, and the gate is open.
GateSound ==
  /\ LeaseCount
  /\ mode = "paused" => LeasedStarts = {}

\* Every claim stands for a request, and every cancel for a withdrawal.
ClaimsSound ==
  /\ \A s \in Starts: at[s] # "none" => asked[s] # "none"
  /\ \A s \in Starts: post[s] = "admitted" => s \in Direct /\ asked[s] = "none"
  /\ \A s \in Starts: post[s] = "recorded" => asked[s] # "none"
  /\ \A s \in asking \union calledOff: asked[s] = "withdrawn"
  /\ \A s \in Starts: at[s] = "rechecking" => s \in (Resumes \intersect opened) \ ran

Sound == Shapes /\ DrainsSound /\ GateSound /\ ClaimsSound

\* No start has two places in the budget, and one past the queue has a slot.
BudgetSound ==
  /\ running \in SUBSET Starts /\ waiting \in Seq(Starts)
  /\ \A i, j \in DOMAIN waiting: waiting[i] = waiting[j] => i = j
  /\ \A i \in DOMAIN waiting: waiting[i] \notin running
  /\ \A s \in Starts: at[s] \notin {"none", "queued"} => s \in running
  /\ ClaimsAreTasks

PromiseStep == [Promise!PromiseNext]_(Promise!promiseVars)

USE DEF TaskStages, Leased, managers

----------------------------------------------------------------------------
(* The leases.                                                             *)

\* What one task's step does to the set of leased starts.
LEMMA LeasedMove ==
  ASSUME Shapes, NEW s \in Starts, NEW stage \in TaskStages, at' = [at EXCEPT ![s] = stage]
  PROVE  /\ at' \in [Starts -> TaskStages]
         /\ LeasedStarts' = IF stage \in Leased THEN LeasedStarts \union {s} ELSE LeasedStarts \ {s}
         /\ \A t \in Starts: at'[t] = IF t = s THEN stage ELSE at[t]
  BY DEF Shapes, LeasedStarts

LEMMA LeasedFinite ==
  IsFiniteSet(LeasedStarts) /\ Cardinality(LeasedStarts) \in Nat
<1>1. LeasedStarts \in SUBSET Starts
  BY DEF LeasedStarts
<1>2. IsFiniteSet(LeasedStarts)
  BY <1>1, IntakeAssumption, FS_Subset
<1> QED BY <1>2, FS_CardinalityType

\* A task that keeps its lease, or stays without one.
LEMMA LeaseKept ==
  ASSUME Sound, NEW s \in Starts, NEW stage \in TaskStages, at' = [at EXCEPT ![s] = stage],
         at[s] \in Leased <=> stage \in Leased,
         outstanding' = outstanding, mode' = mode
  PROVE  GateSound'
<1>1. LeasedStarts' = LeasedStarts
  BY LeasedMove DEF Sound, LeasedStarts, Shapes
<1> QED BY <1>1 DEF Sound, GateSound, LeaseCount

\* A task that gives its lease back.
LEMMA LeaseReturned ==
  ASSUME Sound, NEW s \in Starts, NEW stage \in TaskStages, at' = [at EXCEPT ![s] = stage],
         at[s] \in Leased, stage \notin Leased,
         outstanding' = outstanding - 1, mode' = mode
  PROVE  GateSound' /\ outstanding' \in Nat
<1>1. LeasedStarts' = LeasedStarts \ {s} /\ s \in LeasedStarts
  BY LeasedMove DEF Sound, LeasedStarts
<1>2. Cardinality(LeasedStarts') = Cardinality(LeasedStarts) - 1
  BY <1>1, LeasedFinite, FS_RemoveElement
<1>3. IsFiniteSet(LeasedStarts') /\ Cardinality(LeasedStarts') \in Nat
  BY <1>1, LeasedFinite, FS_RemoveElement, FS_CardinalityType
<1> QED BY <1>1, <1>2, <1>3 DEF Sound, GateSound, LeaseCount

\* Nothing is leased, so a task that holds no lease moves freely.
LEMMA GateUntouched ==
  ASSUME Sound, at' = at, outstanding' = outstanding, mode' = mode
  PROVE  GateSound'
  BY DEF Sound, GateSound, LeaseCount, LeasedStarts

----------------------------------------------------------------------------
(* The budget.                                                             *)

\* One slot freed, or one start joined: no slot is left empty over the queue.
LEMMA GrantExact ==
  ASSUME NEW slots \in SUBSET Starts, NEW queue \in Seq(Starts),
         \A i, j \in DOMAIN queue: queue[i] = queue[j] => i = j,
         \A i \in DOMAIN queue: queue[i] \notin slots,
         Cardinality(slots) <= Limit,
         Len(queue) > 1 => Cardinality(slots) >= Limit - 1,
         Grant(slots, queue)
  PROVE  /\ running' \in SUBSET Starts /\ waiting' \in Seq(Starts)
         /\ \A i, j \in DOMAIN waiting': waiting'[i] = waiting'[j] => i = j
         /\ \A i \in DOMAIN waiting': waiting'[i] \notin running'
         /\ slots \subseteq running'
         /\ running' \union {waiting'[i] : i \in DOMAIN waiting'}
              = slots \union {queue[i] : i \in DOMAIN queue}
         /\ Cardinality(running') <= Limit
         /\ waiting' # <<>> => Cardinality(running') = Limit
<1>1. IsFiniteSet(slots) /\ Cardinality(slots) \in Nat /\ Limit \in Nat
  BY IntakeAssumption, FS_Subset, FS_CardinalityType
<1>2. CASE queue # <<>> /\ Cardinality(slots) < Limit
  <2> DEFINE h == Head(queue)
             rest == Tail(queue)
  <2>1. running' = slots \union {h} /\ waiting' = rest
    BY <1>2 DEF Grant
  <2>2. /\ Len(queue) \in Nat /\ Len(queue) >= 1 /\ DOMAIN queue = 1..Len(queue)
        /\ h = queue[1] /\ h \in Starts /\ rest \in Seq(Starts)
        /\ Len(rest) = Len(queue) - 1 /\ DOMAIN rest = 1..(Len(queue) - 1)
        /\ \A i \in DOMAIN rest: rest[i] = queue[i + 1]
    BY <1>2
  <2> HIDE DEF h, rest
  <2>3. h \notin slots /\ \A i \in DOMAIN rest: rest[i] # h /\ rest[i] \notin slots
    BY <2>2
  <2>4. \A i, j \in DOMAIN rest: rest[i] = rest[j] => i = j
    BY <2>2
  <2>5. {rest[i] : i \in DOMAIN rest} \union {h} = {queue[i] : i \in DOMAIN queue}
    <3>1. \A i \in DOMAIN rest: i + 1 \in DOMAIN queue
      BY <2>2
    <3>2. ASSUME NEW i \in DOMAIN queue, i # 1
          PROVE  i - 1 \in DOMAIN rest /\ rest[i - 1] = queue[i]
      <4>1. i \in 1..Len(queue) /\ i - 1 \in 1..(Len(queue) - 1) /\ (i - 1) + 1 = i
        BY <2>2, <3>2
      <4> QED BY <2>2, <4>1
    <3> QED BY <2>2, <3>1, <3>2
  <2>6. Cardinality(running') = Cardinality(slots) + 1
    BY <1>1, <2>1, <2>3, FS_AddElement
  <2>7. rest # <<>> => Cardinality(slots) = Limit - 1
    <3>1. rest # <<>> => Len(queue) > 1
      BY <2>2
    <3>2. Len(queue) > 1 => Cardinality(slots) >= Limit - 1
      OBVIOUS
    <3>3. Cardinality(slots) < Limit
      BY <1>2
    <3> QED BY <3>1, <3>2, <3>3, <1>1
  <2>8. running' \in SUBSET Starts /\ slots \subseteq running' /\ waiting' \in Seq(Starts)
    BY <2>1, <2>2
  <2>9. /\ \A i, j \in DOMAIN waiting': waiting'[i] = waiting'[j] => i = j
        /\ \A i \in DOMAIN waiting': waiting'[i] \notin running'
    BY <2>1, <2>3, <2>4
  <2>10. running' \union {waiting'[i] : i \in DOMAIN waiting'}
           = slots \union {queue[i] : i \in DOMAIN queue}
    BY <2>1, <2>5
  <2>11. Cardinality(running') <= Limit /\ (waiting' # <<>> => Cardinality(running') = Limit)
    BY <1>1, <1>2, <2>1, <2>6, <2>7
  <2> QED BY <2>8, <2>9, <2>10, <2>11
<1>3. CASE ~(queue # <<>> /\ Cardinality(slots) < Limit)
  <2>1. running' = slots /\ waiting' = queue
    BY <1>3 DEF Grant
  <2>2. waiting' # <<>> => Cardinality(running') = Limit
    BY <1>1, <1>3, <2>1
  <2> QED BY <2>1, <2>2
<1> QED BY <1>2, <1>3

LEMMA BudgetKept ==
  ASSUME BudgetSound, UNCHANGED <<waiting, running, at>>
  PROVE  BudgetSound'
  BY DEF BudgetSound, ClaimsAreTasks

LEMMA ClaimExact ==
  ASSUME Sound, BudgetSound, NEW s \in Starts, NEW stamp, Claim(s, stamp)
  PROVE  BudgetSound' /\ (at' = at \/ (at' = [at EXCEPT ![s] = "queued"] /\ at[s] = "none"))
<1>1. Holds(s) <=> at[s] # "none"
  <2>1. Holds(s) <=> s \in running \union {waiting[i] : i \in DOMAIN waiting}
    BY DEF Holds
  <2>2. s \in running \union {waiting[i] : i \in DOMAIN waiting} <=> at[s] # "none"
    BY Zenon DEF BudgetSound, ClaimsAreTasks
  <2> QED BY <2>1, <2>2
<1>2. CASE at[s] # "none"
  <2>1. UNCHANGED <<waiting, running, at>>
    BY <1>1, <1>2 DEF Claim, budget
  <2>2. BudgetSound'
    BY <2>1, BudgetKept
  <2>3. at' = at
    BY <2>1
  <2> QED BY <2>2, <2>3, Zenon
<1>3. CASE at[s] = "none"
  <2> DEFINE queue == Append(waiting, s)
  <2>1. Grant(running, queue) /\ at' = [at EXCEPT ![s] = "queued"]
    BY <1>1, <1>3 DEF Claim
  <2>2. \A i \in DOMAIN waiting: waiting[i] # s
    BY <1>1, <1>3 DEF Holds
  <2>3. s \notin running
    BY <1>1, <1>3 DEF Holds
  <2>4. /\ queue \in Seq(Starts) /\ Len(waiting) \in Nat /\ Len(queue) = Len(waiting) + 1
        /\ DOMAIN waiting = 1..Len(waiting) /\ DOMAIN queue = 1..(Len(waiting) + 1)
        /\ \A i \in DOMAIN waiting: queue[i] = waiting[i]
        /\ queue[Len(waiting) + 1] = s
    BY DEF BudgetSound
  <2> HIDE DEF queue
  <2>5. \A i, j \in DOMAIN queue: queue[i] = queue[j] => i = j
    BY <2>2, <2>4 DEF BudgetSound
  <2>6. \A i \in DOMAIN queue: queue[i] \notin running
    BY <2>3, <2>4 DEF BudgetSound
  <2>7. Len(queue) > 1 => Cardinality(running) >= Limit - 1
    <3>1. Len(queue) > 1 => waiting # <<>>
      BY <2>4
    <3> QED BY <3>1, IntakeAssumption DEF BudgetSound, ClaimsAreTasks
  <2>8. {queue[i] : i \in DOMAIN queue} = {waiting[i] : i \in DOMAIN waiting} \union {s}
    BY <2>4
  <2>9. \A t \in Starts: at'[t] = IF t = s THEN "queued" ELSE at[t]
    BY <2>1 DEF Sound, Shapes
  <2>10. {t \in Starts: at'[t] # "none"} = {t \in Starts: at[t] # "none"} \union {s}
    BY <2>9
  <2>11. running \in SUBSET Starts /\ Cardinality(running) <= Limit
    BY DEF BudgetSound, ClaimsAreTasks
  <2>12. /\ running' \in SUBSET Starts /\ waiting' \in Seq(Starts)
         /\ \A i, j \in DOMAIN waiting': waiting'[i] = waiting'[j] => i = j
         /\ \A i \in DOMAIN waiting': waiting'[i] \notin running'
         /\ running \subseteq running'
         /\ running' \union {waiting'[i] : i \in DOMAIN waiting'}
              = running \union {queue[i] : i \in DOMAIN queue}
         /\ Cardinality(running') <= Limit
         /\ waiting' # <<>> => Cardinality(running') = Limit
    BY <2>1, <2>4, <2>5, <2>6, <2>7, <2>11, GrantExact
  <2>13. ClaimsAreTasks'
    BY <2>8, <2>10, <2>12 DEF BudgetSound, ClaimsAreTasks
  <2>14. \A t \in Starts: at'[t] \notin {"none", "queued"} => t \in running'
    BY <2>9, <2>12 DEF BudgetSound
  <2> QED BY <1>3, <2>1, <2>12, <2>13, <2>14 DEF BudgetSound
<1> QED BY <1>2, <1>3

LEMMA LeaveExact ==
  ASSUME Sound, BudgetSound, NEW s \in Starts, Leave(s), at[s] # "none", s \in running
  PROVE  BudgetSound'
<1> DEFINE slots == running \ {s}
<1>1. Grant(slots, waiting) /\ at' = [at EXCEPT ![s] = "none"]
  BY DEF Leave
<1>2. /\ running \in SUBSET Starts /\ slots \in SUBSET Starts /\ waiting \in Seq(Starts)
      /\ \A i, j \in DOMAIN waiting: waiting[i] = waiting[j] => i = j
      /\ \A i \in DOMAIN waiting: waiting[i] \notin slots /\ waiting[i] # s
      /\ Cardinality(running) <= Limit
  BY DEF BudgetSound, ClaimsAreTasks
<1>3. IsFiniteSet(running) /\ Cardinality(running) \in Nat /\ Limit \in Nat
  BY <1>2, IntakeAssumption, FS_Subset, FS_CardinalityType
<1>4. Cardinality(slots) = Cardinality(running) - 1
  BY <1>3, FS_RemoveElement
<1>5. Cardinality(slots) <= Limit
  BY <1>2, <1>3, <1>4
<1>6. Len(waiting) > 1 => Cardinality(slots) >= Limit - 1
  <2>1. Len(waiting) > 1 => waiting # <<>>
    OBVIOUS
  <2> QED BY <2>1, <1>3, <1>4 DEF BudgetSound, ClaimsAreTasks
<1>7. \A t \in Starts: at'[t] = IF t = s THEN "none" ELSE at[t]
  BY <1>1 DEF Sound, Shapes
<1>8. {t \in Starts: at'[t] # "none"} = {t \in Starts: at[t] # "none"} \ {s}
  BY <1>7
<1>9. /\ running' \in SUBSET Starts /\ waiting' \in Seq(Starts)
      /\ \A i, j \in DOMAIN waiting': waiting'[i] = waiting'[j] => i = j
      /\ \A i \in DOMAIN waiting': waiting'[i] \notin running'
      /\ slots \subseteq running'
      /\ running' \union {waiting'[i] : i \in DOMAIN waiting'}
           = slots \union {waiting[i] : i \in DOMAIN waiting}
      /\ Cardinality(running') <= Limit
      /\ waiting' # <<>> => Cardinality(running') = Limit
  BY <1>1, <1>2, <1>5, <1>6, GrantExact
<1>10. slots \union {waiting[i] : i \in DOMAIN waiting}
         = (running \union {waiting[i] : i \in DOMAIN waiting}) \ {s}
  BY <1>2
<1>11. ClaimsAreTasks'
  BY <1>8, <1>9, <1>10 DEF BudgetSound, ClaimsAreTasks
<1>12. \A t \in Starts: at'[t] \notin {"none", "queued"} => t \in running'
  BY <1>7, <1>9 DEF BudgetSound
<1> QED BY <1>9, <1>11, <1>12 DEF BudgetSound

\* A task moves on in its slot.
LEMMA StayExact ==
  ASSUME Sound, BudgetSound, NEW s \in Starts, NEW stage \in TaskStages \ {"none"},
         at' = [at EXCEPT ![s] = stage], s \in running, UNCHANGED <<waiting, running>>
  PROVE  BudgetSound'
<1>1. \A t \in Starts: at'[t] = IF t = s THEN stage ELSE at[t]
  BY DEF Sound, Shapes
<1>2. {t \in Starts: at'[t] # "none"} = {t \in Starts: at[t] # "none"}
  <2>1. s \in {t \in Starts: at[t] # "none"}
    BY DEF BudgetSound, ClaimsAreTasks
  <2> QED BY <1>1, <2>1
<1> QED BY <1>1, <1>2 DEF BudgetSound, ClaimsAreTasks

----------------------------------------------------------------------------
(* The coordinator, and the drains it wakes.                               *)

gist == <<asked, at, post, opened, ran, calledOff, asking, mode, outstanding>>

\* A step that leaves the starts and the gate alone changes nothing that was promised.
LEMMA Aside ==
  ASSUME Sound, DrainsSound', UNCHANGED gist
  PROVE  Sound' /\ PromiseStep
<1>1. Shapes' /\ ClaimsSound'
  BY DEF gist, Sound, Shapes, ClaimsSound
<1>2. GateSound'
  BY GateUntouched DEF gist
<1>3. PromiseStep
  BY DEF gist, PromiseStep, Promise!promiseVars
<1> QED BY <1>1, <1>2, <1>3 DEF Sound

LEMMA DrainsKept ==
  ASSUME Sound, drain' = drain, \A s \in Starts: asked[s] # "none" => asked'[s] # "none"
  PROVE  DrainsSound'
<1>1. \A l \in Lists: DrainSound(drain[l])'
  BY DEF Sound, DrainsSound, DrainSound
<1> QED BY <1>1 DEF Sound, DrainsSound

\* One drain moves on.
LEMMA DrainMoves ==
  ASSUME DrainsSound, NEW l \in Lists, NEW d, DrainSound(d), drain' = [drain EXCEPT ![l] = d],
         asked' = asked
  PROVE  DrainsSound'
<1>1. \A k \in Lists: drain'[k] = IF k = l THEN d ELSE drain[k]
  BY DEF DrainsSound
<1>2. \A k \in Lists: DrainSound(drain[k])'
  BY <1>1 DEF DrainsSound, DrainSound
<1> QED BY <1>2 DEF DrainsSound

LEMMA IdleSound == DrainSound(Idle)
<1>1. Idle = [step |-> "idle", todo |-> {}, now |-> <<>>, stamp |-> 0]
  BY DEF Idle
<1> QED BY <1>1 DEF DrainSound

LEMMA PassSound ==
  ASSUME NEW todo, \A entry \in todo: entry[1] \in Starts
  PROVE  DrainSound(Pass(todo))
<1>1. CASE todo = {}
  BY <1>1, IdleSound DEF Pass
<1>2. CASE todo # {}
  <2>1. Pass(todo) = [step |-> "pass", todo |-> todo, now |-> <<>>, stamp |-> 0]
    BY <1>2 DEF Pass, Idle
  <2> QED BY <2>1 DEF DrainSound
<1> QED BY <1>1, <1>2

LEMMA ReadsSound ==
  ASSUME Sound, NEW l \in Lists, NEW late, Reads(l, late), UNCHANGED gist
  PROVE  Sound' /\ PromiseStep
<1>1. \A entry \in Owed(Of(l), late): entry[1] \in Starts
  BY DEF Owed, Of, Lists, Starts
<1>2. DrainSound(Pass(Owed(Of(l), late)))
  BY <1>1, PassSound
<1>3. DrainsSound'
  BY <1>2, DrainMoves DEF Reads, Sound, gist
<1> QED BY <1>3, Aside

LEMMA CoordinatorIsAside ==
  ASSUME Sound, CoordinatorSteps
  PROVE  Sound' /\ PromiseStep
<1>1. UNCHANGED gist /\ drain' = drain
  BY DEF CoordinatorSteps, Apply, Checkpoint, gist, budget
<1>2. DrainsSound'
  BY <1>1, DrainsKept DEF gist
<1> QED BY <1>1, <1>2, Aside

LEMMA DrainsAreAside ==
  ASSUME Sound, NEW l \in Lists,
         \/ BeginPass(l) \/ Dispatch(l) \/ Offer(l)
         \/ \E late \in SUBSET Lost(Of(l)): OtherStarted(l, late)
  PROVE  Sound' /\ PromiseStep
<1>0. /\ DrainSound(drain[l]) /\ DrainsSound
      /\ \A entry \in drain[l].todo: entry[1] \in Starts
  BY DEF Sound, DrainsSound, DrainSound
<1>1. CASE BeginPass(l) \/ \E late \in SUBSET Lost(Of(l)): OtherStarted(l, late)
  <2>1. UNCHANGED gist
    BY <1>1 DEF BeginPass, OtherStarted, gist, budget, durable
  <2>2. PICK late: Reads(l, late)
    BY <1>1 DEF BeginPass, OtherStarted
  <2> QED BY <2>1, <2>2, ReadsSound
<1>2. CASE Dispatch(l)
  <2>1. UNCHANGED gist
    BY <1>2 DEF Dispatch, gist, budget
  <2> DEFINE Free(entry) == CHOOSE n \in Stamps: <<entry[1], n>> \notin held
             Offering(entry) == [step |-> "offering", todo |-> drain[l].todo \ {entry},
                                 now |-> entry[1], stamp |-> Free(entry)]
  <2>2. PICK entry \in drain[l].todo:
          \/ drain' = [drain EXCEPT ![l] = Offering(entry)]
          \/ drain' = [drain EXCEPT ![l] = Pass(drain[l].todo \ {entry})]
    BY <1>2, Zenon DEF Dispatch
  <2>3. entry[1] \in Starts /\ \A e \in drain[l].todo \ {entry}: e[1] \in Starts
    BY <1>0
  <2>4. DrainSound(Offering(entry)) /\ DrainSound(Pass(drain[l].todo \ {entry}))
    <3>1. DrainSound(Offering(entry))
      BY <2>3 DEF DrainSound
    <3> QED BY <2>3, <3>1, PassSound
  <2> HIDE DEF Offering
  <2>5. DrainsSound'
    BY <1>0, <2>1, <2>2, <2>4, DrainMoves DEF gist
  <2> QED BY <2>1, <2>5, Aside
<1>3. CASE Offer(l)
  <2>1. UNCHANGED gist
    BY <1>3 DEF Offer, gist, budget
  <2>2. CASE drain' = [drain EXCEPT ![l] = Pass(drain[l].todo)]
    <3>1. DrainSound(Pass(drain[l].todo))
      BY <1>0, PassSound
    <3>2. DrainsSound'
      BY <1>0, <2>1, <2>2, <3>1, DrainMoves DEF gist
    <3> QED BY <2>1, <3>2, Aside
  <2>3. CASE /\ asked[drain[l].now] = "asked"
             /\ drain' = [drain EXCEPT ![l] = [@ EXCEPT !.step = "admitting"]]
    <3> DEFINE d == [step |-> "admitting", todo |-> drain[l].todo, now |-> drain[l].now,
                     stamp |-> drain[l].stamp]
    <3>1. drain[l].now \in Starts
      BY <1>0, <1>3 DEF Offer, DrainSound
    <3>2. [drain[l] EXCEPT !.step = "admitting"] = d
      BY <1>0 DEF DrainSound
    <3>3. drain' = [drain EXCEPT ![l] = d]
      BY <2>3, <3>2
    <3>4. DrainSound(d)
      BY <1>0, <2>3, <3>1 DEF DrainSound
    <3> HIDE DEF d
    <3>5. DrainsSound'
      BY <1>0, <2>1, <3>3, <3>4, DrainMoves DEF gist
    <3> QED BY <2>1, <3>5, Aside
  <2> QED BY <1>3, <2>2, <2>3 DEF Offer, Offered
<1> QED BY <1>1, <1>2, <1>3

----------------------------------------------------------------------------
(* The operator: pauses, and the announcements that end them.              *)

LEMMA Announcements ==
  ASSUME Sound, CloseBegin \/ CloseTimesOut \/ Announce \/ AnnounceAtStart
                  \/ \E s \in Starts, n \in Stamps: ReportHeld(s, n)
  PROVE  Sound' /\ PromiseStep
<1>1. UNCHANGED gist
  <2>1. CASE CloseBegin \/ CloseTimesOut \/ Announce \/ AnnounceAtStart
    BY <2>1 DEF CloseBegin, CloseTimesOut, Announce, AnnounceAtStart, gist, budget, durable
  <2>2. CASE \E s \in Starts, n \in Stamps: ReportHeld(s, n)
    BY <2>2 DEF ReportHeld, gist, budget
  <2> QED BY <2>1, <2>2
<1>2. drain' = drain
  BY DEF CloseBegin, CloseTimesOut, Announce, AnnounceAtStart, ReportHeld
<1>3. DrainsSound'
  BY <1>1, <1>2, DrainsKept DEF gist
<1> QED BY <1>1, <1>3, Aside

\* The gate closes at zero leases: no task is left between its slot and its stream.
LEMMA Closes ==
  ASSUME Sound, CloseDone
  PROVE  Sound' /\ PromiseStep
<1>1. /\ UNCHANGED <<asked, at, post, opened, ran, calledOff, asking, outstanding, drain>>
      /\ mode' = "paused" /\ outstanding = 0
  BY DEF CloseDone, budget
<1>2. LeasedStarts = {}
  BY <1>1, LeasedFinite, FS_EmptySet DEF Sound, GateSound, LeaseCount
<1>3. Shapes' /\ ClaimsSound'
  BY <1>1 DEF Sound, Shapes, ClaimsSound
<1>4. DrainsSound'
  BY <1>1, DrainsKept
<1>5. GateSound'
  BY <1>1, <1>2 DEF Sound, GateSound, LeaseCount, LeasedStarts
<1>6. PromiseStep
  BY <1>1 DEF PromiseStep, Promise!PromiseNext, Promise!Pause, Promise!promiseVars
<1> QED BY <1>3, <1>4, <1>5, <1>6 DEF Sound

LEMMA Reopens ==
  ASSUME Sound, Reopen
  PROVE  Sound' /\ PromiseStep
<1>1. /\ UNCHANGED <<asked, at, post, opened, ran, calledOff, asking, outstanding, drain>>
      /\ mode = "paused" /\ mode' = "open"
  BY DEF Reopen, budget
<1>2. Shapes' /\ ClaimsSound'
  BY <1>1 DEF Sound, Shapes, ClaimsSound
<1>3. DrainsSound'
  BY <1>1, DrainsKept
<1>4. GateSound'
  BY <1>1 DEF Sound, GateSound, LeaseCount, LeasedStarts
<1>5. PromiseStep
  BY <1>1 DEF PromiseStep, Promise!PromiseNext, Promise!Resume, Promise!promiseVars
<1> QED BY <1>2, <1>3, <1>4, <1>5 DEF Sound

----------------------------------------------------------------------------
(* The client: requests and cancels.                                       *)

LEMMA Admits ==
  ASSUME Sound, NEW s \in Starts, PostAdmit(s)
  PROVE  Sound' /\ PromiseStep
<1>1. /\ UNCHANGED <<asked, at, opened, ran, calledOff, asking, mode, outstanding, drain>>
      /\ s \in Direct /\ asked[s] = "none" /\ post' = [post EXCEPT ![s] = "admitted"]
  BY DEF PostAdmit, budget, durable
<1>2. Shapes' /\ ClaimsSound'
  BY <1>1 DEF Sound, Shapes, ClaimsSound
<1>3. DrainsSound'
  BY <1>1, DrainsKept
<1>4. GateSound'
  BY <1>1, GateUntouched
<1>5. PromiseStep
  BY <1>1 DEF PromiseStep, Promise!promiseVars
<1> QED BY <1>2, <1>3, <1>4, <1>5 DEF Sound

\* A request not made before.
LEMMA Requested ==
  ASSUME Sound, NEW s \in Starts, asked[s] = "none", asked' = [asked EXCEPT ![s] = "asked"],
         UNCHANGED <<opened, ran, calledOff, mode>>
  PROVE  PromiseStep
<1>1. {x \in Starts: asked'[x] # "none"} = {x \in Starts: asked[x] # "none"} \union {s}
  BY DEF Sound, Shapes
<1>2. s \notin {x \in Starts: asked[x] # "none"}
  OBVIOUS
<1>3. Promise!Request(s)
  BY <1>1, <1>2 DEF Promise!Request
<1> QED BY <1>3 DEF PromiseStep, Promise!PromiseNext

LEMMA Records ==
  ASSUME Sound, NEW s \in Starts, PostRecord(s) \/ AdmitResume(s)
  PROVE  Sound' /\ PromiseStep
<1>1. /\ UNCHANGED <<at, opened, ran, calledOff, asking, mode, outstanding, drain>>
      /\ asked' = [asked EXCEPT ![s] = "asked"]
      /\ asked[s] = "none"
      /\ \/ post' = [post EXCEPT ![s] = "recorded"] /\ post[s] = "admitted"
         \/ post' = post /\ s \in Resumes
  BY DEF PostRecord, AdmitResume, budget, Sound, ClaimsSound
<1>2. Shapes'
  BY <1>1 DEF Sound, Shapes
<1>3. \A t \in Starts: asked'[t] = IF t = s THEN "asked" ELSE asked[t]
  BY <1>1 DEF Sound, Shapes
<1>4. DrainsSound'
  BY <1>1, <1>3, DrainsKept
<1>5. \A t \in Starts: post'[t] = "admitted" => t \in Direct /\ asked'[t] = "none"
  BY <1>1, <1>3, IntakeAssumption DEF Sound, ClaimsSound, Shapes
<1>6. ClaimsSound'
  BY <1>1, <1>3, <1>5 DEF Sound, ClaimsSound, Shapes
<1>7. GateSound'
  BY <1>1, GateUntouched
<1>8. PromiseStep
  BY <1>1, Requested
<1> QED BY <1>2, <1>4, <1>6, <1>7, <1>8 DEF Sound

LEMMA Withdraws ==
  ASSUME Sound, NEW s \in Starts, Withdraw(s)
  PROVE  Sound' /\ PromiseStep
<1>1. /\ UNCHANGED <<at, post, opened, ran, calledOff, mode, outstanding, drain>>
      /\ asked[s] = "asked" /\ asked' = [asked EXCEPT ![s] = "withdrawn"]
      /\ asking' = asking \union {s}
  BY DEF Withdraw, budget
<1>2. Shapes'
  BY <1>1 DEF Sound, Shapes
<1>3. \A t \in Starts: asked'[t] = IF t = s THEN "withdrawn" ELSE asked[t]
  BY <1>1 DEF Sound, Shapes
<1>4. DrainsSound'
  BY <1>1, <1>3, DrainsKept
<1>5. ClaimsSound'
  BY <1>1, <1>3 DEF Sound, ClaimsSound, Shapes
<1>6. GateSound'
  BY <1>1, GateUntouched
<1>7. {x \in Starts: asked'[x] # "none"} = {x \in Starts: asked[x] # "none"}
  BY <1>1, <1>3
<1>8. PromiseStep
  BY <1>1, <1>7 DEF PromiseStep, Promise!promiseVars
<1> QED BY <1>2, <1>4, <1>5, <1>6, <1>8 DEF Sound

LEMMA Answers ==
  ASSUME Sound, NEW s \in Starts, Answer(s)
  PROVE  Sound' /\ PromiseStep
<1>1. /\ UNCHANGED <<asked, at, post, opened, ran, mode, outstanding, drain>>
      /\ s \in asking /\ asking' = asking \ {s}
      /\ calledOff' = IF s \in opened THEN calledOff ELSE calledOff \union {s}
  BY DEF Answer, budget, durable
<1>2. Shapes' /\ ClaimsSound'
  BY <1>1 DEF Sound, Shapes, ClaimsSound
<1>3. DrainsSound'
  BY <1>1, DrainsKept
<1>4. GateSound'
  BY <1>1, GateUntouched
<1>5. CASE s \in opened \union calledOff
  <2>1. calledOff' = calledOff
    BY <1>1, <1>5
  <2> QED BY <1>1, <1>2, <1>3, <1>4, <2>1 DEF Sound, PromiseStep, Promise!promiseVars
<1>6. CASE s \notin opened \union calledOff
  <2>1. s \in {x \in Starts: asked[x] # "none"}
    BY <1>1 DEF Sound, ClaimsSound
  <2>2. Promise!CallOff(s)
    BY <1>1, <1>6, <2>1 DEF Promise!CallOff
  <2> QED BY <1>2, <1>3, <1>4, <2>2 DEF Sound, PromiseStep, Promise!PromiseNext
<1> QED BY <1>5, <1>6

----------------------------------------------------------------------------
(* The tasks.                                                              *)

\* A task moves and its start is neither opened nor let past its start.
LEMMA TaskMoves ==
  ASSUME Sound, NEW s \in Starts, NEW stage \in TaskStages \ {"rechecking"},
         at' = [at EXCEPT ![s] = stage], asked[s] # "none",
         GateSound', outstanding' \in Nat, mode' = mode, DrainsSound',
         UNCHANGED <<asked, post, opened, ran, calledOff, asking>>
  PROVE  Sound' /\ PromiseStep
<1>1. Shapes'
  BY LeasedMove DEF Sound, Shapes
<1>2. ClaimsSound'
  BY LeasedMove DEF Sound, ClaimsSound
<1>3. PromiseStep
  BY DEF PromiseStep, Promise!promiseVars
<1> QED BY <1>1, <1>2, <1>3 DEF Sound

\* Joining the budget's queue, or finding a start already there.
LEMMA Claims ==
  ASSUME Sound, BudgetSound, NEW s \in Starts, NEW stamp, Claim(s, stamp), asked[s] # "none",
         DrainsSound',
         UNCHANGED <<asked, opened, ran, calledOff, asking, mode, outstanding>>,
         post' = post \/ post' = [post EXCEPT ![s] = "none"]
  PROVE  Sound' /\ BudgetSound' /\ PromiseStep
<1>1. BudgetSound' /\ (at' = at \/ (at' = [at EXCEPT ![s] = "queued"] /\ at[s] = "none"))
  BY ClaimExact
<1>2. PromiseStep
  BY DEF PromiseStep, Promise!promiseVars
<1>3. /\ \A t \in Starts: post'[t] \in {post[t], "none"}
      /\ post' \in [Starts -> {"none", "admitted", "recorded"}]
  BY DEF Sound, Shapes
<1>4. CASE at' = at
  <2>1. Shapes' /\ ClaimsSound'
    BY <1>3, <1>4 DEF Sound, Shapes, ClaimsSound
  <2>2. GateSound'
    BY <1>4, GateUntouched
  <2> QED BY <2>1, <2>2, <1>1, <1>2 DEF Sound
<1>5. CASE at' = [at EXCEPT ![s] = "queued"] /\ at[s] = "none"
  <2>1. /\ at' \in [Starts -> TaskStages]
        /\ \A t \in Starts: at'[t] = IF t = s THEN "queued" ELSE at[t]
    BY <1>5 DEF Sound, Shapes
  <2>2. Shapes'
    BY <1>3, <2>1 DEF Sound, Shapes
  <2>3. ClaimsSound'
    BY <1>3, <2>1 DEF Sound, ClaimsSound
  <2>4. GateSound'
    BY <1>5, LeaseKept
  <2> QED BY <2>2, <2>3, <2>4, <1>1, <1>2 DEF Sound
<1> QED BY <1>1, <1>4, <1>5

LEMMA Queues ==
  ASSUME Sound, BudgetSound, NEW s \in Starts, PostQueue(s)
  PROVE  Sound' /\ BudgetSound' /\ PromiseStep
<1>1. /\ Claim(s, 0) /\ post[s] = "recorded" /\ post' = [post EXCEPT ![s] = "none"]
      /\ UNCHANGED <<asked, opened, ran, calledOff, asking, mode, outstanding, drain>>
  BY DEF PostQueue, durable
<1>2. asked[s] # "none"
  BY <1>1 DEF Sound, ClaimsSound
<1>3. DrainsSound'
  BY <1>1, DrainsKept
<1> QED BY <1>1, <1>2, <1>3, Claims

LEMMA DrainAdmits ==
  ASSUME Sound, BudgetSound, NEW l \in Lists, Admit(l)
  PROVE  Sound' /\ BudgetSound' /\ PromiseStep
<1>1. /\ drain[l].step = "admitting" /\ drain' = [drain EXCEPT ![l] = Pass(drain[l].todo)]
      /\ UNCHANGED <<asked, opened, ran, calledOff, asking, mode, outstanding, post>>
      /\ UNCHANGED budget \/ Claim(drain[l].now, drain[l].stamp)
  BY DEF Admit, Offered
<1>2. /\ drain[l].now \in Starts /\ asked[drain[l].now] # "none"
      /\ \A entry \in drain[l].todo: entry[1] \in Starts
  BY <1>1 DEF Sound, DrainsSound, DrainSound
<1>3. DrainSound(Pass(drain[l].todo))
  BY <1>2, PassSound
<1>4. DrainsSound'
  BY <1>1, <1>3, DrainMoves DEF Sound
<1>5. CASE UNCHANGED budget
  <2>1. UNCHANGED gist /\ BudgetSound'
    BY <1>1, <1>5, BudgetKept DEF gist, budget
  <2> QED BY <1>4, <2>1, Aside
<1>6. CASE Claim(drain[l].now, drain[l].stamp)
  BY <1>1, <1>2, <1>4, <1>6, Claims
<1> QED BY <1>1, <1>5, <1>6

\* A task past the queue has its slot, and its start was asked for.
LEMMA InSlot ==
  ASSUME Sound, BudgetSound, NEW s \in Starts, at[s] \notin {"none", "queued"}
  PROVE  s \in running /\ asked[s] # "none"
  BY DEF Sound, BudgetSound, ClaimsSound

\* While a lease is out the gate is open.
LEMMA LeasedOpen ==
  ASSUME Sound, NEW s \in Starts, at[s] \in Leased
  PROVE  mode = "open"
  BY DEF Sound, Shapes, GateSound, LeasedStarts

LEMMA EntersSlot ==
  ASSUME Sound, BudgetSound, NEW s \in Starts, EnterSlot(s)
  PROVE  Sound' /\ BudgetSound' /\ PromiseStep
<1>1. /\ at[s] = "queued" /\ s \in running
      /\ UNCHANGED <<asked, opened, ran, calledOff, asking, mode, post, drain>>
  BY DEF EnterSlot, durable
<1>2. DrainsSound'
  BY <1>1, DrainsKept
<1>3. asked[s] # "none"
  BY <1>1 DEF Sound, ClaimsSound
<1>4. CASE mode = "open"
  <2>1. /\ at' = [at EXCEPT ![s] = "checking"] /\ outstanding' = outstanding + 1
        /\ UNCHANGED <<waiting, running>>
    BY <1>4 DEF EnterSlot
  <2>2. LeasedStarts' = LeasedStarts \union {s} /\ s \notin LeasedStarts
    BY <1>1, <2>1, LeasedMove DEF Sound, LeasedStarts
  <2>3. Cardinality(LeasedStarts') = Cardinality(LeasedStarts) + 1
    BY <2>2, LeasedFinite, FS_AddElement
  <2>4. GateSound' /\ outstanding' \in Nat
    BY <1>1, <1>4, <2>1, <2>3 DEF Sound, Shapes, GateSound, LeaseCount
  <2>5. BudgetSound'
    BY <1>1, <2>1, StayExact
  <2> QED BY <1>1, <1>2, <1>3, <2>1, <2>4, <2>5, TaskMoves
<1>5. CASE mode # "open"
  <2>1. Leave(s) /\ outstanding' = outstanding
    BY <1>5 DEF EnterSlot
  <2>2. at' = [at EXCEPT ![s] = "none"]
    BY <2>1 DEF Leave
  <2>3. GateSound' /\ outstanding' \in Nat
    BY <1>1, <2>1, <2>2, LeaseKept DEF Sound, Shapes
  <2>4. BudgetSound'
    BY <1>1, <2>1, LeaveExact
  <2> QED BY <1>1, <1>2, <1>3, <2>2, <2>3, <2>4, TaskMoves
<1> QED BY <1>4, <1>5

LEMMA Checks ==
  ASSUME Sound, BudgetSound, NEW s \in Starts, Check(s)
  PROVE  Sound' /\ BudgetSound' /\ PromiseStep
<1>1. /\ at[s] = "checking"
      /\ UNCHANGED <<asked, opened, ran, calledOff, asking, mode, post, drain>>
  BY DEF Check, durable
<1>2. DrainsSound'
  BY <1>1, DrainsKept
<1>3. s \in running /\ asked[s] # "none"
  BY <1>1, InSlot
<1>4. CASE asked[s] = "withdrawn"
  <2>1. Leave(s) /\ outstanding' = outstanding - 1 /\ at' = [at EXCEPT ![s] = "none"]
    BY <1>4 DEF Check, LeaseEnds, Leave
  <2>2. GateSound' /\ outstanding' \in Nat
    BY <1>1, <2>1, LeaseReturned
  <2>3. BudgetSound'
    BY <1>1, <1>3, <2>1, LeaveExact
  <2> QED BY <1>1, <1>2, <1>3, <2>1, <2>2, <2>3, TaskMoves
<1>5. CASE asked[s] # "withdrawn"
  <2>1. /\ at' = [at EXCEPT ![s] = "starting"]
        /\ UNCHANGED <<waiting, running, outstanding>>
    BY <1>5 DEF Check
  <2>2. GateSound' /\ outstanding' \in Nat
    BY <1>1, <2>1, LeaseKept DEF Sound, Shapes
  <2>3. BudgetSound'
    BY <1>3, <2>1, StayExact
  <2> QED BY <1>1, <1>2, <1>3, <2>1, <2>2, <2>3, TaskMoves
<1> QED BY <1>4, <1>5

LEMMA Unreads ==
  ASSUME Sound, BudgetSound, NEW s \in Starts, Unread(s)
  PROVE  Sound' /\ BudgetSound' /\ PromiseStep
<1>1. /\ at[s] = "checking"
      /\ UNCHANGED <<asked, opened, ran, calledOff, asking, mode, post, drain>>
  BY DEF Unread, durable, managers
<1>2. DrainsSound'
  BY <1>1, DrainsKept
<1>3. s \in running /\ asked[s] # "none"
  BY <1>1, InSlot
<1>4. CASE s \notin Resumes
  <2>1. Leave(s) /\ outstanding' = outstanding - 1 /\ at' = [at EXCEPT ![s] = "none"]
    BY <1>4 DEF Unread, LeaseEnds, Leave
  <2>2. GateSound' /\ outstanding' \in Nat
    BY <1>1, <2>1, LeaseReturned
  <2>3. BudgetSound'
    BY <1>1, <1>3, <2>1, LeaveExact
  <2> QED BY <1>1, <1>2, <1>3, <2>1, <2>2, <2>3, TaskMoves
<1>5. CASE s \in Resumes
  <2>1. /\ at' = [at EXCEPT ![s] = "broken"]
        /\ UNCHANGED <<waiting, running, outstanding>>
    BY <1>5 DEF Unread
  <2>2. GateSound' /\ outstanding' \in Nat
    BY <1>1, <2>1, LeaseKept DEF Sound, Shapes
  <2>3. BudgetSound'
    BY <1>3, <2>1, StayExact
  <2> QED BY <1>1, <1>2, <1>3, <2>1, <2>2, <2>3, TaskMoves
<1> QED BY <1>4, <1>5

\* A stream comes into being: only under a lease, so with the gate open.
LEMMA Opened ==
  ASSUME Sound, NEW s \in Starts, s \notin opened, asked[s] # "none", mode = "open", mode' = mode,
         opened' = opened \union {s}, UNCHANGED <<asked, calledOff>>,
         ran' = ran \/ (s \in Direct /\ ran' = ran \union {s})
  PROVE  PromiseStep
<1>1. s \in {x \in Starts: asked[x] # "none"}
  OBVIOUS
<1>2. s \in Direct => s \notin Resumes
  BY IntakeAssumption
<1>3. CASE s \in Resumes
  <2>1. Promise!OpenResume(s)
    BY <1>1, <1>2, <1>3 DEF Promise!OpenResume
  <2> QED BY <2>1 DEF PromiseStep, Promise!PromiseNext
<1>4. CASE s \notin Resumes
  <2>1. Promise!OpenDirect(s)
    BY <1>1, <1>4 DEF Promise!OpenDirect
  <2> QED BY <2>1 DEF PromiseStep, Promise!PromiseNext
<1> QED BY <1>3, <1>4

LEMMA Opens ==
  ASSUME Sound, BudgetSound, NEW s \in Starts, Open(s)
  PROVE  Sound' /\ BudgetSound' /\ PromiseStep
<1>1. /\ at[s] = "starting" /\ outstanding' = outstanding - 1
      /\ UNCHANGED <<asked, calledOff, asking, mode, post, drain>>
  BY DEF Open, LeaseEnds
<1>2. DrainsSound'
  BY <1>1, DrainsKept
<1>3. s \in running /\ asked[s] # "none" /\ mode = "open"
  BY <1>1, InSlot, LeasedOpen
<1>4. CASE s \in opened
  <2>1. Leave(s) /\ UNCHANGED <<opened, ran>> /\ at' = [at EXCEPT ![s] = "none"]
    BY <1>4 DEF Open, Leave
  <2>2. GateSound' /\ outstanding' \in Nat
    BY <1>1, <2>1, LeaseReturned
  <2>3. BudgetSound'
    BY <1>1, <1>3, <2>1, LeaveExact
  <2> QED BY <1>1, <1>2, <1>3, <2>1, <2>2, <2>3, TaskMoves
<1>5. CASE s \notin opened
  <2> DEFINE stage == IF s \in Resumes THEN "rechecking" ELSE "running"
  <2>1. /\ opened' = opened \union {s} /\ at' = [at EXCEPT ![s] = stage]
        /\ ran' = IF s \in Resumes THEN ran ELSE ran \union {s}
        /\ UNCHANGED <<waiting, running>>
    BY <1>5 DEF Open
  <2>2. stage \in TaskStages \ {"none"} /\ stage \notin Leased
    OBVIOUS
  <2>3. GateSound' /\ outstanding' \in Nat
    BY <1>1, <2>1, <2>2, LeaseReturned
  <2>4. BudgetSound'
    BY <1>3, <2>1, <2>2, StayExact
  <2>5. /\ at' \in [Starts -> TaskStages]
        /\ \A t \in Starts: at'[t] = IF t = s THEN stage ELSE at[t]
    BY <2>1, <2>2, LeasedMove DEF Sound
  <2>6. Shapes'
    BY <1>1, <2>1, <2>3, <2>5 DEF Sound, Shapes
  <2>7. s \in Resumes => s \notin ran'
    BY <1>5, <2>1 DEF Sound, Shapes
  <2>8. \A t \in Starts: at'[t] = "rechecking" => t \in (Resumes \intersect opened') \ ran'
    BY <2>1, <2>5, <2>7 DEF Sound, ClaimsSound
  <2>9. ClaimsSound'
    BY <1>1, <1>3, <2>5, <2>8 DEF Sound, ClaimsSound
  <2>10. s \in Direct \/ s \in Resumes
    BY DEF Starts
  <2>11. PromiseStep
    BY <1>1, <1>3, <1>5, <2>1, <2>10, Opened
  <2> QED BY <1>2, <2>3, <2>4, <2>6, <2>9, <2>11 DEF Sound
<1> QED BY <1>4, <1>5

LEMMA Falters ==
  ASSUME Sound, BudgetSound, NEW s \in Starts, Falter(s)
  PROVE  Sound' /\ BudgetSound' /\ PromiseStep
<1>1. /\ at[s] = "starting"
      /\ UNCHANGED <<asked, ran, calledOff, asking, mode, post, drain, outstanding, waiting, running>>
  BY DEF Falter
<1>2. DrainsSound'
  BY <1>1, DrainsKept
<1>3. s \in running /\ asked[s] # "none" /\ mode = "open"
  BY <1>1, InSlot, LeasedOpen
<1>4. PICK stage \in {"refused", "broken"}: at' = [at EXCEPT ![s] = stage]
  BY DEF Falter
<1>5. GateSound' /\ outstanding' \in Nat
  BY <1>1, <1>4, LeaseKept DEF Sound, Shapes
<1>6. BudgetSound'
  BY <1>1, <1>3, <1>4, StayExact
<1>7. CASE opened' = opened
  BY <1>1, <1>2, <1>3, <1>4, <1>5, <1>6, <1>7, TaskMoves
<1>8. CASE s \notin opened /\ opened' = opened \union {s}
  <2>1. /\ at' \in [Starts -> TaskStages]
        /\ \A t \in Starts: at'[t] = IF t = s THEN stage ELSE at[t]
    BY <1>4, LeasedMove DEF Sound
  <2>2. Shapes'
    BY <1>1, <1>5, <1>8, <2>1 DEF Sound, Shapes
  <2>3. ClaimsSound'
    BY <1>1, <1>3, <1>8, <2>1 DEF Sound, ClaimsSound
  <2>4. PromiseStep
    BY <1>1, <1>3, <1>8, Opened
  <2> QED BY <1>2, <1>5, <1>6, <2>2, <2>3, <2>4 DEF Sound
<1> QED BY <1>7, <1>8 DEF Falter

LEMMA Reports ==
  ASSUME Sound, BudgetSound, NEW s \in Starts, Report(s)
  PROVE  Sound' /\ BudgetSound' /\ PromiseStep
<1>1. /\ at[s] \in {"refused", "broken"} /\ Leave(s) /\ at' = [at EXCEPT ![s] = "none"]
      /\ outstanding' = outstanding - 1
      /\ UNCHANGED <<asked, opened, ran, calledOff, asking, mode, post, drain>>
  BY DEF Report, LeaseEnds, Leave
<1>2. DrainsSound'
  BY <1>1, DrainsKept
<1>3. s \in running /\ asked[s] # "none"
  BY <1>1, InSlot
<1>4. GateSound' /\ outstanding' \in Nat
  BY <1>1, LeaseReturned
<1>5. BudgetSound'
  BY <1>1, <1>3, LeaveExact
<1> QED BY <1>1, <1>2, <1>3, <1>4, <1>5, TaskMoves

LEMMA Rechecks ==
  ASSUME Sound, BudgetSound, NEW s \in Starts, Recheck(s)
  PROVE  Sound' /\ BudgetSound' /\ PromiseStep
<1>1. /\ at[s] = "rechecking"
      /\ UNCHANGED <<asked, opened, calledOff, asking, mode, post, drain, outstanding>>
  BY DEF Recheck
<1>2. DrainsSound'
  BY <1>1, DrainsKept
<1>3. s \in running /\ asked[s] # "none" /\ s \in (Resumes \intersect opened) \ ran
  BY <1>1, InSlot DEF Sound, ClaimsSound
<1>4. CASE asked[s] = "withdrawn"
  <2>1. Leave(s) /\ at' = [at EXCEPT ![s] = "none"] /\ ran' = ran
    BY <1>4 DEF Recheck, Leave
  <2>2. GateSound' /\ outstanding' \in Nat
    BY <1>1, <2>1, LeaseKept DEF Sound, Shapes
  <2>3. BudgetSound'
    BY <1>1, <1>3, <2>1, LeaveExact
  <2> QED BY <1>1, <1>2, <1>3, <2>1, <2>2, <2>3, TaskMoves
<1>5. CASE asked[s] # "withdrawn"
  <2>1. /\ at' = [at EXCEPT ![s] = "running"] /\ ran' = ran \union {s}
        /\ UNCHANGED <<waiting, running>>
    BY <1>5 DEF Recheck
  <2>2. GateSound' /\ outstanding' \in Nat
    BY <1>1, <2>1, LeaseKept DEF Sound, Shapes
  <2>3. BudgetSound'
    BY <1>3, <2>1, StayExact
  <2>4. /\ at' \in [Starts -> TaskStages]
        /\ \A t \in Starts: at'[t] = IF t = s THEN "running" ELSE at[t]
    BY <2>1, LeasedMove DEF Sound
  <2>5. Shapes'
    BY <1>1, <1>3, <2>1, <2>2, <2>4 DEF Sound, Shapes
  <2>6. ClaimsSound'
    BY <1>1, <1>3, <2>1, <2>4 DEF Sound, ClaimsSound
  <2>7. s \notin calledOff
    BY <1>5 DEF Sound, ClaimsSound
  <2>8. Promise!Run(s)
    BY <1>1, <1>3, <2>1, <2>7 DEF Promise!Run
  <2>9. PromiseStep
    BY <2>8 DEF PromiseStep, Promise!PromiseNext
  <2> QED BY <1>2, <2>2, <2>3, <2>5, <2>6, <2>9 DEF Sound
<1> QED BY <1>4, <1>5

LEMMA Finishes ==
  ASSUME Sound, BudgetSound, NEW s \in Starts, Finish(s)
  PROVE  Sound' /\ BudgetSound' /\ PromiseStep
<1>1. /\ at[s] = "running" /\ Leave(s) /\ at' = [at EXCEPT ![s] = "none"]
      /\ UNCHANGED <<asked, opened, ran, calledOff, asking, mode, post, drain, outstanding>>
  BY DEF Finish, Leave, durable
<1>2. DrainsSound'
  BY <1>1, DrainsKept
<1>3. s \in running /\ asked[s] # "none"
  BY <1>1, InSlot
<1>4. GateSound' /\ outstanding' \in Nat
  BY <1>1, LeaseKept DEF Sound, Shapes
<1>5. BudgetSound'
  BY <1>1, <1>3, LeaveExact
<1> QED BY <1>1, <1>2, <1>3, <1>4, <1>5, TaskMoves

----------------------------------------------------------------------------
(* The process, and the whole.                                             *)

\* An empty process: no task, no lease, no place taken.
LEMMA Empty ==
  ASSUME NEW stages, stages = [s \in Starts |-> "none"], NEW places, places = <<>>
  PROVE  /\ {s \in Starts: stages[s] \in Leased} = {}
         /\ {s \in Starts: stages[s] # "none"} = {}
         /\ \A s \in Starts: stages[s] = "none"
         /\ DOMAIN places = {} /\ {places[i] : i \in DOMAIN places} = {}
         /\ places \in Seq(Starts)
         /\ {} \in SUBSET Starts /\ Cardinality({}) = 0 /\ Limit \in Nat
  BY FS_EmptySet, IntakeAssumption

LEMMA Crashes ==
  ASSUME Sound, BudgetSound, Crash
  PROVE  Sound' /\ BudgetSound' /\ PromiseStep
<1>1. /\ at' = [s \in Starts |-> "none"] /\ outstanding' = 0 /\ waiting' = <<>> /\ running' = {}
      /\ asking' = {} /\ post' = [s \in Starts |-> "none"]
      /\ drain' = [l \in Lists |-> Idle]
      /\ UNCHANGED <<asked, opened, ran, calledOff, mode>>
  BY DEF Crash, Fresh, durable
<1>2. Shapes' /\ ClaimsSound'
  BY <1>1 DEF Sound, Shapes, ClaimsSound
<1>3. DrainsSound'
  <2>1. \A l \in Lists: drain'[l] = Idle
    BY <1>1
  <2>2. \A l \in Lists: DrainSound(drain[l])'
    BY <1>1, <2>1, IdleSound DEF DrainSound
  <2> QED BY <1>1, <2>2 DEF DrainsSound
<1>4. GateSound' /\ BudgetSound'
  <2>0. at' = [s \in Starts |-> "none"] /\ outstanding' = 0 /\ waiting' = <<>> /\ running' = {}
    BY <1>1
  <2>1. /\ LeasedStarts' = {} /\ {s \in Starts: at'[s] # "none"} = {}
        /\ \A s \in Starts: at'[s] = "none"
    BY <2>0, Empty DEF LeasedStarts
  <2>2. /\ DOMAIN waiting' = {} /\ {waiting'[i] : i \in DOMAIN waiting'} = {}
        /\ waiting' \in Seq(Starts) /\ Cardinality({}) = 0 /\ Limit \in Nat
    BY <2>0, Empty
  <2>3. ClaimsAreTasks'
    BY <2>0, <2>1, <2>2 DEF ClaimsAreTasks
  <2>4. BudgetSound'
    BY <2>0, <2>1, <2>2, <2>3 DEF BudgetSound
  <2>5. GateSound'
    BY <2>0, <2>1, <2>2 DEF GateSound, LeaseCount
  <2> QED BY <2>4, <2>5
<1>5. PromiseStep
  BY <1>1 DEF PromiseStep, Promise!promiseVars
<1> QED BY <1>2, <1>3, <1>4, <1>5 DEF Sound

LEMMA Starts0 ==
  ASSUME Init
  PROVE  Sound /\ BudgetSound /\ Promise!PromiseInit
<1>1. GateSound /\ BudgetSound
  <2>0. at = [s \in Starts |-> "none"] /\ outstanding = 0 /\ waiting = <<>> /\ running = {}
    BY DEF Init
  <2>1. /\ LeasedStarts = {} /\ {s \in Starts: at[s] # "none"} = {}
        /\ \A s \in Starts: at[s] = "none"
    BY <2>0, Empty DEF LeasedStarts
  <2>2. /\ DOMAIN waiting = {} /\ {waiting[i] : i \in DOMAIN waiting} = {}
        /\ waiting \in Seq(Starts) /\ Cardinality({}) = 0 /\ Limit \in Nat
    BY <2>0, Empty
  <2>3. ClaimsAreTasks
    BY <2>0, <2>1, <2>2 DEF ClaimsAreTasks
  <2>4. BudgetSound
    BY <2>0, <2>1, <2>2, <2>3 DEF BudgetSound
  <2>5. GateSound
    BY <2>0, <2>1, <2>2 DEF GateSound, LeaseCount
  <2> QED BY <2>4, <2>5
<1>2. Shapes /\ ClaimsSound
  BY DEF Init, Shapes, ClaimsSound
<1>3. drain = [l \in Lists |-> Idle]
  BY DEF Init
<1>4. DrainsSound
  BY <1>3, IdleSound DEF DrainsSound
<1>5. Promise!PromiseInit
  BY DEF Init, Promise!PromiseInit
<1> QED BY <1>1, <1>2, <1>4, <1>5 DEF Sound

\* Every step keeps the invariant and is a step of the promise.
LEMMA Steps ==
  ASSUME Sound, BudgetSound, Next
  PROVE  Sound' /\ BudgetSound' /\ PromiseStep
<1>1. CASE CoordinatorSteps
  <2>1. UNCHANGED <<waiting, running, at>>
    BY <1>1 DEF CoordinatorSteps, Apply, Checkpoint, budget
  <2> QED BY <1>1, <2>1, CoordinatorIsAside, BudgetKept
<1>0. CASE \E l \in Lists: DrainSteps(l) \/ \E late \in SUBSET Lost(Of(l)): OtherStarted(l, late)
  <2>1. PICK l \in Lists: DrainSteps(l) \/ \E late \in SUBSET Lost(Of(l)): OtherStarted(l, late)
    BY <1>0
  <2>2. CASE Admit(l)
    BY <2>2, DrainAdmits
  <2>3. CASE \/ BeginPass(l) \/ Dispatch(l) \/ Offer(l)
             \/ \E late \in SUBSET Lost(Of(l)): OtherStarted(l, late)
    <3>1. UNCHANGED <<waiting, running, at>>
      BY <2>3 DEF BeginPass, Dispatch, Offer, OtherStarted, budget
    <3> QED BY <2>3, <3>1, DrainsAreAside, BudgetKept
  <2> QED BY <2>1, <2>2, <2>3 DEF DrainSteps
<1>2. CASE GateSteps \/ CloseBegin
  <2>1. UNCHANGED <<waiting, running, at>>
    BY <1>2 DEF GateSteps, CloseDone, CloseTimesOut, Reopen, Announce, AnnounceAtStart, CloseBegin, budget
  <2>2. BudgetSound'
    BY <2>1, BudgetKept
  <2>3. Sound' /\ PromiseStep
    BY <1>2, Announcements, Closes, Reopens DEF GateSteps
  <2> QED BY <2>2, <2>3
<1>3. CASE \E s \in Starts: PostRecord(s) \/ AdmitResume(s) \/ PostAdmit(s) \/ Withdraw(s) \/ Answer(s)
  <2>1. UNCHANGED <<waiting, running, at>>
    BY <1>3 DEF PostRecord, AdmitResume, PostAdmit, Withdraw, Answer, budget
  <2>2. BudgetSound'
    BY <2>1, BudgetKept
  <2>3. Sound' /\ PromiseStep
    BY <1>3, Records, Admits, Withdraws, Answers
  <2> QED BY <2>2, <2>3
<1>4. CASE \E s \in Starts, n \in Stamps: ReportHeld(s, n)
  <2>1. UNCHANGED <<waiting, running, at>>
    BY <1>4 DEF ReportHeld, budget
  <2>2. BudgetSound'
    BY <2>1, BudgetKept
  <2>3. Sound' /\ PromiseStep
    BY <1>4, Announcements
  <2> QED BY <2>2, <2>3
<1>5. CASE \E s \in Starts: PostQueue(s) \/ TaskSteps(s) \/ Unread(s) \/ Falter(s)
  BY <1>5, Queues, EntersSlot, Checks, Unreads, Opens, Reports, Rechecks, Finishes, Falters DEF TaskSteps
<1>6. CASE Crash
  BY <1>6, Crashes
<1> QED BY <1>0, <1>1, <1>2, <1>3, <1>4, <1>5, <1>6 DEF Next, Owes, World, HandlerSteps, Entrances

LEMMA Stutters ==
  ASSUME Sound, BudgetSound, UNCHANGED vars
  PROVE  Sound' /\ BudgetSound' /\ PromiseStep
<1>1. UNCHANGED gist /\ drain' = drain /\ UNCHANGED <<waiting, running, at>>
  BY DEF vars, gist
<1>2. DrainsSound'
  BY <1>1, DrainsKept DEF gist
<1> QED BY <1>1, <1>2, Aside, BudgetKept

LEMMA AlwaysSound == Spec => [](Sound /\ BudgetSound)
<1>1. Init => Sound /\ BudgetSound
  BY Starts0
<1>2. Sound /\ BudgetSound /\ [Next]_vars => (Sound /\ BudgetSound)'
  BY Steps, Stutters
<1> QED BY <1>1, <1>2, PTL DEF Spec

\* The gate's count is exact, whatever crashes, refusals and failures meet the tasks that hold leases
\* (maintenance.py AdmissionGate).
THEOREM LeasesAreCounted == Spec => []LeaseCount
<1>1. Sound => LeaseCount
  BY DEF Sound, GateSound
<1> QED BY <1>1, AlwaysSound, PTL

\* The budget leaks no slot and grants none twice, for any limit and any number of starts
\* (execution_budget.py ExecutionBudget).
THEOREM SlotsAreClaimed == Spec => []ClaimsAreTasks
<1>1. BudgetSound => ClaimsAreTasks
  BY DEF BudgetSound
<1> QED BY <1>1, AlwaysSound, PTL

\* The intake implements its promise: nothing starts while the gate is closed, unasked for, twice, or,
\* of the resumes, after its cancel was answered.
THEOREM IntakeKeepsPromise == Spec => ImplementsPromise
<1>1. Init => Promise!PromiseInit
  BY Starts0
<1>2. Sound /\ BudgetSound /\ [Next]_vars => [Promise!PromiseNext]_(Promise!promiseVars)
  BY Steps, Stutters DEF PromiseStep
<1> QED BY <1>1, <1>2, AlwaysSound, PTL DEF Spec, ImplementsPromise, Promise!PromiseSpec

----------------------------------------------------------------------------
(* The to-do records.                                                      *)

EventTypes == {"requested", "withdrawn", "started"}
Event == {<<"open">>} \union (EventTypes \X Starts)

Says(e, type, s) == e[1] = type /\ e[2] = s
Known(s) == record[s].status # "absent"

\* What the drains have read is owed.
TodosOwed == \A l \in Lists: \A entry \in drain[l].todo: entry[2].status \in OwedStatuses

\* What the records say of their executions, against the events still to come: a record is created
\* before its start's event is met, and the event met is applied before it is passed.
RecordsSound ==
  /\ events \in Seq(Event)
  /\ record = [s \in Starts |-> record[s]]
  /\ \A s \in Starts: ~Known(s) <=> record[s] = Absent
  /\ \A s \in Starts: record[s].status = "started" => s \in opened
  /\ \A i \in DOMAIN events, s \in Starts: Says(events[i], "started", s) => s \in opened
  /\ \A s \in Starts: asked[s] # "none" =>
       Known(s) \/ \E i \in DOMAIN events: Says(events[i], "requested", s)
  /\ \A i \in DOMAIN events, s \in Starts: Says(events[i], "started", s) =>
       Known(s) \/ \E j \in DOMAIN events: j < i /\ Says(events[j], "requested", s)
  /\ \A s \in opened: record[s].status = "started" \/
       \E i \in DOMAIN events: Says(events[i], "started", s)
  /\ TodosOwed
  /\ applied =>
       /\ events # <<>>
       /\ \A s \in Starts: /\ Says(events[1], "requested", s) => Known(s)
                           /\ Says(events[1], "started", s) => record[s].status = "started"

LEMMA EventShape ==
  ASSUME NEW e \in Event, e[1] # "open"
  PROVE  e[1] \in EventTypes /\ e[2] \in Starts /\ e = <<e[1], e[2]>>
  BY DEF Event, EventTypes

\* A record that was known stays known, and a started one stays started.
Keeps(s) == /\ record[s].status # "absent" => record'[s].status # "absent"
            /\ record[s].status = "started" => record'[s].status = "started"

\* A step that rewrites records, reads no event and opens nothing.
LEMMA RecordsKept ==
  ASSUME Sound, RecordsSound, UNCHANGED <<events, opened, asked>>,
         record' = [s \in Starts |-> record'[s]],
         \A s \in Starts: /\ Keeps(s)
                          /\ record'[s].status = "started" => record[s].status = "started"
                          /\ record'[s].status = "absent" <=> record'[s] = Absent,
         TodosOwed', applied' => applied
  PROVE  RecordsSound'
<1>1. opened \subseteq Starts
  BY DEF Sound, Shapes
<1>2. \A s \in Starts: /\ Known(s) => Known(s)'
                       /\ record[s].status = "started" <=> record'[s].status = "started"
  BY DEF Keeps, Known
<1>3. \A s \in Starts: ~Known(s)' <=> record'[s] = Absent
  BY DEF Known
<1>4. \A s \in Starts: asked[s] # "none" =>
        Known(s)' \/ \E i \in DOMAIN events: Says(events[i], "requested", s)
  BY <1>2 DEF RecordsSound
<1>5. \A i \in DOMAIN events, s \in Starts: Says(events[i], "started", s) =>
        Known(s)' \/ \E j \in DOMAIN events: j < i /\ Says(events[j], "requested", s)
  BY <1>2 DEF RecordsSound
<1>6. \A s \in opened: record'[s].status = "started" \/
        \E i \in DOMAIN events: Says(events[i], "started", s)
  BY <1>1, <1>2 DEF RecordsSound
<1>7. applied =>
        /\ events # <<>>
        /\ \A s \in Starts: /\ Says(events[1], "requested", s) => Known(s)'
                            /\ Says(events[1], "started", s) => record'[s].status = "started"
  BY <1>2 DEF RecordsSound
<1> QED BY <1>2, <1>3, <1>4, <1>5, <1>6, <1>7 DEF RecordsSound

LEMMA RecordsAside ==
  ASSUME Sound, RecordsSound, UNCHANGED <<events, opened, asked, record>>,
         TodosOwed', applied' => applied
  PROVE  RecordsSound'
  BY DEF RecordsSound, Known

\* One event more, of a start that was opened, or asked for, or of the gate.
LEMMA Published ==
  ASSUME Sound, RecordsSound, NEW e \in Event, events' = Append(events, e),
         UNCHANGED <<record, applied, drain>>,
         \A s \in Starts: asked'[s] # "none" => asked[s] # "none" \/ Says(e, "requested", s),
         \A s \in Starts: s \in opened' <=> s \in opened \/ Says(e, "started", s),
         \A s \in Starts: Says(e, "started", s) => asked[s] # "none",
         opened' \subseteq Starts
  PROVE  RecordsSound'
<1> DEFINE n == Len(events)
<1>1. /\ n \in Nat /\ DOMAIN events = 1..n /\ DOMAIN events' = 1..(n + 1) /\ events' \in Seq(Event)
      /\ \A i \in DOMAIN events: i \in DOMAIN events' /\ events'[i] = events[i] /\ i < n + 1
      /\ events'[n + 1] = e /\ n + 1 \in DOMAIN events'
      /\ \A i \in DOMAIN events': i \in DOMAIN events \/ i = n + 1
      /\ events # <<>> => 1 \in DOMAIN events
      /\ events' # <<>>
  BY DEF RecordsSound
<1> HIDE DEF n
<1>2. \A i \in DOMAIN events', s \in Starts: Says(events'[i], "started", s) => s \in opened'
  BY <1>1 DEF RecordsSound
<1>3. \A s \in Starts: asked'[s] # "none" =>
        Known(s) \/ \E i \in DOMAIN events': Says(events'[i], "requested", s)
  BY <1>1 DEF RecordsSound
<1>4. ASSUME NEW i \in DOMAIN events', NEW s \in Starts, Says(events'[i], "started", s)
      PROVE  Known(s) \/ \E j \in DOMAIN events': j < i /\ Says(events'[j], "requested", s)
  <2>1. CASE i \in DOMAIN events
    BY <1>1, <1>4, <2>1 DEF RecordsSound
  <2>2. CASE i = n + 1
    <3>1. asked[s] # "none"
      BY <1>1, <1>4, <2>2
    <3>2. Known(s) \/ \E j \in DOMAIN events: Says(events[j], "requested", s)
      BY <3>1 DEF RecordsSound
    <3> QED BY <1>1, <2>2, <3>2
  <2> QED BY <1>1, <2>1, <2>2
<1>5. \A s \in opened': record[s].status = "started" \/
        \E i \in DOMAIN events': Says(events'[i], "started", s)
  BY <1>1 DEF RecordsSound
<1>6. \A s \in Starts: record[s].status = "started" => s \in opened'
  BY DEF RecordsSound
<1>7. applied => events' # <<>> /\ events'[1] = events[1]
  BY <1>1 DEF RecordsSound
<1>8. TodosOwed'
  BY DEF RecordsSound, TodosOwed
<1> QED BY <1>1, <1>2, <1>3, <1>4, <1>5, <1>6, <1>7, <1>8 DEF RecordsSound, Known

LEMMA AppliesRecords ==
  ASSUME Sound, RecordsSound, Apply
  PROVE  RecordsSound'
<1> DEFINE e == events[1]
           s == e[2]
<1>1. /\ events # <<>> /\ 1 \in DOMAIN events /\ Head(events) = e /\ e \in Event
      /\ UNCHANGED <<events, opened, asked>> /\ drain' = drain
  BY DEF Apply, RecordsSound
<1>0. TodosOwed'
  BY <1>1 DEF RecordsSound, TodosOwed
<1>2. \A t \in Starts: ~(\E j \in DOMAIN events: j < 1 /\ Says(events[j], "requested", t))
  BY DEF RecordsSound
<1>3. CASE e[1] = "open"
  <2>1. record' = record
    BY <1>1, <1>3 DEF Apply
  <2> QED BY <1>0, <1>1, <1>3, <2>1 DEF RecordsSound, Known, Says
<1>4. CASE e[1] # "open"
  <2>1. e[1] \in EventTypes /\ s \in Starts
    BY <1>1, <1>4, EventShape
  <2>2. \A t \in Starts: t # s => ~Says(e, "requested", t) /\ ~Says(e, "started", t)
    BY DEF Says
  <2> HIDE DEF s
  <2>3. PICK r : record' = record \/ record' = [record EXCEPT ![s] = r]
    BY <1>1, <1>4 DEF Apply, Settle, s
  <2>4. /\ record' = [t \in Starts |-> record'[t]]
        /\ \A t \in Starts: t # s => record'[t] = record[t]
    BY <2>1, <2>3 DEF RecordsSound
  <2>5. /\ record'[s].status = "absent" <=> record'[s] = Absent
        /\ Keeps(s)
        /\ record'[s].status = "started" => s \in opened
        /\ Says(e, "requested", s) => record'[s].status # "absent"
        /\ Says(e, "started", s) => record'[s].status = "started"
    <3>1. CASE e[1] = "requested"
      <4>1. record' = IF record[s] = Absent THEN [record EXCEPT ![s] = Pending] ELSE record
        BY <1>1, <3>1 DEF Apply, s
      <4>2. Pending = [status |-> "pending", attempts |-> 0, stamp |-> 0]
        BY DEF Pending, Absent
      <4>3. record'[s] = IF record[s] = Absent THEN Pending ELSE record[s]
        BY <2>1, <4>1 DEF RecordsSound
      <4> QED BY <2>1, <3>1, <4>2, <4>3 DEF RecordsSound, Known, Keeps, Says, Absent
    <3>2. CASE e[1] = "withdrawn"
      <4>1. Settle(s, "withdrawn")
        BY <1>1, <3>2 DEF Apply, s
      <4>2. record'[s] = record[s] \/
              /\ record[s].status # "started"
              /\ record'[s] = [status |-> "withdrawn", attempts |-> record[s].attempts, stamp |-> 0]
        BY <2>1, <4>1 DEF Settle, MayReplace, RecordsSound
      <4> QED BY <2>1, <3>2, <4>2 DEF RecordsSound, Known, Keeps, Says, Absent
    <3>3. CASE e[1] = "started"
      <4>1. Says(e, "started", s)
        BY <3>3 DEF Says, s
      <4>2. s \in opened /\ Known(s) /\ record[s] # Absent
        BY <1>1, <1>2, <2>1, <4>1 DEF RecordsSound
      <4>3. Settle(s, "started")
        BY <1>1, <3>3, <4>2 DEF Apply, s
      <4>4. \/ record[s].status = "started" /\ record'[s] = record[s]
            \/ record'[s] = [status |-> "started", attempts |-> record[s].attempts, stamp |-> 0]
        BY <2>1, <4>3 DEF Settle, MayReplace, RecordsSound
      <4> QED BY <2>1, <3>3, <4>2, <4>4 DEF RecordsSound, Known, Keeps, Says, Absent
    <3> QED BY <2>1, <3>1, <3>2, <3>3 DEF EventTypes
  <2>6. \A t \in Starts: /\ Known(t)' <=> record'[t] # Absent
                         /\ Known(t) => Known(t)'
                         /\ record[t].status = "started" => record'[t].status = "started"
                         /\ record'[t].status = "started" => t \in opened
    BY <2>4, <2>5 DEF Known, Keeps, RecordsSound
  <2>7. \A t \in Starts: /\ Says(e, "requested", t) => Known(t)'
                         /\ Says(e, "started", t) => record'[t].status = "started"
    BY <2>2, <2>5 DEF Known
  <2>8. \A t \in Starts: asked[t] # "none" =>
          Known(t)' \/ \E i \in DOMAIN events: Says(events[i], "requested", t)
    BY <2>6 DEF RecordsSound
  <2>9. \A i \in DOMAIN events, t \in Starts: Says(events[i], "started", t) =>
          Known(t)' \/ \E j \in DOMAIN events: j < i /\ Says(events[j], "requested", t)
    BY <2>6 DEF RecordsSound
  <2>10. \A t \in opened: record'[t].status = "started" \/
           \E i \in DOMAIN events: Says(events[i], "started", t)
    BY <2>6 DEF RecordsSound, Sound, Shapes
  <2> QED BY <1>0, <1>1, <2>4, <2>6, <2>7, <2>8, <2>9, <2>10 DEF RecordsSound
<1> QED BY <1>3, <1>4

\* The event passed was applied, so nothing it said is lost.
LEMMA PassesRecords ==
  ASSUME Sound, RecordsSound, Checkpoint
  PROVE  RecordsSound'
<1> DEFINE n == Len(events)
<1>1. /\ applied /\ ~applied' /\ events' = Tail(events)
      /\ UNCHANGED <<record, opened, asked, drain>>
  BY DEF Checkpoint
<1>2. /\ events # <<>> /\ n \in Nat /\ n >= 1 /\ DOMAIN events = 1..n /\ DOMAIN events' = 1..(n - 1)
      /\ events' \in Seq(Event)
      /\ \A i \in DOMAIN events': i + 1 \in DOMAIN events /\ events'[i] = events[i + 1]
  BY <1>1 DEF RecordsSound
<1>3. ASSUME NEW i \in DOMAIN events, i # 1
      PROVE  i - 1 \in DOMAIN events' /\ events'[i - 1] = events[i]
  <2>1. i - 1 \in 1..(n - 1) /\ (i - 1) + 1 = i
    BY <1>2, <1>3
  <2> QED BY <1>2, <2>1
<1> HIDE DEF n
<1>4. \A s \in Starts: /\ Says(events[1], "requested", s) => Known(s)
                       /\ Says(events[1], "started", s) => record[s].status = "started"
  <2>1. applied
    BY <1>1
  <2> QED BY <2>1 DEF RecordsSound
<1>5. \A s \in Starts: asked[s] # "none" =>
        Known(s) \/ \E i \in DOMAIN events': Says(events'[i], "requested", s)
  BY <1>3, <1>4 DEF RecordsSound
<1>6. \A s \in opened: record[s].status = "started" \/
        \E i \in DOMAIN events': Says(events'[i], "started", s)
  BY <1>3, <1>4 DEF RecordsSound, Sound, Shapes
<1>7. ASSUME NEW i \in DOMAIN events', NEW s \in Starts, Says(events'[i], "started", s), ~Known(s)
      PROVE  \E j \in DOMAIN events': j < i /\ Says(events'[j], "requested", s)
  <2>1. i + 1 \in DOMAIN events /\ Says(events[i + 1], "started", s)
    BY <1>2, <1>7
  <2>2. PICK j \in DOMAIN events: j < i + 1 /\ Says(events[j], "requested", s)
    BY <2>1, <1>7 DEF RecordsSound
  <2>3. j # 1
    BY <1>4, <1>7, <2>2
  <2>4. j - 1 \in DOMAIN events' /\ events'[j - 1] = events[j]
    BY <1>3, <2>3
  <2>5. j - 1 < i
    BY <1>2, <2>2
  <2> QED BY <2>2, <2>4, <2>5
<1>8. \A i \in DOMAIN events', s \in Starts: Says(events'[i], "started", s) => s \in opened
  BY <1>2 DEF RecordsSound
<1>9. TodosOwed'
  BY <1>1 DEF RecordsSound, TodosOwed
<1> QED BY <1>1, <1>2, <1>5, <1>6, <1>7, <1>8, <1>9 DEF RecordsSound, Known

\* Reporting a failure touches only the dispatch it speaks for.
LEMMA FailedKeeps ==
  ASSUME RecordsSound, NEW t \in Starts, NEW stamp, NEW how, Failed(t, stamp, how)
  PROVE  /\ record' = [s \in Starts |-> record'[s]]
         /\ \A s \in Starts: /\ Keeps(s)
                             /\ record'[s].status = "started" => record[s].status = "started"
                             /\ record'[s].status = "absent" <=> record'[s] = Absent
<1> DEFINE verdict == Verdict(record[t], how)
<1>1. verdict.status \in {"paused", "failed", "retryable"} /\ verdict # Absent
  BY DEF Verdict, Absent
<1> HIDE DEF verdict
<1>2. CASE record[t].status = "dispatched" /\ record' = [record EXCEPT ![t] = verdict]
  <2>1. /\ record' = [s \in Starts |-> record'[s]]
        /\ \A s \in Starts: record'[s] = IF s = t THEN verdict ELSE record[s]
    BY <1>2 DEF RecordsSound
  <2> QED BY <1>1, <1>2, <2>1 DEF RecordsSound, Known, Keeps
<1>3. CASE record' = record
  BY <1>3 DEF RecordsSound, Known, Keeps
<1> QED BY <1>2, <1>3 DEF Failed, verdict

\* A drain that moves on to less than it had read.
LEMMA TodosShrink ==
  ASSUME DrainsSound, TodosOwed, NEW l \in Lists, NEW d, drain' = [drain EXCEPT ![l] = d],
         d.todo \subseteq drain[l].todo
  PROVE  TodosOwed'
<1>1. \A k \in Lists: drain'[k] = IF k = l THEN d ELSE drain[k]
  BY DEF DrainsSound
<1> QED BY <1>1 DEF TodosOwed

LEMMA PassTodo == ASSUME NEW todo PROVE Pass(todo).todo = todo
<1>1. CASE todo = {}
  BY <1>1 DEF Pass, Idle
<1>2. CASE todo # {}
  BY <1>2 DEF Pass, Idle
<1> QED BY <1>1, <1>2

\* A pass reads what is owed.
LEMMA ReadsKeepRecords ==
  ASSUME Sound, RecordsSound, NEW l \in Lists, NEW late, Reads(l, late),
         UNCHANGED <<events, opened, asked, record, applied>>
  PROVE  RecordsSound'
<1>1. \A k \in Lists: drain'[k] = IF k = l THEN Pass(Owed(Of(l), late)) ELSE drain[k]
  BY DEF Reads, Sound, DrainsSound
<1>2. \A entry \in Owed(Of(l), late): entry[2].status \in OwedStatuses
  BY DEF Owed
<1>3. TodosOwed'
  BY <1>1, <1>2, PassTodo DEF TodosOwed, RecordsSound
<1> QED BY <1>3, RecordsAside

LEMMA DispatchesRecords ==
  ASSUME Sound, RecordsSound, NEW l \in Lists, Dispatch(l)
  PROVE  RecordsSound'
<1>1. UNCHANGED <<events, opened, asked, applied>>
  BY DEF Dispatch
<1> DEFINE Free(entry) == CHOOSE n \in Stamps: <<entry[1], n>> \notin held
           Taken(entry) == [status |-> "dispatched", attempts |-> record[entry[1]].attempts,
                            stamp |-> Free(entry)]
           Offering(entry) == [step |-> "offering", todo |-> drain[l].todo \ {entry},
                               now |-> entry[1], stamp |-> Free(entry)]
<1>2. PICK entry \in drain[l].todo:
        \/ /\ record[entry[1]] = entry[2]
           /\ record' = [record EXCEPT ![entry[1]] = Taken(entry)]
           /\ drain' = [drain EXCEPT ![l] = Offering(entry)]
        \/ drain' = [drain EXCEPT ![l] = Pass(drain[l].todo \ {entry})] /\ record' = record
  BY Zenon DEF Dispatch
<1>3. entry[1] \in Starts /\ entry[2].status \in OwedStatuses
  BY DEF Sound, DrainsSound, DrainSound, RecordsSound, TodosOwed
<1>4. TodosOwed'
  <2>1. Offering(entry).todo \subseteq drain[l].todo /\ Pass(drain[l].todo \ {entry}).todo \subseteq drain[l].todo
    BY PassTodo
  <2> HIDE DEF Offering
  <2> QED BY <1>2, <2>1, TodosShrink DEF Sound, RecordsSound
<1>5. CASE record' = record
  BY <1>1, <1>4, <1>5, RecordsAside
<1>6. CASE record[entry[1]] = entry[2] /\ record' = [record EXCEPT ![entry[1]] = Taken(entry)]
  <2>1. Taken(entry).status = "dispatched" /\ Taken(entry) # Absent
    BY DEF Absent
  <2> HIDE DEF Taken, Free
  <2>2. /\ record' = [s \in Starts |-> record'[s]]
        /\ \A s \in Starts: record'[s] = IF s = entry[1] THEN Taken(entry) ELSE record[s]
    BY <1>3, <1>6 DEF RecordsSound
  <2>3. record[entry[1]].status \in OwedStatuses
    BY <1>3, <1>6
  <2>4. \A s \in Starts: /\ Keeps(s)
                         /\ record'[s].status = "started" => record[s].status = "started"
                         /\ record'[s].status = "absent" <=> record'[s] = Absent
    BY <2>1, <2>2, <2>3 DEF RecordsSound, Known, Keeps, OwedStatuses
  <2> QED BY <1>1, <1>4, <2>2, <2>4, RecordsKept
<1> QED BY <1>2, <1>5, <1>6

\* Offers, the reports of tasks, and their ends.
LEMMA FailuresKeepRecords ==
  ASSUME Sound, RecordsSound,
         \/ \E l \in Lists: Offer(l) \/ Admit(l)
         \/ \E s \in Starts: Report(s) \/ \E n \in Stamps: ReportHeld(s, n)
  PROVE  RecordsSound'
<1>1. UNCHANGED <<events, opened, asked, applied>>
  BY DEF Offer, Admit, Report, ReportHeld
<1>2. /\ record' = record \/ \E t \in Starts: \E stamp, how: Failed(t, stamp, how)
      /\ TodosOwed'
  <2>1. ASSUME NEW l \in Lists, Offer(l) \/ Admit(l)
        PROVE  /\ record' = record \/ \E t \in Starts: \E stamp, how: Failed(t, stamp, how)
               /\ TodosOwed'
    <3>1. drain[l].now \in Starts
      BY <2>1 DEF Offer, Admit, Sound, DrainsSound, DrainSound
    <3>2. record' = record \/ \E t \in Starts: \E stamp, how: Failed(t, stamp, how)
      BY <2>1, <3>1 DEF Offer, Admit, Offered
    <3>3. \/ drain' = [drain EXCEPT ![l] = Pass(drain[l].todo)]
          \/ drain' = [drain EXCEPT ![l] = [@ EXCEPT !.step = "admitting"]]
      BY <2>1 DEF Offer, Admit, Offered
    <3>4. [drain[l] EXCEPT !.step = "admitting"].todo = drain[l].todo
      <4>1. drain[l] = [step |-> drain[l].step, todo |-> drain[l].todo, now |-> drain[l].now,
                        stamp |-> drain[l].stamp]
        BY DEF Sound, DrainsSound, DrainSound
      <4> QED BY <4>1
    <3>5. TodosOwed'
      BY <3>3, <3>4, PassTodo, TodosShrink DEF Sound, RecordsSound
    <3> QED BY <3>2, <3>5
  <2>2. CASE \E s \in Starts: Report(s) \/ \E n \in Stamps: ReportHeld(s, n)
    <3>1. record' = record \/ \E t \in Starts: \E stamp, how: Failed(t, stamp, how)
      BY <2>2 DEF Report, ReportHeld
    <3>2. drain' = drain
      BY <2>2 DEF Report, ReportHeld
    <3> QED BY <3>1, <3>2 DEF RecordsSound, TodosOwed
  <2> QED BY <2>1, <2>2
<1>3. CASE record' = record
  BY <1>1, <1>2, <1>3, RecordsAside
<1>4. CASE \E t \in Starts: \E stamp, how: Failed(t, stamp, how)
  BY <1>1, <1>2, <1>4, FailedKeeps, RecordsKept
<1> QED BY <1>2, <1>3, <1>4

\* A stored event more, and what each says.
LEMMA PublishersKeepRecords ==
  ASSUME Sound, RecordsSound, Sound',
         \/ Announce \/ AnnounceAtStart
         \/ \E s \in Starts: PostRecord(s) \/ AdmitResume(s) \/ Withdraw(s) \/ Open(s) \/ Falter(s)
  PROVE  RecordsSound'
<1>1. opened' \subseteq Starts
  BY DEF Sound, Shapes
<1>2. UNCHANGED <<record, applied, drain>>
  BY DEF Announce, AnnounceAtStart, PostRecord, AdmitResume, Withdraw, Open, Falter
<1>3. CASE UNCHANGED <<events, opened, asked>>
  <2>1. TodosOwed' /\ (applied' => applied)
    BY <1>2 DEF RecordsSound, TodosOwed
  <2> QED BY <1>2, <1>3, <2>1, RecordsAside
<1>4. CASE (Announce \/ AnnounceAtStart) /\ events' = Announced
  <2> DEFINE e == <<"open">>
  <2>1. e \in Event /\ \A s \in Starts: ~Says(e, "requested", s) /\ ~Says(e, "started", s)
    BY DEF Event, Says
  <2>2. events' = Append(events, e) /\ UNCHANGED <<opened, asked>>
    BY <1>4 DEF Announce, AnnounceAtStart, Announced
  <2> HIDE DEF e
  <2> QED BY <1>1, <1>2, <2>1, <2>2, Published
<1>5. ASSUME NEW s \in Starts, NEW type \in EventTypes, events' = Append(events, <<type, s>>),
             \A t \in Starts: asked'[t] # "none" => asked[t] # "none" \/ (type = "requested" /\ t = s),
             opened' = IF type = "started" THEN opened \union {s} ELSE opened,
             type = "started" => asked[s] # "none"
      PROVE  RecordsSound'
  <2> DEFINE e == <<type, s>>
  <2>1. e \in Event /\ \A t \in Starts: \A k: Says(e, k, t) <=> k = type /\ t = s
    BY DEF Event, Says
  <2> HIDE DEF e
  <2>2. \A t \in Starts: asked'[t] # "none" => asked[t] # "none" \/ Says(e, "requested", t)
    BY <1>5, <2>1
  <2>3. \A t \in Starts: t \in opened' <=> t \in opened \/ Says(e, "started", t)
    BY <1>5, <2>1
  <2>4. \A t \in Starts: Says(e, "started", t) => asked[t] # "none"
    BY <1>5, <2>1
  <2>5. events' = Append(events, e)
    BY <1>5 DEF e
  <2> QED BY <1>1, <1>2, <2>1, <2>2, <2>3, <2>4, <2>5, Published
<1>6. ASSUME NEW s \in Starts, PostRecord(s) \/ AdmitResume(s)
      PROVE  RecordsSound'
  <2>1. /\ events' = Append(events, <<"requested", s>>) /\ opened' = opened
        /\ asked' = [asked EXCEPT ![s] = "asked"]
    BY <1>6 DEF PostRecord, AdmitResume, Publish
  <2>2. \A t \in Starts: asked'[t] # "none" => asked[t] # "none" \/ t = s
    BY <2>1 DEF Sound, Shapes
  <2> QED BY <2>1, <2>2, <1>5 DEF EventTypes
<1>7. ASSUME NEW s \in Starts, Withdraw(s)
      PROVE  RecordsSound'
  <2>1. /\ events' = Append(events, <<"withdrawn", s>>) /\ opened' = opened
        /\ asked' = [asked EXCEPT ![s] = "withdrawn"] /\ asked[s] = "asked"
    BY <1>7 DEF Withdraw, Publish
  <2>2. \A t \in Starts: asked'[t] # "none" => asked[t] # "none"
    BY <2>1 DEF Sound, Shapes
  <2> QED BY <2>1, <2>2, <1>5 DEF EventTypes
<1>8. ASSUME NEW s \in Starts, Open(s) \/ Falter(s)
      PROVE  RecordsSound'
  <2>1. at[s] = "starting" /\ asked' = asked
    BY <1>8 DEF Open, Falter
  <2>2. asked[s] # "none"
    BY <2>1 DEF Sound, ClaimsSound
  <2>3. \/ UNCHANGED <<events, opened>>
        \/ events' = Append(events, <<"started", s>>) /\ opened' = opened \union {s}
    BY <1>8 DEF Open, Falter, Publish
  <2> QED BY <1>3, <1>5, <2>1, <2>2, <2>3 DEF EventTypes
<1>9. Announce \/ AnnounceAtStart => UNCHANGED <<opened, asked>> /\ (events' = events \/ events' = Announced)
  BY DEF Announce, AnnounceAtStart
<1> QED BY <1>3, <1>4, <1>6, <1>7, <1>8, <1>9

LEMMA RecordsSteps ==
  ASSUME Sound, RecordsSound, Sound', Next
  PROVE  RecordsSound'
<1>1. CASE Apply \/ Checkpoint
  BY <1>1, AppliesRecords, PassesRecords
<1>2. CASE \/ \E l \in Lists: Offer(l) \/ Admit(l)
           \/ \E s \in Starts: Report(s) \/ \E n \in Stamps: ReportHeld(s, n)
  BY <1>2, FailuresKeepRecords
<1>3. CASE \/ Announce \/ AnnounceAtStart
           \/ \E s \in Starts: PostRecord(s) \/ AdmitResume(s) \/ Withdraw(s) \/ Open(s) \/ Falter(s)
  BY <1>3, PublishersKeepRecords
<1>4. ASSUME NEW l \in Lists, BeginPass(l) \/ \E late \in SUBSET Lost(Of(l)): OtherStarted(l, late)
      PROVE  RecordsSound'
  <2>1. PICK late: Reads(l, late)
    BY <1>4 DEF BeginPass, OtherStarted
  <2>2. UNCHANGED <<events, opened, asked, record, applied>>
    BY <1>4 DEF BeginPass, OtherStarted, durable
  <2> QED BY <2>1, <2>2, ReadsKeepRecords
<1>5. ASSUME NEW l \in Lists, Dispatch(l) PROVE RecordsSound'
  BY <1>5, DispatchesRecords
<1>6. CASE Crash
  <2>1. UNCHANGED <<events, opened, asked, record>> /\ ~applied' /\ drain' = [l \in Lists |-> Idle]
    BY <1>6 DEF Crash, Fresh, durable
  <2>2. TodosOwed'
    BY <2>1 DEF TodosOwed, Idle
  <2> QED BY <2>1, <2>2, RecordsAside
<1>7. CASE \/ CloseBegin \/ CloseDone \/ CloseTimesOut \/ Reopen
           \/ \E s \in Starts: PostAdmit(s) \/ PostQueue(s) \/ Answer(s) \/ EnterSlot(s) \/ Check(s)
                               \/ Unread(s) \/ Recheck(s) \/ Finish(s)
  <2>1. UNCHANGED <<events, opened, asked, record, applied, drain>>
    BY <1>7 DEF CloseBegin, CloseDone, CloseTimesOut, Reopen, PostAdmit, PostQueue, Answer, EnterSlot,
         Check, Unread, Recheck, Finish, durable, managers
  <2>2. TodosOwed'
    BY <2>1 DEF RecordsSound, TodosOwed
  <2> QED BY <2>1, <2>2, RecordsAside
<1> QED BY <1>1, <1>2, <1>3, <1>4, <1>5, <1>6, <1>7
         DEF Next, Owes, World, GateSteps, CoordinatorSteps, DrainSteps, HandlerSteps, TaskSteps, Entrances

LEMMA AlwaysRecordsSound == Spec => []RecordsSound
<1>1. Init => RecordsSound
  <2> SUFFICES ASSUME Init PROVE RecordsSound
    OBVIOUS
  <2>1. TodosOwed
    BY DEF Init, TodosOwed, Idle
  <2> QED BY <2>1 DEF Init, RecordsSound, Known, Absent
<1>2. Sound /\ Sound' /\ RecordsSound /\ [Next]_vars => RecordsSound'
  <2>1. ASSUME Sound, Sound', RecordsSound, Next PROVE RecordsSound'
    BY <2>1, RecordsSteps
  <2>2. ASSUME Sound, RecordsSound, UNCHANGED vars PROVE RecordsSound'
    <3>1. UNCHANGED <<events, opened, asked, record, applied, drain>>
      BY <2>2 DEF vars
    <3>2. TodosOwed'
      BY <2>2, <3>1 DEF RecordsSound, TodosOwed
    <3> QED BY <2>2, <3>1, <3>2, RecordsAside
  <2> QED BY <2>1, <2>2
<1> QED BY <1>1, <1>2, AlwaysSound, PTL DEF Spec

\* A to-do record never claims a start that did not happen, and one that happened is recorded as
\* started once its event is passed, whatever failures were reported in between, through any number
\* of crashes and redeliveries (start_record.py, start_todo.py).
THEOREM RecordsAreTrue == Spec => []RecordIsTrue
<1>1. RecordsSound /\ Sound => RecordIsTrue
  <2> SUFFICES ASSUME RecordsSound, Sound, NEW s \in Starts
               PROVE  /\ record[s].status = "started" => s \in opened
                      /\ s \in opened /\ record[s].status # "started" =>
                           \E i \in DOMAIN events: events[i] = <<"started", s>>
    BY DEF RecordIsTrue
  <2>1. record[s].status = "started" => s \in opened
    BY DEF RecordsSound
  <2>2. ASSUME s \in opened, record[s].status # "started"
        PROVE  \E i \in DOMAIN events: events[i] = <<"started", s>>
    <3>1. PICK i \in DOMAIN events: Says(events[i], "started", s)
      BY <2>2 DEF RecordsSound
    <3>2. events[i] \in Event /\ events[i][1] = "started" /\ events[i][2] = s
      BY <3>1 DEF RecordsSound, Says
    <3>3. events[i] = <<"started", s>>
      BY <3>2, EventShape
    <3> QED BY <3>3
  <2> QED BY <2>1, <2>2
<1> QED BY <1>1, AlwaysSound, AlwaysRecordsSound, PTL

----------------------------------------------------------------------------
(* The attempts.                                                           *)

Spent(r) == r.attempts \in Nat /\ (r.attempts >= MaxAttempts => r.status \in {"failed", "started"})
AttemptsSound == \A s \in Starts: Spent(record[s])

LEMMA OneRecord ==
  ASSUME RecordsSound, AttemptsSound, NEW s \in Starts, NEW r, Spent(r),
         record' = [record EXCEPT ![s] = r]
  PROVE  AttemptsSound'
<1>1. \A t \in Starts: record'[t] = IF t = s THEN r ELSE record[t]
  BY DEF RecordsSound
<1> QED BY <1>1 DEF AttemptsSound

LEMMA SettleSpends ==
  ASSUME RecordsSound, AttemptsSound, NEW s \in Starts, NEW status \in {"withdrawn", "started"},
         Settle(s, status)
  PROVE  AttemptsSound'
<1> DEFINE r == [status |-> status, attempts |-> record[s].attempts, stamp |-> 0]
<1>1. CASE record' = record
  BY <1>1 DEF AttemptsSound
<1>2. CASE MayReplace(record[s].status, status) /\ record' = [record EXCEPT ![s] = r]
  <2>1. Spent(r)
    BY <1>2 DEF AttemptsSound, Spent, MayReplace
  <2> HIDE DEF r
  <2> QED BY <1>2, <2>1, OneRecord
<1> QED BY <1>1, <1>2 DEF Settle

LEMMA FailedSpends ==
  ASSUME RecordsSound, AttemptsSound, NEW s \in Starts, NEW stamp, NEW how, Failed(s, stamp, how)
  PROVE  AttemptsSound'
<1> DEFINE r == Verdict(record[s], how)
<1>1. CASE record' = record
  BY <1>1 DEF AttemptsSound
<1>2. CASE record[s].status = "dispatched" /\ record' = [record EXCEPT ![s] = r]
  <2>1. record[s].attempts \in Nat /\ record[s].attempts < MaxAttempts /\ MaxAttempts \in Nat
    BY <1>2, IntakeAssumption DEF AttemptsSound, Spent
  <2>2. Spent(r)
    <3>1. CASE how = "broken"
      BY <2>1, <3>1 DEF Spent, Verdict
    <3>2. CASE how # "broken"
      BY <2>1, <3>2 DEF Spent, Verdict
    <3> QED BY <3>1, <3>2
  <2> HIDE DEF r
  <2> QED BY <1>2, <2>2, OneRecord
<1> QED BY <1>1, <1>2 DEF Failed

LEMMA AttemptsSteps ==
  ASSUME Sound, RecordsSound, AttemptsSound, [Next]_vars
  PROVE  AttemptsSound'
<1>1. CASE record' = record
  BY <1>1 DEF AttemptsSound
<1>2. CASE Apply
  <2> DEFINE e == events[1]
             s == e[2]
  <2>1. Head(events) = e /\ e \in Event /\ events # <<>>
    BY <1>2 DEF Apply, RecordsSound
  <2>2. CASE e[1] = "open"
    BY <1>1, <1>2, <2>1, <2>2 DEF Apply
  <2>3. CASE e[1] # "open"
    <3>1. e[1] \in EventTypes /\ s \in Starts
      BY <2>1, <2>3, EventShape
    <3>2. \/ record' = record
          \/ record' = [record EXCEPT ![s] = Pending]
          \/ \E status \in {"withdrawn", "started"}: Settle(s, status)
      BY <1>2, <2>1, <2>3, <3>1 DEF Apply
    <3> HIDE DEF s
    <3>3. Pending = [status |-> "pending", attempts |-> 0, stamp |-> 0]
      BY DEF Pending, Absent
    <3>4. Spent(Pending)
      BY <3>3, IntakeAssumption DEF Spent
    <3> QED BY <1>1, <3>1, <3>2, <3>4, OneRecord, SettleSpends
  <2> QED BY <2>2, <2>3
<1>3. ASSUME NEW l \in Lists, Dispatch(l) PROVE AttemptsSound'
  <2> DEFINE Free(entry) == CHOOSE n \in Stamps: <<entry[1], n>> \notin held
             Taken(entry) == [status |-> "dispatched", attempts |-> record[entry[1]].attempts,
                              stamp |-> Free(entry)]
  <2>1. PICK entry \in drain[l].todo:
          \/ record[entry[1]] = entry[2] /\ record' = [record EXCEPT ![entry[1]] = Taken(entry)]
          \/ record' = record
    BY <1>3, Zenon DEF Dispatch
  <2>2. entry[1] \in Starts /\ entry[2].status \in OwedStatuses
    BY DEF Sound, DrainsSound, DrainSound, RecordsSound, TodosOwed
  <2>3. record[entry[1]] = entry[2] => Spent(Taken(entry))
    BY <2>2 DEF AttemptsSound, Spent, OwedStatuses
  <2> HIDE DEF Taken
  <2> QED BY <1>1, <2>1, <2>2, <2>3, OneRecord
<1>4. CASE \E t \in Starts: \E stamp, how: Failed(t, stamp, how)
  BY <1>4, FailedSpends
<1>5. ASSUME NEW l \in Lists, Offer(l) \/ Admit(l) PROVE AttemptsSound'
  <2>1. drain[l].now \in Starts
    BY <1>5 DEF Offer, Admit, Sound, DrainsSound, DrainSound
  <2>2. record' = record \/ \E stamp, how: Failed(drain[l].now, stamp, how)
    BY <1>5 DEF Offer, Admit, Offered
  <2> QED BY <1>1, <1>4, <2>1, <2>2
<1>6. CASE \E s \in Starts: Report(s) \/ \E n \in Stamps: ReportHeld(s, n)
  <2>1. record' = record \/ \E t \in Starts: \E stamp, how: Failed(t, stamp, how)
    BY <1>6 DEF Report, ReportHeld
  <2> QED BY <1>1, <1>4, <2>1
<1>7. \/ Apply
      \/ \E l \in Lists: Dispatch(l) \/ Offer(l) \/ Admit(l)
      \/ \E s \in Starts: Report(s) \/ \E n \in Stamps: ReportHeld(s, n)
      \/ record' = record
  BY DEF Next, Owes, World, GateSteps, CoordinatorSteps, DrainSteps, HandlerSteps, TaskSteps, Entrances,
     vars, durable, Checkpoint, BeginPass, OtherStarted, CloseBegin, CloseDone, CloseTimesOut, Reopen, Announce, AnnounceAtStart,
     PostAdmit, PostRecord, PostQueue, AdmitResume, Withdraw, Answer, EnterSlot, Check, Unread, Open, Falter,
     Recheck, Finish, Crash
<1> QED BY <1>1, <1>2, <1>3, <1>5, <1>6, <1>7

LEMMA AlwaysAttemptsSound == Spec => []AttemptsSound
<1>1. Init => AttemptsSound
  BY IntakeAssumption DEF Init, AttemptsSound, Spent, Absent
<1>2. Sound /\ RecordsSound /\ AttemptsSound /\ [Next]_vars => AttemptsSound'
  BY AttemptsSteps
<1> QED BY <1>1, <1>2, AlwaysSound, AlwaysRecordsSound, PTL DEF Spec

\* A start is offered at most MaxAttempts times: its record then is failed, or says that it started
\* after all (start_record.py failed_write).
THEOREM AttemptsAreFinal == Spec => []ExhaustedIsOver
<1>1. AttemptsSound => ExhaustedIsOver
  BY DEF AttemptsSound, Spent, ExhaustedIsOver
<1> QED BY <1>1, AlwaysAttemptsSound, PTL

----------------------------------------------------------------------------
(* The stamps.  Two names for a start's dispatches are enough: a dispatch  *)
(* is under way in one place at a time - offered by its drain, holding a   *)
(* claim, or its refusal still to report - and a record that may be        *)
(* dispatched again leaves one of the two names free.                      *)

Undispatched == {"absent", "pending", "paused", "retryable"}
Offering(d) == d.step \in {"offering", "admitting"}

\* No dispatch of this start under this name is under way.
Free(s, n) ==
  /\ <<s, n>> \notin held /\ dispatch[s] # n
  /\ \A l \in Lists: Offering(drain[l]) /\ drain[l].now = s => drain[l].stamp # n

\* What a drain has read it may still dispatch; what it offers is under way nowhere else.
DrainStamps(l, d) ==
  /\ d.todo \subseteq Of(l) \X Record
  /\ d.stamp \in {0} \union Stamps
  /\ \A a, b \in d.todo: a[1] = b[1] => a = b
  /\ \A entry \in d.todo: dispatch[entry[1]] = 0 /\ \E n \in Stamps: <<entry[1], n>> \notin held
  /\ Offering(d) => /\ d.now \in Of(l) /\ d.stamp \in Stamps
                    /\ dispatch[d.now] = 0 /\ <<d.now, d.stamp>> \notin held
                    /\ \A entry \in d.todo: entry[1] # d.now

TasksStamped ==
  /\ dispatch \in [Starts -> 0..2] /\ held \subseteq Starts \X Stamps
  /\ \A s \in Starts: at[s] = "none" => dispatch[s] = 0
  /\ \A s \in Starts: <<s, dispatch[s]>> \notin held

Rooms == \A s \in Starts: record[s].status \in Undispatched => \E n \in Stamps: Free(s, n)

StampsSound ==
  /\ record \in [Starts -> Record]
  /\ \A l \in Lists: DrainStamps(l, drain[l])
  /\ TasksStamped
  /\ Rooms

\* A start is on one list.
LEMMA OneList ==
  ASSUME NEW k \in Lists, NEW l \in Lists, NEW s \in Of(k), s \in Of(l)
  PROVE  k = l /\ s \in Starts
  BY IntakeAssumption DEF Lists, Of, Starts

\* A step by which dispatches only end, and whose records make room where they must.
LEMMA StampsEnd ==
  ASSUME StampsSound, drain' = drain, held' \subseteq held,
         dispatch' \in [Starts -> 0..2], \A s \in Starts: dispatch'[s] \in {0, dispatch[s]},
         \A s \in Starts: at'[s] = "none" => dispatch'[s] = 0,
         record' \in [Starts -> Record],
         \A s \in Starts: record'[s].status \in Undispatched =>
           record[s].status \in Undispatched \/ \E n \in Stamps: Free(s, n)'
  PROVE  StampsSound'
<1>1. \A l \in Lists: Of(l) \subseteq Starts
  BY DEF Lists, Of, Starts
<1>2. ASSUME NEW l \in Lists
      PROVE  DrainStamps(l, drain[l])'
  <2>1. DrainStamps(l, drain[l]) /\ Of(l) \subseteq Starts
    BY <1>1 DEF StampsSound
  <2>2. \A entry \in drain[l].todo: dispatch'[entry[1]] = 0 /\ \E n \in Stamps: <<entry[1], n>> \notin held'
    BY <2>1 DEF DrainStamps
  <2>3. Offering(drain[l]) => /\ dispatch'[drain[l].now] = 0
                              /\ <<drain[l].now, drain[l].stamp>> \notin held'
    BY <2>1 DEF DrainStamps
  <2> QED BY <2>1, <2>2, <2>3 DEF DrainStamps, Offering
<1>3. TasksStamped'
  BY DEF StampsSound, TasksStamped, Stamps
<1>4. \A s \in Starts, n \in Stamps: Free(s, n) => Free(s, n)'
  BY DEF Free, Stamps, Offering
<1>5. Rooms'
  BY <1>4 DEF StampsSound, Rooms
<1> QED BY <1>2, <1>3, <1>5 DEF StampsSound

\* One drain moves on; the others work on other starts.
LEMMA StampsDrain ==
  ASSUME Sound, StampsSound, NEW l \in Lists, NEW d, drain' = [drain EXCEPT ![l] = d],
         DrainStamps(l, d)', UNCHANGED held, TasksStamped',
         \A s \in Starts \ Of(l): dispatch'[s] = dispatch[s],
         record' \in [Starts -> Record], \A s \in Starts \ Of(l): record'[s] = record[s],
         \A s \in Of(l): record'[s].status \in Undispatched =>
           \E n \in Stamps: <<s, n>> \notin held /\ dispatch'[s] # n
                            /\ (Offering(d) /\ d.now = s => d.stamp # n)
  PROVE  StampsSound'
<1>0. \A k \in Lists: Of(k) \subseteq Starts
  BY DEF Lists, Of, Starts
<1>1. \A k \in Lists: drain'[k] = IF k = l THEN d ELSE drain[k]
  BY DEF Sound, DrainsSound
<1>2. ASSUME NEW k \in Lists, k # l
      PROVE  DrainStamps(k, drain[k])' /\ drain'[k] = drain[k] /\ (Offering(drain[k]) => drain[k].now \in Of(k))
  <2>1. DrainStamps(k, drain[k]) /\ drain'[k] = drain[k]
    BY <1>1, <1>2 DEF StampsSound
  <2>2. \A s \in Of(k): s \in Starts \ Of(l)
    BY <1>0, <1>2, OneList
  <2>3. \A entry \in drain[k].todo: entry[1] \in Of(k)
    BY <2>1 DEF DrainStamps
  <2> QED BY <2>1, <2>2, <2>3 DEF DrainStamps
<1>3. \A k \in Lists: DrainStamps(k, drain[k])'
  BY <1>1, <1>2
<1>4. ASSUME NEW s \in Starts, record'[s].status \in Undispatched
      PROVE  \E n \in Stamps: Free(s, n)'
  <2>1. CASE s \in Of(l)
    <3>1. PICK n \in Stamps: /\ <<s, n>> \notin held /\ dispatch'[s] # n
                             /\ (Offering(d) /\ d.now = s => d.stamp # n)
      BY <1>4, <2>1
    <3>2. \A k \in Lists: k # l => ~(Offering(drain[k]) /\ drain[k].now = s)
      BY <1>2, <2>1, OneList
    <3>3. \A k \in Lists: Offering(drain'[k]) /\ drain'[k].now = s => drain'[k].stamp # n
      BY <1>1, <3>1, <3>2
    <3> QED BY <3>1, <3>3 DEF Free, Offering
  <2>2. CASE s \notin Of(l)
    <3>1. PICK n \in Stamps: Free(s, n)
      BY <1>4, <2>2 DEF StampsSound, Rooms
    <3>2. Offering(d) => d.now \in Of(l)
      BY DEF DrainStamps, Offering
    <3>3. \A k \in Lists: Offering(drain'[k]) /\ drain'[k].now = s => drain'[k].stamp # n
      BY <1>1, <2>2, <3>1, <3>2 DEF Free
    <3> QED BY <2>2, <3>1, <3>3 DEF Free, Offering
  <2> QED BY <2>1, <2>2
<1> QED BY <1>3, <1>4 DEF StampsSound, Rooms

LEMMA VerdictIs ==
  ASSUME NEW r \in Record, r.attempts < MaxAttempts, NEW how
  PROVE  Verdict(r, how) \in Record /\ Verdict(r, how).status \notin {"absent", "dispatched"}
<1>1. MaxAttempts \in Nat /\ r.attempts \in Nat /\ r.attempts + 1 \in 0..MaxAttempts
  BY IntakeAssumption DEF Record
<1>2. CASE how = "broken"
  BY <1>1, <1>2 DEF Verdict, Record
<1>3. CASE how # "broken"
  BY <1>1, <1>3 DEF Verdict, Record
<1> QED BY <1>2, <1>3

\* A failure, reported where its dispatch ends.
LEMMA FailedStamps ==
  ASSUME RecordsSound, AttemptsSound, StampsSound, NEW s \in Starts, NEW stamp, NEW how,
         Failed(s, stamp, how)
  PROVE  /\ record' \in [Starts -> Record]
         /\ \A t \in Starts \ {s}: record'[t] = record[t]
         /\ \/ record' = record
            \/ record[s].status = "dispatched" /\ record[s].stamp = stamp
<1> DEFINE r == Verdict(record[s], how)
<1>1. CASE record' = record
  BY <1>1 DEF StampsSound
<1>2. CASE record[s].status = "dispatched" /\ record[s].stamp = stamp /\ record' = [record EXCEPT ![s] = r]
  <2>1. record[s] \in Record /\ record[s].attempts < MaxAttempts
    <3>1. record[s] \in Record /\ Spent(record[s])
      BY DEF StampsSound, AttemptsSound
    <3>2. record[s].attempts \in Nat /\ MaxAttempts \in Nat
      BY <3>1, IntakeAssumption DEF Spent
    <3> QED BY <1>2, <3>1, <3>2 DEF Spent
  <2>2. r \in Record
    BY <2>1, VerdictIs
  <2> HIDE DEF r
  <2> QED BY <1>2, <2>2 DEF StampsSound
<1> QED BY <1>1, <1>2 DEF Failed

\* The coordinator turns an absent record into a pending one, and ends the others.
LEMMA AppliesStamps ==
  ASSUME Sound, BudgetSound, RecordsSound, StampsSound, Apply
  PROVE  StampsSound'
<1> DEFINE e == events[1]
           s == e[2]
<1>1. /\ Head(events) = e /\ e \in Event /\ events # <<>>
      /\ UNCHANGED <<drain, held, dispatch, at>>
  BY DEF Apply, RecordsSound, budget
<1>2. /\ record' \in [Starts -> Record]
      /\ \A t \in Starts: record'[t].status \in Undispatched => record[t].status \in Undispatched
  <2>1. CASE e[1] = "open"
    BY <1>1, <2>1 DEF Apply, StampsSound
  <2>2. CASE e[1] # "open"
    <3>1. e[1] \in EventTypes /\ s \in Starts
      BY <1>1, <2>2, EventShape
    <3>2. \/ record' = record
          \/ record[s] = Absent /\ record' = [record EXCEPT ![s] = Pending]
          \/ \E status \in {"withdrawn", "started"}: Settle(s, status)
      BY <1>1, <2>2, <3>1 DEF Apply
    <3> HIDE DEF s
    <3>3. Pending = [status |-> "pending", attempts |-> 0, stamp |-> 0] /\ Absent.status = "absent"
      BY DEF Pending, Absent
    <3>4. Pending \in Record
      BY <3>3, IntakeAssumption DEF Record
    <3>5. ASSUME NEW status \in {"withdrawn", "started"}, Settle(s, status)
          PROVE  \/ record' = record
                 \/ \E r \in Record: r.status \notin Undispatched /\ record' = [record EXCEPT ![s] = r]
      <4> DEFINE r == [status |-> status, attempts |-> record[s].attempts, stamp |-> 0]
      <4>1. record[s] \in Record
        BY <3>1 DEF StampsSound
      <4>2. r \in Record /\ r.status \notin Undispatched
        BY <4>1 DEF Record, Undispatched
      <4>3. record' = record \/ record' = [record EXCEPT ![s] = r]
        BY <3>5 DEF Settle
      <4> HIDE DEF r
      <4> QED BY <4>2, <4>3
    <3>6. PICK r \in Record:
            \/ record' = record
            \/ /\ r.status \in Undispatched => record[s].status \in Undispatched
               /\ record' = [record EXCEPT ![s] = r]
      <4>1. CASE record' = record
        BY <3>4, <4>1
      <4>2. CASE record[s] = Absent /\ record' = [record EXCEPT ![s] = Pending]
        BY <3>3, <3>4, <4>2 DEF Undispatched
      <4> QED BY <3>2, <3>4, <3>5, <4>1, <4>2
    <3> QED BY <3>1, <3>6 DEF StampsSound
  <2> QED BY <2>1, <2>2
<1>3. \A t \in Starts: dispatch'[t] \in {0, dispatch[t]} /\ (at'[t] = "none" => dispatch'[t] = 0)
  BY <1>1 DEF StampsSound, TasksStamped
<1>4. dispatch' \in [Starts -> 0..2]
  BY <1>1 DEF StampsSound, TasksStamped
<1> QED BY <1>1, <1>2, <1>3, <1>4, StampsEnd

\* A task that is not in hand holds no dispatch.
LEMMA NotInHand ==
  ASSUME Sound, BudgetSound, StampsSound, NEW s \in Starts, ~Holds(s)
  PROVE  dispatch[s] = 0
<1>1. s \notin running \union {waiting[i] : i \in DOMAIN waiting}
  BY DEF Holds
<1>2. at[s] = "none"
  BY Zenon, <1>1 DEF BudgetSound, ClaimsAreTasks
<1> QED BY <1>2 DEF StampsSound, TasksStamped

LEMMA PassStamps ==
  ASSUME NEW l \in Lists, NEW todo, todo \subseteq Of(l) \X Record,
         \A a, b \in todo: a[1] = b[1] => a = b,
         \A entry \in todo: dispatch[entry[1]] = 0 /\ \E n \in Stamps: <<entry[1], n>> \notin held
  PROVE  DrainStamps(l, Pass(todo)) /\ ~Offering(Pass(todo))
<1>1. Pass(todo) \in {[step |-> "idle", todo |-> todo, now |-> <<>>, stamp |-> 0],
                      [step |-> "pass", todo |-> todo, now |-> <<>>, stamp |-> 0]}
  BY DEF Pass, Idle
<1> QED BY <1>1 DEF DrainStamps, Offering

\* What a pass reads, it may dispatch.
LEMMA ReadsStamps ==
  ASSUME Sound, BudgetSound, StampsSound, NEW l \in Lists, NEW late \in SUBSET Lost(Of(l)), Reads(l, late),
         UNCHANGED <<record, dispatch, held, at>>
  PROVE  StampsSound'
<1> DEFINE todo == Owed(Of(l), late)
<1>1. Of(l) \subseteq Starts
  BY DEF Lists, Of, Starts
<1>2. ASSUME NEW entry \in todo
      PROVE  /\ entry \in Of(l) \X Record /\ entry = <<entry[1], record[entry[1]]>>
             /\ dispatch[entry[1]] = 0 /\ \E n \in Stamps: <<entry[1], n>> \notin held
  <2>1. PICK s \in Of(l): /\ entry = <<s, record[s]>> /\ record[s].status \in OwedStatuses
                          /\ record[s].status = "dispatched" => s \in late
                          /\ ~Holds(s)
    BY DEF Owed
  <2>2. record[s] \in Record /\ dispatch[s] = 0
    BY <1>1, <2>1, NotInHand DEF StampsSound
  <2>3. \E n \in Stamps: <<s, n>> \notin held
    <3>1. CASE record[s].status = "dispatched"
      BY <2>1, <3>1 DEF Lost
    <3>2. CASE record[s].status # "dispatched"
      BY <1>1, <2>1, <3>2 DEF OwedStatuses, Undispatched, StampsSound, Rooms, Free
    <3> QED BY <3>1, <3>2
  <2> QED BY <2>1, <2>2, <2>3
<1> HIDE DEF todo
<1>3. todo \subseteq Of(l) \X Record /\ \A a, b \in todo: a[1] = b[1] => a = b
  BY <1>2
<1>4. DrainStamps(l, Pass(todo)) /\ ~Offering(Pass(todo))
  BY <1>2, <1>3, PassStamps
<1>5. \E d: drain' = [drain EXCEPT ![l] = d] /\ DrainStamps(l, d) /\ ~Offering(d)
  BY <1>4 DEF Reads, todo
<1>6. PICK d: drain' = [drain EXCEPT ![l] = d] /\ DrainStamps(l, d) /\ ~Offering(d)
  BY <1>5
<1>7. DrainStamps(l, d)' /\ TasksStamped' /\ record' \in [Starts -> Record]
  BY <1>6 DEF StampsSound, TasksStamped, DrainStamps, Offering
<1>8. \A s \in Of(l): record'[s].status \in Undispatched =>
        \E n \in Stamps: <<s, n>> \notin held /\ dispatch'[s] # n /\ (Offering(d) /\ d.now = s => d.stamp # n)
  BY <1>1, <1>6 DEF StampsSound, Rooms, Free
<1> QED BY <1>6, <1>7, <1>8, StampsDrain

\* A dispatch takes the free name that was there when its record was read.
LEMMA DispatchesStamps ==
  ASSUME Sound, StampsSound, NEW l \in Lists, Dispatch(l)
  PROVE  StampsSound'
<1> DEFINE Name(entry) == CHOOSE n \in Stamps: <<entry[1], n>> \notin held
           Taken(entry) == [status |-> "dispatched", attempts |-> record[entry[1]].attempts,
                            stamp |-> Name(entry)]
           Offer0(entry) == [step |-> "offering", todo |-> drain[l].todo \ {entry},
                             now |-> entry[1], stamp |-> Name(entry)]
           Rest(entry) == Pass(drain[l].todo \ {entry})
<1>1. /\ drain[l].step = "pass" /\ UNCHANGED <<at, dispatch, held>>
      /\ DrainStamps(l, drain[l]) /\ Of(l) \subseteq Starts
  BY DEF Dispatch, budget, StampsSound, Lists, Of, Starts
<1>2. PICK entry \in drain[l].todo:
        \/ /\ record[entry[1]] = entry[2]
           /\ record' = [record EXCEPT ![entry[1]] = Taken(entry)]
           /\ drain' = [drain EXCEPT ![l] = Offer0(entry)]
        \/ drain' = [drain EXCEPT ![l] = Rest(entry)] /\ record' = record
  BY Zenon DEF Dispatch
<1>3. /\ entry \in Of(l) \X Record /\ dispatch[entry[1]] = 0
      /\ Name(entry) \in Stamps /\ <<entry[1], Name(entry)>> \notin held
      /\ \A other \in drain[l].todo \ {entry}: other[1] # entry[1]
  BY <1>1 DEF DrainStamps
<1> HIDE DEF Name
<1>4. TasksStamped'
  BY <1>1 DEF StampsSound, TasksStamped
<1>5. ASSUME NEW s \in Starts, record[s].status \in Undispatched
      PROVE  \E n \in Stamps: <<s, n>> \notin held /\ dispatch'[s] # n
  BY <1>1, <1>5 DEF StampsSound, Rooms, Free
<1>6. CASE /\ record' = [record EXCEPT ![entry[1]] = Taken(entry)]
           /\ drain' = [drain EXCEPT ![l] = Offer0(entry)]
  <2>1. Taken(entry) \in Record /\ Taken(entry).status \notin Undispatched
    <3>1. record[entry[1]].attempts \in 0..MaxAttempts
      BY <1>1, <1>3 DEF StampsSound, Record
    <3> QED BY <1>3, <3>1 DEF Record, Stamps, Undispatched
  <2>2. PICK d: d = Offer0(entry)
    OBVIOUS
  <2>3. DrainStamps(l, d) /\ d.now = entry[1]
    <3>1. \A other \in drain[l].todo \ {entry}: other \in drain[l].todo
      OBVIOUS
    <3> QED BY <1>1, <1>3, <2>2, <3>1 DEF DrainStamps, Offering
  <2>4. drain' = [drain EXCEPT ![l] = d]
    BY <1>6, <2>2
  <2> HIDE DEF Taken, Offer0
  <2>5. DrainStamps(l, d)'
    BY <1>1, <2>3 DEF DrainStamps, Offering
  <2>6. record' \in [Starts -> Record] /\ \A s \in Starts: record'[s] = IF s = entry[1] THEN Taken(entry) ELSE record[s]
    BY <1>1, <1>3, <1>6, <2>1 DEF StampsSound
  <2>7. ASSUME NEW s \in Of(l), record'[s].status \in Undispatched
        PROVE  \E n \in Stamps: <<s, n>> \notin held /\ dispatch'[s] # n /\ (Offering(d) /\ d.now = s => d.stamp # n)
    <3>1. s # entry[1] /\ s \in Starts /\ record[s].status \in Undispatched
      BY <1>1, <2>1, <2>6, <2>7
    <3> QED BY <1>5, <2>3, <3>1
  <2>8. \A s \in Starts \ Of(l): record'[s] = record[s] /\ dispatch'[s] = dispatch[s]
    BY <1>1, <1>3, <2>6
  <2> QED BY <1>1, <1>4, <2>4, <2>5, <2>6, <2>7, <2>8, StampsDrain
<1>7. CASE drain' = [drain EXCEPT ![l] = Rest(entry)] /\ record' = record
  <2>1. PICK d: d = Rest(entry)
    OBVIOUS
  <2>2. DrainStamps(l, d) /\ ~Offering(d)
    <3>1. PICK rest: rest = drain[l].todo \ {entry}
      OBVIOUS
    <3>2. /\ rest \subseteq Of(l) \X Record /\ \A a, b \in rest: a[1] = b[1] => a = b
          /\ \A other \in rest: dispatch[other[1]] = 0 /\ \E n \in Stamps: <<other[1], n>> \notin held
      BY <1>1, <3>1 DEF DrainStamps
    <3> QED BY <2>1, <3>1, <3>2, PassStamps
  <2>3. DrainStamps(l, d)'
    BY <1>1, <2>2 DEF DrainStamps, Offering
  <2>4. record' \in [Starts -> Record]
    BY <1>7 DEF StampsSound
  <2> QED BY <1>1, <1>4, <1>5, <1>7, <2>1, <2>2, <2>3, <2>4, StampsDrain
<1> QED BY <1>2, <1>6, <1>7

\* An offer that ends: its dispatch is nowhere else, so a failure frees its name.
LEMMA OfferedStamps ==
  ASSUME Sound, RecordsSound, AttemptsSound, StampsSound, NEW l \in Lists, NEW how,
         Offering(drain[l]), Offered(l, how), UNCHANGED <<at, dispatch, held>>
  PROVE  StampsSound'
<1>1. PICK d: d = Pass(drain[l].todo)
  OBVIOUS
<1>2. DrainStamps(l, drain[l]) /\ Of(l) \subseteq Starts
  BY DEF StampsSound, Lists, Of, Starts
<1>3. drain' = [drain EXCEPT ![l] = d] /\ DrainStamps(l, d) /\ ~Offering(d)
  BY <1>1, <1>2, PassStamps DEF Offered, DrainStamps
<1>4. DrainStamps(l, d)' /\ TasksStamped'
  BY <1>3 DEF DrainStamps, StampsSound, TasksStamped, Offering
<1>5. PICK s \in Of(l): s = drain[l].now
  BY <1>2 DEF DrainStamps
<1>6. s \in Starts /\ drain[l].stamp \in Stamps /\ dispatch[s] = 0 /\ <<s, drain[l].stamp>> \notin held
  BY <1>2, <1>5 DEF DrainStamps
<1>7. record' \in [Starts -> Record] /\ \A t \in Starts \ {s}: record'[t] = record[t]
  <2>1. CASE record' = record
    BY <2>1 DEF StampsSound
  <2>2. CASE Failed(s, drain[l].stamp, how)
    BY <1>6, <2>2, FailedStamps
  <2> QED BY <1>5, <2>1, <2>2 DEF Offered
<1>8. \A t \in Of(l): record'[t].status \in Undispatched =>
        \E n \in Stamps: <<t, n>> \notin held /\ dispatch'[t] # n /\ (Offering(d) /\ d.now = t => d.stamp # n)
  <2>1. ASSUME NEW t \in Of(l), t # s, record'[t].status \in Undispatched
        PROVE  \E n \in Stamps: <<t, n>> \notin held /\ dispatch'[t] # n
    <3>1. t \in Starts /\ record[t].status \in Undispatched
      BY <1>2, <1>7, <2>1
    <3> QED BY <3>1 DEF StampsSound, Rooms, Free
  <2>2. <<s, drain[l].stamp>> \notin held /\ dispatch'[s] # drain[l].stamp /\ drain[l].stamp \in Stamps
    BY <1>6 DEF Stamps
  <2> QED BY <1>3, <2>1, <2>2
<1> QED BY <1>2, <1>3, <1>4, <1>5, <1>7, <1>8, StampsDrain

LEMMA OffersStamps ==
  ASSUME Sound, RecordsSound, AttemptsSound, StampsSound, NEW l \in Lists, Offer(l)
  PROVE  StampsSound'
<1>1. drain[l].step = "offering" /\ Offering(drain[l]) /\ UNCHANGED <<at, dispatch, held>>
  BY DEF Offer, Offering, budget
<1>2. CASE \E how: Offered(l, how)
  BY <1>1, <1>2, OfferedStamps
<1>3. CASE drain' = [drain EXCEPT ![l] = [@ EXCEPT !.step = "admitting"]] /\ record' = record
  <2> DEFINE c == [step |-> "admitting", todo |-> drain[l].todo, now |-> drain[l].now, stamp |-> drain[l].stamp]
  <2>1. [drain[l] EXCEPT !.step = "admitting"] = c
    BY DEF Sound, DrainsSound, DrainSound
  <2>2. PICK d: d = c
    OBVIOUS
  <2>3. DrainStamps(l, d) /\ Offering(d) /\ d.now = drain[l].now /\ d.stamp = drain[l].stamp
    BY <1>1, <2>2 DEF StampsSound, DrainStamps, Offering
  <2> HIDE DEF c
  <2>4. DrainStamps(l, d)' /\ TasksStamped' /\ record' \in [Starts -> Record]
    BY <1>1, <1>3, <2>3 DEF DrainStamps, StampsSound, TasksStamped, Offering
  <2>5. Of(l) \subseteq Starts /\ drain' = [drain EXCEPT ![l] = d]
    BY <1>3, <2>1, <2>2 DEF Lists, Of, Starts
  <2>6. \A s \in Of(l): record'[s].status \in Undispatched =>
          \E n \in Stamps: <<s, n>> \notin held /\ dispatch'[s] # n /\ (Offering(d) /\ d.now = s => d.stamp # n)
    BY <1>1, <1>3, <2>3, <2>5 DEF StampsSound, Rooms, Free
  <2> QED BY <1>1, <1>3, <2>4, <2>5, <2>6, StampsDrain
<1> QED BY <1>2, <1>3 DEF Offer

\* A dispatch that is let in passes from its drain to its claim.
LEMMA AdmitsStamps ==
  ASSUME Sound, BudgetSound, RecordsSound, AttemptsSound, StampsSound, NEW l \in Lists, Admit(l)
  PROVE  StampsSound'
<1>1. drain[l].step = "admitting" /\ Offering(drain[l]) /\ held' = held
  BY DEF Admit, Offering
<1>2. CASE UNCHANGED <<at, dispatch>> /\ \E how: Offered(l, how)
  BY <1>1, <1>2, OfferedStamps
<1>3. CASE Offered(l, "taken") /\ Claim(drain[l].now, drain[l].stamp) /\ ~Holds(drain[l].now)
  <2>1. PICK d: d = Pass(drain[l].todo)
    OBVIOUS
  <2>2. DrainStamps(l, drain[l]) /\ Of(l) \subseteq Starts
    BY DEF StampsSound, Lists, Of, Starts
  <2>3. drain' = [drain EXCEPT ![l] = d] /\ DrainStamps(l, d) /\ ~Offering(d) /\ d.todo = drain[l].todo
    BY <1>3, <2>1, <2>2, PassStamps, PassTodo DEF Offered, DrainStamps
  <2>4. PICK s \in Of(l): s = drain[l].now
    BY <1>1, <2>2 DEF DrainStamps
  <2>5. /\ s \in Starts /\ drain[l].stamp \in Stamps /\ <<s, drain[l].stamp>> \notin held
        /\ \A entry \in d.todo: entry[1] # s /\ entry[1] \in Starts
    BY <1>1, <2>2, <2>3, <2>4 DEF DrainStamps
  <2>6. /\ at' = [at EXCEPT ![s] = "queued"] /\ dispatch' = [dispatch EXCEPT ![s] = drain[l].stamp]
        /\ record' = record
    BY <1>3, <2>4 DEF Claim, Offered
  <2>7. /\ dispatch' \in [Starts -> 0..2]
        /\ \A t \in Starts: dispatch'[t] = IF t = s THEN drain[l].stamp ELSE dispatch[t]
        /\ \A t \in Starts: at'[t] = IF t = s THEN "queued" ELSE at[t]
    BY <2>5, <2>6 DEF StampsSound, TasksStamped, Stamps, Sound, Shapes
  <2>8. TasksStamped'
    BY <1>1, <2>5, <2>7 DEF StampsSound, TasksStamped
  <2>9. DrainStamps(l, d)'
    BY <1>1, <2>3, <2>5, <2>7 DEF DrainStamps, Offering
  <2>10. ASSUME NEW t \in Of(l), record'[t].status \in Undispatched
         PROVE  \E n \in Stamps: <<t, n>> \notin held /\ dispatch'[t] # n /\ (Offering(d) /\ d.now = t => d.stamp # n)
    <3>1. PICK n \in Stamps: Free(t, n)
      BY <2>2, <2>6, <2>10 DEF StampsSound, Rooms
    <3>2. dispatch'[t] # n /\ <<t, n>> \notin held
      BY <1>1, <2>2, <2>4, <2>7, <3>1 DEF Free
    <3> QED BY <2>3, <3>2
  <2>11. record' \in [Starts -> Record]
    BY <2>6 DEF StampsSound
  <2> QED BY <1>1, <2>3, <2>4, <2>6, <2>7, <2>8, <2>9, <2>10, <2>11, StampsDrain
<1> QED BY <1>2, <1>3 DEF Admit, Claim, budget

\* A task moves to a stage of its own, or leaves its claim.
LEMMA TaskStamps ==
  ASSUME Sound, StampsSound, NEW s \in Starts, NEW stage, at' = [at EXCEPT ![s] = stage],
         \/ stage # "none" /\ at[s] # "none" /\ dispatch' = dispatch
         \/ dispatch' = [dispatch EXCEPT ![s] = 0]
  PROVE  /\ dispatch' \in [Starts -> 0..2]
         /\ \A t \in Starts: dispatch'[t] \in {0, dispatch[t]} /\ (at'[t] = "none" => dispatch'[t] = 0)
         /\ \A t \in Starts: t # s => dispatch'[t] = dispatch[t]
<1>1. \A t \in Starts: at'[t] = IF t = s THEN stage ELSE at[t]
  BY DEF Sound, Shapes
<1> QED BY <1>1 DEF StampsSound, TasksStamped

\* Tasks that report nothing.
LEMMA TasksKeepStamps ==
  ASSUME Sound, StampsSound, NEW s \in Starts,
         PostQueue(s) \/ Check(s) \/ Unread(s) \/ Open(s) \/ Falter(s) \/ Recheck(s) \/ Finish(s)
  PROVE  StampsSound'
<1>1. UNCHANGED <<record, drain, held>>
  BY DEF PostQueue, Check, Unread, Open, Falter, Recheck, Finish, durable, managers
<1>2. record' \in [Starts -> Record]
  BY <1>1 DEF StampsSound
<1>3. CASE UNCHANGED budget
  <2>1. /\ dispatch' \in [Starts -> 0..2]
        /\ \A t \in Starts: dispatch'[t] = dispatch[t] /\ (at'[t] = "none" => dispatch'[t] = 0)
    BY <1>3 DEF budget, StampsSound, TasksStamped
  <2> QED BY <1>1, <1>2, <2>1, StampsEnd
<1>4. \/ UNCHANGED budget
      \/ \E stage: /\ at' = [at EXCEPT ![s] = stage]
                   /\ \/ stage # "none" /\ at[s] # "none" /\ dispatch' = dispatch
                      \/ dispatch' = [dispatch EXCEPT ![s] = 0]
  <2>1. CASE PostQueue(s)
    BY <2>1 DEF PostQueue, Claim
  <2>2. CASE Leave(s)
    BY <2>2 DEF Leave
  <2>3. CASE /\ at[s] # "none" /\ dispatch' = dispatch
             /\ \E stage: stage # "none" /\ at' = [at EXCEPT ![s] = stage]
    BY <2>3
  <2>4. CASE Check(s)
    BY <2>2, <2>3, <2>4 DEF Check
  <2>5. CASE Open(s)
    <3>1. CASE s \in opened
      BY <2>2, <2>5, <3>1 DEF Open
    <3>2. CASE s \notin opened
      <4>1. PICK stage: stage = IF s \in Resumes THEN "rechecking" ELSE "running"
        OBVIOUS
      <4>2. stage # "none" /\ at' = [at EXCEPT ![s] = stage] /\ at[s] # "none" /\ dispatch' = dispatch
        BY <2>5, <3>2, <4>1 DEF Open
      <4> QED BY <2>3, <4>2
    <3> QED BY <3>1, <3>2
  <2>6. CASE Falter(s)
    <3>1. at[s] # "none" /\ dispatch' = dispatch
      BY <2>6 DEF Falter
    <3>2. at' = [at EXCEPT ![s] = "refused"] \/ at' = [at EXCEPT ![s] = "broken"]
      BY <2>6 DEF Falter
    <3> QED BY <2>3, <3>1, <3>2
  <2>7. CASE Recheck(s)
    BY <2>2, <2>3, <2>7 DEF Recheck
  <2>8. CASE Finish(s)
    BY <2>2, <2>8 DEF Finish
  <2>9. CASE Unread(s)
    BY <2>2, <2>3, <2>9 DEF Unread
  <2> QED BY <2>1, <2>4, <2>5, <2>6, <2>7, <2>8, <2>9
<1>5. CASE \E stage: /\ at' = [at EXCEPT ![s] = stage]
                     /\ \/ stage # "none" /\ at[s] # "none" /\ dispatch' = dispatch
                        \/ dispatch' = [dispatch EXCEPT ![s] = 0]
  BY <1>1, <1>2, <1>5, TaskStamps, StampsEnd
<1> QED BY <1>3, <1>4, <1>5

\* A refusal at the slot keeps its dispatch's name until it is reported.
LEMMA EntersStamps ==
  ASSUME Sound, StampsSound, NEW s \in Starts, EnterSlot(s)
  PROVE  StampsSound'
<1>1. UNCHANGED <<record, drain>> /\ at[s] = "queued"
  BY DEF EnterSlot, durable, managers
<1>2. record' \in [Starts -> Record]
  BY <1>1 DEF StampsSound
<1>3. CASE at' = [at EXCEPT ![s] = "checking"] /\ dispatch' = dispatch /\ held' = held
  BY <1>1, <1>2, <1>3, TaskStamps, StampsEnd
<1>4. CASE Leave(s) /\ dispatch[s] = 0 /\ held' = held
  BY <1>1, <1>2, <1>4, TaskStamps, StampsEnd DEF Leave
<1>5. CASE Leave(s) /\ dispatch[s] # 0 /\ held' = held \union {<<s, dispatch[s]>>}
  <2>1. /\ dispatch' \in [Starts -> 0..2] /\ dispatch'[s] = 0
        /\ \A t \in Starts: dispatch'[t] \in {0, dispatch[t]} /\ (at'[t] = "none" => dispatch'[t] = 0)
        /\ \A t \in Starts: t # s => dispatch'[t] = dispatch[t]
    BY <1>5, TaskStamps DEF Leave, StampsSound, TasksStamped
  <2>2. dispatch[s] \in Stamps /\ held \subseteq Starts \X Stamps /\ dispatch \in [Starts -> 0..2]
    BY <1>5 DEF StampsSound, TasksStamped, Stamps
  <2>3. TasksStamped'
    <3>1. held' \subseteq Starts \X Stamps
      BY <1>5, <2>2
    <3>2. \A t \in Starts: <<t, dispatch'[t]>> \notin held'
      <4>1. <<s, 0>> \notin held'
        BY <3>1 DEF Stamps
      <4>2. \A t \in Starts: t # s => <<t, dispatch[t]>> \notin held'
        BY <1>5 DEF StampsSound, TasksStamped
      <4> QED BY <2>1, <4>1, <4>2
    <3> QED BY <2>1, <3>1, <3>2 DEF TasksStamped
  <2>4. ASSUME NEW l \in Lists
        PROVE  DrainStamps(l, drain[l])'
    <3>1. DrainStamps(l, drain[l]) /\ Of(l) \subseteq Starts
      BY DEF StampsSound, Lists, Of, Starts
    <3>2. ASSUME NEW entry \in drain[l].todo
          PROVE  dispatch'[entry[1]] = 0 /\ \E n \in Stamps: <<entry[1], n>> \notin held'
      <4>1. entry[1] \in Starts /\ dispatch[entry[1]] = 0 /\ entry[1] # s
        BY <1>5, <3>1, <3>2 DEF DrainStamps
      <4> QED BY <1>5, <2>1, <3>1, <3>2, <4>1 DEF DrainStamps
    <3>3. ASSUME Offering(drain[l])
          PROVE  dispatch'[drain[l].now] = 0 /\ <<drain[l].now, drain[l].stamp>> \notin held'
      <4>1. drain[l].now \in Starts /\ dispatch[drain[l].now] = 0 /\ drain[l].now # s
        BY <1>5, <3>1, <3>3 DEF DrainStamps
      <4> QED BY <1>5, <2>1, <3>1, <3>3, <4>1 DEF DrainStamps
    <3> QED BY <1>1, <3>1, <3>2, <3>3 DEF DrainStamps, Offering
  <2>5. ASSUME NEW t \in Starts, NEW n \in Stamps, Free(t, n)
        PROVE  Free(t, n)'
    <3>1. <<t, n>> \notin held'
      BY <1>5, <2>5 DEF Free
    <3>2. dispatch'[t] # n
      BY <2>1, <2>5 DEF Free, Stamps
    <3> QED BY <1>1, <2>5, <3>1, <3>2 DEF Free, Offering
  <2>6. Rooms'
    BY <1>1, <2>5 DEF StampsSound, Rooms
  <2> QED BY <1>2, <2>3, <2>4, <2>6 DEF StampsSound
<1> QED BY <1>3, <1>4, <1>5 DEF EnterSlot

\* A failure reported by its task, which leaves, or after the task had left.
LEMMA ReportsStamps ==
  ASSUME Sound, RecordsSound, AttemptsSound, StampsSound, NEW s \in Starts,
         Report(s) \/ \E n \in Stamps: ReportHeld(s, n)
  PROVE  StampsSound'
<1>1. drain' = drain
  BY DEF Report, ReportHeld, managers
<1>2. \A l \in Lists: Offering(drain[l]) =>
        /\ dispatch[drain[l].now] = 0 /\ <<drain[l].now, drain[l].stamp>> \notin held
        /\ drain[l].now \in Starts
  BY DEF StampsSound, DrainStamps, Lists, Of, Starts
<1>3. ASSUME NEW stamp \in Stamps, NEW how, Failed(s, stamp, how), held' \subseteq held,
             dispatch' \in [Starts -> 0..2],
             \A t \in Starts: dispatch'[t] \in {0, dispatch[t]} /\ (at'[t] = "none" => dispatch'[t] = 0),
             <<s, stamp>> \notin held', dispatch'[s] # stamp,
             \A l \in Lists: Offering(drain[l]) /\ drain[l].now = s => drain[l].stamp # stamp
      PROVE  StampsSound'
  <2>1. record' \in [Starts -> Record] /\ \A t \in Starts \ {s}: record'[t] = record[t]
    BY <1>3, FailedStamps
  <2>2. Free(s, stamp)'
    BY <1>1, <1>3 DEF Free, Offering
  <2>3. \A t \in Starts: record'[t].status \in Undispatched =>
          record[t].status \in Undispatched \/ \E n \in Stamps: Free(t, n)'
    <3>1. \A t \in Starts: t # s => record'[t] = record[t]
      BY <2>1
    <3> QED BY <1>3, <2>2, <3>1
  <2> QED BY <1>1, <1>3, <2>1, <2>3, StampsEnd
<1>4. CASE Report(s)
  <2>1. /\ at[s] # "none" /\ held' = held
        /\ at' = [at EXCEPT ![s] = "none"] /\ dispatch' = [dispatch EXCEPT ![s] = 0]
    BY <1>4 DEF Report, Leave
  <2>2. /\ dispatch' \in [Starts -> 0..2] /\ dispatch'[s] = 0
        /\ \A t \in Starts: dispatch'[t] \in {0, dispatch[t]} /\ (at'[t] = "none" => dispatch'[t] = 0)
    BY <2>1, TaskStamps DEF StampsSound, TasksStamped
  <2>3. CASE dispatch[s] = 0
    <3>1. record' = record /\ record' \in [Starts -> Record]
      BY <1>4, <2>3 DEF Report, StampsSound
    <3> QED BY <1>1, <2>1, <2>2, <3>1, StampsEnd
  <2>4. CASE dispatch[s] # 0
    <3>1. Failed(s, dispatch[s], at[s])
      BY <1>4, <2>4 DEF Report
    <3>2. dispatch[s] \in Stamps /\ <<s, dispatch[s]>> \notin held
      BY <2>4 DEF StampsSound, TasksStamped, Stamps
    <3>3. \A l \in Lists: Offering(drain[l]) => drain[l].now # s
      BY <1>2, <2>4
    <3>4. PICK stamp \in Stamps: stamp = dispatch[s]
      BY <3>2
    <3>5. dispatch'[s] # stamp /\ <<s, stamp>> \notin held'
      BY <2>1, <2>2, <2>4, <3>2, <3>4
    <3> QED BY <1>3, <2>1, <2>2, <3>1, <3>3, <3>4, <3>5
  <2> QED BY <2>3, <2>4
<1>5. ASSUME NEW n \in Stamps, ReportHeld(s, n)
      PROVE  StampsSound'
  <2>1. /\ <<s, n>> \in held /\ held' = held \ {<<s, n>>} /\ Failed(s, n, "held")
        /\ UNCHANGED <<at, dispatch>>
    BY <1>5 DEF ReportHeld, budget
  <2>2. /\ dispatch' \in [Starts -> 0..2] /\ dispatch'[s] # n
        /\ \A t \in Starts: dispatch'[t] \in {0, dispatch[t]} /\ (at'[t] = "none" => dispatch'[t] = 0)
    BY <2>1 DEF StampsSound, TasksStamped
  <2>3. \A l \in Lists: Offering(drain[l]) /\ drain[l].now = s => drain[l].stamp # n
    BY <1>2, <2>1
  <2> QED BY <1>3, <2>1, <2>2, <2>3
<1> QED BY <1>4, <1>5

LEMMA CrashesStamps ==
  ASSUME StampsSound, Crash
  PROVE  StampsSound'
<1>1. /\ record' = record /\ held' = {} /\ dispatch' = [s \in Starts |-> 0]
      /\ at' = [s \in Starts |-> "none"] /\ drain' = [l \in Lists |-> Idle]
  BY DEF Crash, Fresh, durable
<1>2. Idle = [step |-> "idle", todo |-> {}, now |-> <<>>, stamp |-> 0]
  BY DEF Idle
<1>3. \A l \in Lists: DrainStamps(l, drain[l])'
  BY <1>1, <1>2 DEF DrainStamps, Offering
<1>4. TasksStamped'
  BY <1>1 DEF TasksStamped
<1>5. \A s \in Starts: Free(s, 1)'
  BY <1>1, <1>2 DEF Free, Offering
<1> QED BY <1>1, <1>3, <1>4, <1>5 DEF StampsSound, Rooms, Stamps

LEMMA StampsStay ==
  ASSUME StampsSound, UNCHANGED <<record, drain, at, dispatch, held>>
  PROVE  StampsSound'
<1>1. /\ dispatch' \in [Starts -> 0..2] /\ record' \in [Starts -> Record]
      /\ \A s \in Starts: dispatch'[s] = dispatch[s] /\ (at'[s] = "none" => dispatch'[s] = 0)
  BY DEF StampsSound, TasksStamped
<1> QED BY <1>1, StampsEnd

LEMMA StampsSteps ==
  ASSUME Sound, BudgetSound, RecordsSound, AttemptsSound, StampsSound, Next
  PROVE  StampsSound'
<1>1. CASE Apply
  BY <1>1, AppliesStamps
<1>2. ASSUME NEW l \in Lists, NEW late \in SUBSET Lost(Of(l)), BeginPass(l) \/ OtherStarted(l, late)
      PROVE  StampsSound'
  <2>1. UNCHANGED <<record, dispatch, held, at>>
    BY <1>2 DEF BeginPass, OtherStarted, durable, budget
  <2>2. \E some \in SUBSET Lost(Of(l)): Reads(l, some)
    BY <1>2 DEF BeginPass, OtherStarted
  <2> QED BY <2>1, <2>2, ReadsStamps
<1>3. ASSUME NEW l \in Lists, Dispatch(l) \/ Offer(l) \/ Admit(l)
      PROVE  StampsSound'
  BY <1>3, DispatchesStamps, OffersStamps, AdmitsStamps
<1>4. ASSUME NEW s \in Starts,
             \/ PostQueue(s) \/ EnterSlot(s) \/ Check(s) \/ Unread(s) \/ Open(s) \/ Falter(s) \/ Report(s)
             \/ Recheck(s) \/ Finish(s) \/ \E n \in Stamps: ReportHeld(s, n)
      PROVE  StampsSound'
  BY <1>4, TasksKeepStamps, EntersStamps, ReportsStamps
<1>5. CASE Crash
  BY <1>5, CrashesStamps
<1>6. CASE \/ CloseBegin \/ CloseDone \/ CloseTimesOut \/ Reopen \/ Announce \/ AnnounceAtStart \/ Checkpoint
           \/ \E s \in Starts: PostAdmit(s) \/ PostRecord(s) \/ AdmitResume(s) \/ Withdraw(s) \/ Answer(s)
  <2>1. UNCHANGED <<record, drain, at, dispatch, held>>
    BY <1>6 DEF CloseBegin, CloseDone, CloseTimesOut, Reopen, Announce, AnnounceAtStart, Checkpoint,
         PostAdmit, PostRecord, AdmitResume, Withdraw, Answer, durable, budget
  <2> QED BY <2>1, StampsStay
<1>7. \A l \in Lists: BeginPass(l) => \E late \in SUBSET Lost(Of(l)): BeginPass(l)
  OBVIOUS
<1> QED BY <1>1, <1>2, <1>3, <1>4, <1>5, <1>6, <1>7
         DEF Next, Owes, World, GateSteps, CoordinatorSteps, DrainSteps, HandlerSteps, TaskSteps, Entrances

LEMMA AlwaysStampsSound == Spec => []StampsSound
<1>1. Init => StampsSound
  <2> SUFFICES ASSUME Init PROVE StampsSound
    OBVIOUS
  <2>1. Idle = [step |-> "idle", todo |-> {}, now |-> <<>>, stamp |-> 0]
    BY DEF Idle
  <2>2. \A l \in Lists: DrainStamps(l, drain[l])
    BY <2>1 DEF Init, DrainStamps, Offering
  <2>3. TasksStamped
    BY DEF Init, TasksStamped
  <2>4. \A s \in Starts: Free(s, 1)
    BY <2>1 DEF Init, Free, Offering
  <2>5. record \in [Starts -> Record]
    BY IntakeAssumption DEF Init, Absent, Record
  <2> QED BY <2>2, <2>3, <2>4, <2>5 DEF StampsSound, Rooms, Stamps
<1>2. Sound /\ BudgetSound /\ RecordsSound /\ AttemptsSound /\ StampsSound /\ [Next]_vars => StampsSound'
  <2>1. ASSUME StampsSound, UNCHANGED vars PROVE StampsSound'
    BY <2>1, StampsStay DEF vars
  <2> QED BY <2>1, StampsSteps
<1> QED BY <1>1, <1>2, AlwaysSound, AlwaysRecordsSound, AlwaysAttemptsSound, PTL DEF Spec

----------------------------------------------------------------------------
(* The shapes of the rest: the gate's writer and the coordinator.          *)

\* The live boundary is within the stored events, however they are passed and added to.
CoordinatorSound ==
  /\ put \in {"none", "closing", "announcing"} /\ up \in BOOLEAN
  /\ applied \in BOOLEAN /\ woken \subseteq Lists
  /\ backlog \in Nat /\ backlog <= Len(events)

LEMMA MoreEvents ==
  ASSUME RecordsSound, NEW e, events' = Append(events, e)
  PROVE  Len(events') = Len(events) + 1 /\ Len(events) \in Nat
  BY DEF RecordsSound

LEMMA CoordinatorKept ==
  ASSUME Sound, RecordsSound, CoordinatorSound, [Next]_vars
  PROVE  CoordinatorSound'
<1>0. Len(events) \in Nat
  BY DEF RecordsSound
<1>1. CASE Checkpoint
  <2>1. /\ events # <<>> /\ Len(events') = Len(events) - 1 /\ UNCHANGED <<put, up>>
    BY <1>1 DEF Checkpoint, RecordsSound
  <2>0. applied' \in BOOLEAN
    BY <1>1, Zenon DEF Checkpoint
  <2>2. Len(events) >= 1 /\ Head(events) \in Event
    BY <2>1 DEF RecordsSound
  <2>3. CASE backlog = 0
    <3>1. ListOf(Head(events)[2]) \in Lists
      BY DEF ListOf, Lists
    <3>2. Subscribed(Head(events)) \subseteq Lists
      BY <3>1 DEF Subscribed
    <3>3. woken' = woken \union Subscribed(Head(events)) /\ backlog' = backlog
      BY <1>1, <2>3 DEF Checkpoint
    <3> QED BY <1>0, <2>0, <2>1, <2>2, <2>3, <3>2, <3>3 DEF CoordinatorSound
  <2>4. CASE backlog # 0
    <3>1. woken' = woken /\ backlog' = backlog - 1
      BY <1>1, <2>4 DEF Checkpoint
    <3> QED BY <1>0, <2>0, <2>1, <2>2, <2>4, <3>1 DEF CoordinatorSound
  <2> QED BY <2>3, <2>4
<1>2. CASE Crash
  <2>1. applied' \in BOOLEAN /\ up' \in BOOLEAN
    BY <1>2, Zenon DEF Crash, Fresh
  <2> QED BY <1>0, <1>2, <2>1 DEF Crash, Fresh, durable, CoordinatorSound
<1>3. CASE Apply
  BY <1>3 DEF Apply, CoordinatorSound
<1>4. CASE GateSteps \/ CloseBegin
  <2>1. UNCHANGED <<backlog, applied, woken>>
    BY <1>4 DEF GateSteps, CloseBegin, CloseDone, CloseTimesOut, Reopen, Announce, AnnounceAtStart, managers
  <2>2. put' \in {"none", "closing", "announcing"} /\ up' \in BOOLEAN
    BY <1>4 DEF GateSteps, CloseBegin, CloseDone, CloseTimesOut, Reopen, Announce, AnnounceAtStart, CoordinatorSound
  <2>3. events' = events \/ events' = Append(events, <<"open">>)
    BY <1>4 DEF GateSteps, CloseBegin, CloseDone, CloseTimesOut, Reopen, Announce, AnnounceAtStart, Announced, durable
  <2> QED BY <1>0, <2>1, <2>2, <2>3, MoreEvents DEF CoordinatorSound
<1>5. ASSUME NEW l \in Lists, DrainSteps(l) \/ \E late \in SUBSET Lost(Of(l)): OtherStarted(l, late)
      PROVE  CoordinatorSound'
  <2>1. UNCHANGED <<events, backlog, applied, put, up>> /\ woken' \subseteq woken
    BY <1>5 DEF DrainSteps, BeginPass, Dispatch, Offer, Admit, OtherStarted, durable
  <2> QED BY <2>1 DEF CoordinatorSound
<1>6. ASSUME NEW s \in Starts,
             HandlerSteps(s) \/ TaskSteps(s) \/ Entrances(s) \/ Withdraw(s) \/ Unread(s) \/ Falter(s)
      PROVE  CoordinatorSound'
  <2>1. UNCHANGED <<backlog, applied, woken, put, up>>
    BY <1>6 DEF HandlerSteps, TaskSteps, Entrances, PostRecord, PostQueue, Answer, ReportHeld, EnterSlot,
         Check, Open, Report, Recheck, Finish, PostAdmit, AdmitResume, Withdraw, Unread, Falter, managers
  <2>2. events' = events \/ \E e: events' = Append(events, e)
    BY <1>6 DEF HandlerSteps, TaskSteps, Entrances, PostRecord, PostQueue, Answer, ReportHeld, EnterSlot,
         Check, Open, Report, Recheck, Finish, PostAdmit, AdmitResume, Withdraw, Unread, Falter, durable, Publish
  <2> QED BY <1>0, <2>1, <2>2, MoreEvents DEF CoordinatorSound
<1>7. CASE UNCHANGED vars
  BY <1>7 DEF vars, CoordinatorSound
<1> QED BY <1>1, <1>2, <1>3, <1>4, <1>5, <1>6, <1>7 DEF Next, Owes, World, CoordinatorSteps

\* The state keeps its shape for any number of starts and attempts, without a bound on the requests,
\* crashes and pauses: two names for a start's dispatches are enough, no start is on two lists, no
\* record exceeds its attempts, and the live boundary lies within the stored events.
THEOREM IntakeTypesHold == Spec => []IntakeTypeOK
<1>1. Init => CoordinatorSound
  <2>1. Init => applied \in BOOLEAN /\ up \in BOOLEAN
    BY Zenon DEF Init
  <2>2. Init => backlog \in Nat /\ backlog <= Len(events)
    BY DEF Init
  <2>3. Init => woken \subseteq Lists /\ put \in {"none", "closing", "announcing"}
    BY DEF Init
  <2> QED BY <2>1, <2>2, <2>3 DEF CoordinatorSound
<1>2. Sound /\ RecordsSound /\ CoordinatorSound /\ [Next]_vars => CoordinatorSound'
  BY CoordinatorKept
<1>3. Sound /\ BudgetSound /\ RecordsSound /\ StampsSound /\ CoordinatorSound => IntakeTypeOK
  <2> SUFFICES ASSUME Sound, BudgetSound, RecordsSound, StampsSound, CoordinatorSound
               PROVE  IntakeTypeOK
    OBVIOUS
  <2>1. backlog \in 0..Len(events)
    BY DEF CoordinatorSound, RecordsSound
  <2>2. \A l \in Lists: drain[l].todo \subseteq Of(l) \X Record /\ drain[l].stamp \in {0} \union Stamps
    BY DEF StampsSound, DrainStamps
  <2>3. Shapes /\ TasksStamped /\ record \in [Starts -> Record] /\ running \subseteq Starts
    BY DEF Sound, StampsSound, BudgetSound
  <2> QED BY <2>1, <2>2, <2>3 DEF IntakeTypeOK, CoordinatorSound, Shapes, TasksStamped
<1> QED BY <1>1, <1>2, <1>3, AlwaysSound, AlwaysRecordsSound, AlwaysStampsSound, PTL DEF Spec

=============================================================================
