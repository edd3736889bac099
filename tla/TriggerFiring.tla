---------------------------- MODULE TriggerFiring ----------------------------
(***************************************************************************)
(* How a GitHub event fires a trigger rule: the pipeline's dedup table,    *)
(* the rules read from a projection that lags behind their streams, the    *)
(* safety guards under a lock of the rule and the pull request, and the    *)
(* rule's stream, written by the handlers of concurrent events and by      *)
(* pause, resume and delete.  One API process, whose memory (the locks and *)
(* the guard's running executions) a crash takes.                          *)
(***************************************************************************)
EXTENDS Naturals, Sequences, FiniteSets

CONSTANTS
  Rules,         \* registered trigger rules, all of them subscribed to these events
  Presentations, \* what webhooks and pollers hand to the pipeline: an event may come more than once
  Event,         \* the event a presentation is of (its dedup key)
  Delivery,      \* its idempotency id: a webhook's delivery id, or for a poll the dedup key
  Pr,            \* the pull request of an event, or NoPr
  NoPr,
  Met,           \* the pairs of a rule and an event that meets its conditions
  MaxAttempts,   \* max_attempts of every rule
  MaxUpsets      \* bound: crashes, unanswered dedup checks, expired keys, unacknowledged appends,
                 \* failed delivery records, commands to pause, resume or delete

ASSUME FiringAssumption ==
  /\ IsFiniteSet(Rules) /\ IsFiniteSet(Presentations)
  /\ MaxAttempts \in Nat \ {0} /\ MaxUpsets \in Nat
  /\ "manager" \notin Presentations
  \* A redelivery is of the same event.
  /\ \A h, k \in Presentations : Delivery[h] = Delivery[k] => Event[h] = Event[k]

VARIABLES
  status,     \* per rule, the status of its aggregate
  fired,      \* the executions fired, each named by its rule and presentation
  answered,   \* the rules and presentations recorded as fired or as blocked
  events,     \* the stored events the projections have not applied
  index,      \* per rule, its status in the trigger index
  counted,    \* the fire records
  deliveries, \* the deliveries recorded as processed
  marked,     \* the dedup table
  at,         \* per presentation, the step of the handler working on it
  rule,       \* the rule it is evaluating
  todo,       \* the rules it has yet to evaluate
  managing,   \* per rule, the step of the command in progress, and the command
  readers,    \* per rule, who has read its stream as it now is
  running,    \* the concurrency guard's running executions
  over,       \* executions that completed or failed
  forgotten,  \* executions whose fire no process remembers
  expired,    \* events whose key the dedup table has deleted
  unchecked,  \* presentations let in past the dedup table: no answer, or the key had expired
  upsets      \* how many of what MaxUpsets bounds have happened

stream == <<status, fired, answered, events>>
store  == <<index, counted, deliveries, marked>>
memory == <<at, rule, todo, managing, readers, running>>
vars == <<status, fired, answered, events, index, counted, deliveries, marked, at, rule, todo,
          managing, readers, running, over, forgotten, expired, unchecked, upsets>>

Upset == upsets < MaxUpsets /\ upsets' = upsets + 1

PrOf(h) == Pr[Event[h]]
\* The executions in xs fired by rule t for the pull request pr.
Of(xs, t, pr) == {x \in xs : x[1] = t /\ PrOf(x[2]) = pr}

At(h, step) == at' = [at EXCEPT ![h] = step]
\* The next rule, or the end of the evaluation.
Proceed(h) == At(h, IF todo[h] = {} THEN "done" ELSE "next")

----------------------------------------------------------------------------
(* The pipeline: the dedup check, then the active rules of the index.      *)

Evaluate(h) ==
  LET rules == {t \in Rules : index[t] = "active"}
  IN todo' = [todo EXCEPT ![h] = rules] /\ At(h, IF rules = {} THEN "done" ELSE "next")

\* Mutant of Deduplicated: the key counts once the event has been dealt with.
DeduplicatedOnceDone(h) == \E k \in Presentations : Event[k] = Event[h] /\ at[k] = "done"

Deduplicated(h) == Event[h] \in marked

\* is_duplicate marks the key in the statement that looks for it. A table that does not answer lets
\* the event in, and may have marked it; one that has deleted the key takes the event for new.
Ingest(h) ==
  /\ at[h] = "waiting"
  /\ \/ Deduplicated(h) /\ At(h, "done") /\ UNCHANGED <<todo, marked, unchecked, upsets>>
     \/ /\ ~Deduplicated(h) /\ Evaluate(h)
        /\ marked' = marked \union {Event[h]}
        /\ unchecked' = IF Event[h] \in expired THEN unchecked \union {h} ELSE unchecked
        /\ UNCHANGED upsets
     \/ /\ Upset /\ Evaluate(h)
        /\ marked' \in {marked, marked \union {Event[h]}}
        /\ unchecked' = unchecked \union {h}
  /\ UNCHANGED <<stream, index, counted, deliveries, rule, managing, readers, running, over,
                 forgotten, expired>>

\* _cleanup_expired, on the first use after a start and every hour: a key is deleted once it is older
\* than its days, however long the event's handlers and executions take.
Expire(e) ==
  /\ e \in marked /\ Upset
  /\ marked' = marked \ {e}
  /\ expired' = expired \union {e}
  /\ UNCHANGED <<stream, index, counted, deliveries, memory, over, forgotten, unchecked>>

----------------------------------------------------------------------------
(* One rule and one event: the guards under the lock.                      *)

\* Mutant of Holding: the lock is given back once the guards have passed.
HoldingForGuards(h) == FALSE

\* Mutant of Holding: an exception leaves the lock held.
HoldingForever(h) == /\ at[h] \in {"fire", "block", "firing", "blocking", "fired", "raised"}
                     /\ <<rule[h], Event[h]>> \in Met

\* Between taking the lock and the end of the async with; a block for unmet conditions is outside.
Holding(h) == /\ at[h] \in {"fire", "block", "firing", "blocking", "fired"}
              /\ <<rule[h], Event[h]>> \in Met

\* The per-(trigger, pr) lock.
Free(t, pr) == \A k \in Presentations : ~(Holding(k) /\ rule[k] = t /\ PrOf(k) = pr)

\* Mutant of Refused: one attempt too many.
RefusedOneLate(h, t) ==
  \/ Of(running, t, PrOf(h)) # {}
  \/ PrOf(h) # NoPr /\ Cardinality(Of(counted, t, PrOf(h))) > MaxAttempts
  \/ Delivery[h] \in deliveries

\* A running execution, the attempts for the pull request, the delivery whichever rule it fired.
Refused(h, t) ==
  \/ Of(running, t, PrOf(h)) # {}
  \/ PrOf(h) # NoPr /\ Cardinality(Of(counted, t, PrOf(h))) >= MaxAttempts
  \/ Delivery[h] \in deliveries

\* The cooldown, the daily limit and the dispatch rate go by the clock: they may block any time.
Guard(h) ==
  /\ at[h] = "next"
  /\ \E t \in todo[h] :
       /\ rule' = [rule EXCEPT ![h] = t]
       /\ todo' = [todo EXCEPT ![h] = @ \ {t}]
       /\ \/ <<t, Event[h]>> \notin Met /\ At(h, "block")
          \/ <<t, Event[h]>> \in Met /\ Free(t, PrOf(h)) /\ At(h, "block")
          \/ /\ <<t, Event[h]>> \in Met /\ Free(t, PrOf(h))
             /\ ~Refused(h, t) /\ At(h, "fire")
  /\ UNCHANGED <<stream, store, managing, readers, running, over, forgotten, expired, unchecked, upsets>>

----------------------------------------------------------------------------
(* The rule's stream. An append expects the version that was read.         *)

\* Mutant of Current: the version is not looked at.
CurrentOrNot(t, who) == TRUE

Current(t, who) == who \in readers[t]

\* Mutant of Load: the guard's execution is recorded before the fire is.
LoadRecordsFire(h) ==
  /\ at[h] \in {"fire", "block"}
  /\ At(h, IF at[h] = "fire" THEN "firing" ELSE "blocking")
  /\ readers' = [readers EXCEPT ![rule[h]] = @ \union {h}]
  /\ running' = IF at[h] = "fire" THEN running \union {<<rule[h], h>>} ELSE running
  /\ UNCHANGED <<stream, store, rule, todo, managing, over, forgotten, expired, unchecked, upsets>>

\* A rule that is no longer active refuses to fire; any rule records a block.
Load(h) ==
  /\ at[h] \in {"fire", "block"}
  /\ IF at[h] = "fire" /\ status[rule[h]] # "active"
     THEN At(h, "raised") /\ UNCHANGED readers
     ELSE /\ At(h, IF at[h] = "fire" THEN "firing" ELSE "blocking")
          /\ readers' = [readers EXCEPT ![rule[h]] = @ \union {h}]
  /\ UNCHANGED <<stream, store, rule, todo, managing, running, over, forgotten, expired, unchecked,
                 upsets>>

\* The append of a fire or of a block, whether or not its writer hears of it.
Stored(h) ==
  LET x == <<rule[h], h>>
  IN /\ Current(rule[h], h)
     /\ readers' = [readers EXCEPT ![rule[h]] = {}]
     /\ answered' = answered \union {x}
     /\ IF at[h] = "firing"
        THEN fired' = fired \union {x} /\ events' = Append(events, <<"fired", x>>)
        ELSE UNCHANGED <<fired, events>>

\* An append that fails, for the version or for the answer that does not come, ends the evaluation
\* of the event, whatever rules are left.
Save(h) ==
  /\ at[h] \in {"firing", "blocking"}
  /\ \/ /\ Stored(h) /\ UNCHANGED <<forgotten, upsets>>
        /\ IF at[h] = "firing" THEN At(h, "fired") ELSE Proceed(h)
     \/ /\ Stored(h) /\ Upset /\ At(h, "raised")
        /\ forgotten' = IF at[h] = "firing" THEN forgotten \union {<<rule[h], h>>} ELSE forgotten
     \/ /\ ~Current(rule[h], h) /\ At(h, "raised")
        /\ UNCHANGED <<fired, answered, events, readers, forgotten, upsets>>
  /\ UNCHANGED <<status, store, rule, todo, managing, running, over, expired, unchecked>>

\* record_fire, in memory, and record_delivery, whose write may fail.
Record(h) ==
  /\ at[h] = "fired"
  /\ running' = running \union {<<rule[h], h>>}
  /\ \/ /\ deliveries' = deliveries \union {Delivery[h]}
        /\ Proceed(h) /\ UNCHANGED upsets
     \/ /\ deliveries' \in {deliveries, deliveries \union {Delivery[h]}}
        /\ Upset /\ At(h, "raised")
  /\ UNCHANGED <<stream, index, counted, marked, rule, todo, managing, readers, over, forgotten,
                 expired, unchecked>>

Commands == {"pause", "resume", "delete"}
After == [pause |-> "paused", resume |-> "active", delete |-> "deleted"]
Allowed(command, current) ==
  CASE command = "pause" -> current = "active"
    [] command = "resume" -> current = "paused"
    [] OTHER -> current # "deleted"

Managing(step, command) == <<step, command>>
NoCommand == Managing("none", "none")

\* ManageTriggerHandler: the index is asked, then the rule itself.
Manage(t, command) ==
  /\ managing[t] = NoCommand /\ Upset
  /\ Allowed(command, index[t])
  /\ managing' = [managing EXCEPT ![t] = Managing("asked", command)]
  /\ UNCHANGED <<stream, store, at, rule, todo, readers, running, over, forgotten, expired, unchecked>>

ManageLoad(t) ==
  /\ managing[t][1] = "asked"
  /\ LET command == managing[t][2]
     IN IF Allowed(command, status[t])
        THEN /\ managing' = [managing EXCEPT ![t] = Managing("read", command)]
             /\ readers' = [readers EXCEPT ![t] = @ \union {"manager"}]
        ELSE managing' = [managing EXCEPT ![t] = NoCommand] /\ UNCHANGED readers
  /\ UNCHANGED <<stream, store, at, rule, todo, running, over, forgotten, expired, unchecked, upsets>>

ManageSave(t) ==
  /\ managing[t][1] = "read"
  /\ managing' = [managing EXCEPT ![t] = NoCommand]
  /\ LET next == After[managing[t][2]]
     IN IF Current(t, "manager")
        THEN /\ status' = [status EXCEPT ![t] = next]
             /\ readers' = [readers EXCEPT ![t] = {}]
             /\ events' = Append(events, <<"status", <<t, next>>>>)
        ELSE UNCHANGED <<status, readers, events>>
  /\ UNCHANGED <<fired, answered, store, at, rule, todo, running, over, forgotten, expired, unchecked,
                 upsets>>

----------------------------------------------------------------------------
(* Executions end, the projections apply what is stored, the process dies. *)

\* An execution completes or fails; one that is cancelled or interrupted, or never starts, does not.
\* It outlasts the two writes of the handler that fired it.
Ends(x) ==
  /\ x \in (running \union forgotten) \ over
  /\ over' = over \union {x}
  /\ events' = Append(events, <<"over", x>>)
  /\ UNCHANGED <<status, fired, answered, store, memory, forgotten, expired, unchecked, upsets>>

\* Mutant of LetsGo: the end of an execution is not told to the guard.
LetsNoneGo(x) == running

\* complete_execution.
LetsGo(x) == running \ {x}

\* One coordinator hands each event in its order to both projections.
Apply ==
  /\ events # <<>>
  /\ events' = Tail(events)
  /\ LET type == Head(events)[1]
         x    == Head(events)[2]
     IN \/ /\ type = "fired"
           /\ counted' = counted \union {x}
           /\ deliveries' = deliveries \union {Delivery[x[2]]}
           /\ UNCHANGED <<index, running>>
        \/ /\ type = "status"
           /\ index' = [index EXCEPT ![x[1]] = x[2]]
           /\ UNCHANGED <<counted, deliveries, running>>
        \/ /\ type = "over"
           /\ running' = LetsGo(x)
           /\ UNCHANGED <<index, counted, deliveries>>
  /\ UNCHANGED <<status, fired, answered, marked, at, rule, todo, managing, readers, over, forgotten,
                 expired, unchecked, upsets>>

Ended == {"waiting", "done", "raised", "gone"}

\* Nothing of memory survives; the poller starts while the projections still catch up.
Crash ==
  /\ Upset
  /\ at' = [h \in Presentations |-> IF at[h] \in Ended THEN at[h] ELSE "gone"]
  /\ managing' = [t \in Rules |-> NoCommand]
  /\ readers' = [t \in Rules |-> {}]
  /\ running' = {}
  /\ forgotten' = forgotten \union running
                    \union {<<rule[h], h>> : h \in {k \in Presentations : at[k] = "fired"}}
  /\ UNCHANGED <<stream, store, rule, todo, over, expired, unchecked>>

----------------------------------------------------------------------------
Init ==
  /\ status = [t \in Rules |-> "active"] /\ index = status
  /\ fired = {} /\ answered = {} /\ events = <<>>
  /\ counted = {} /\ deliveries = {} /\ marked = {}
  /\ at = [h \in Presentations |-> "waiting"]
  /\ rule \in [Presentations -> Rules] /\ \A h, k \in Presentations : rule[h] = rule[k]
  /\ todo = [h \in Presentations |-> {}]
  /\ managing = [t \in Rules |-> NoCommand] /\ readers = [t \in Rules |-> {}]
  /\ running = {} /\ over = {} /\ forgotten = {}
  /\ expired = {} /\ unchecked = {}
  /\ upsets = 0

Handler(h) == Guard(h) \/ Load(h) \/ Save(h) \/ Record(h)
Next ==
  \/ \E h \in Presentations : Ingest(h) \/ Handler(h)
  \/ \E e \in marked : Expire(e)
  \/ \E t \in Rules : ManageLoad(t) \/ ManageSave(t) \/ \E command \in Commands : Manage(t, command)
  \/ \E x \in running \union forgotten : Ends(x)
  \/ Apply \/ Crash
Spec == Init /\ [][Next]_vars

\* The event loop goes on with its handlers.
LiveSpec == Spec /\ WF_vars(\E h \in Presentations : Handler(h))

----------------------------------------------------------------------------
Executions == Rules \X Presentations
Statuses == {"active", "paused", "deleted"}

\* The shapes of the state.
FiringTypeOK ==
  /\ status \in [Rules -> Statuses] /\ index \in [Rules -> Statuses]
  /\ fired \subseteq answered /\ answered \subseteq Executions
  /\ counted \subseteq fired /\ running \subseteq fired /\ forgotten \subseteq fired
  /\ over \subseteq fired
  /\ events \in Seq(({"fired", "over"} \X Executions) \union ({"status"} \X (Rules \X Statuses)))
  /\ at \in [Presentations -> Ended \union {"next", "fire", "block", "firing", "blocking", "fired"}]
  /\ rule \in [Presentations -> Rules] /\ todo \in [Presentations -> SUBSET Rules]
  /\ managing \in [Rules -> {NoCommand} \union ({"asked", "read"} \X Commands)]
  /\ readers \in [Rules -> SUBSET (Presentations \union {"manager"})]
  /\ unchecked \subseteq Presentations
  /\ upsets \in Nat

\* Two executions of one rule and pull request are not under way together, unless the process that
\* fired one of them crashed or never heard of its own append.
OneLive ==
  \A x, y \in fired \ over :
    x[1] = y[1] /\ PrOf(x[2]) = PrOf(y[2]) /\ x # y => x \in forgotten \/ y \in forgotten

\* max_attempts holds although the fire records lag behind: each execution beyond it is owed to one
\* whose fire was forgotten.
WithinAttempts ==
  \A t \in Rules : \A h \in Presentations :
    PrOf(h) # NoPr => Cardinality(Of(fired \ forgotten, t, PrOf(h))) <= MaxAttempts

\* An event fires a rule twice only if one of the two was let in without an answer from the dedup
\* table, or after the event's key had expired; and if it came by the same delivery, which does not
\* expire, only if the first fire was forgotten as well.
FiresOnce ==
  \A x, y \in fired :
    x[1] = y[1] /\ x # y /\ Event[x[2]] = Event[y[2]] =>
      /\ x[2] \in unchecked \/ y[2] \in unchecked
      /\ Delivery[x[2]] = Delivery[y[2]] => x \in forgotten \/ y \in forgotten

\* A rule fires only while its stream says it is active, whatever the index says, and a pause that
\* was stored is never followed by a fire before it is resumed.
FiredWhileActive == [][\A x \in fired' \ fired : status[x[1]] = "active"]_vars

\* The concurrency guard lets an execution go once the projections have applied its end: what it
\* holds beyond that is only what never completes or fails.
GuardLetsGo ==
  \A x \in running \intersect over : \E i \in DOMAIN events : events[i] = <<"over", x>>

\* Every event let in is dealt with: none waits for ever for a lock that a handler which raised,
\* or was refused by the guards, has kept.
IngestEnds == []<>(\A h \in Presentations : at[h] \in Ended)

\* An event the dedup table knows has been recorded against every rule, as fired or as blocked,
\* once its handlers have ended: no crash, no fault and no command got in the way.
NoMissedEvent ==
  upsets = 0 =>
    \A h \in Presentations :
      Event[h] \in marked /\ (\A k \in Presentations : Event[k] = Event[h] => at[k] \in Ended) =>
        \A t \in Rules : \E k \in Presentations : Event[k] = Event[h] /\ <<t, k>> \in answered
=============================================================================
