------------------------- MODULE TriggerFiring_proofs -------------------------
(***************************************************************************)
(* What the trigger handlers keep, for any rules, events and presentations *)
(* and any number of faults and commands.                                  *)
(***************************************************************************)
EXTENDS TriggerFiring, FiniteSetTheorems, SequenceTheorems, TLAPS

USE FiringAssumption

Busy == {"next", "fire", "block", "firing", "blocking", "fired"}
StoredEvents == ({"fired", "over"} \X Executions) \union ({"status"} \X (Rules \X Statuses))

----------------------------------------------------------------------------
(* Types, and what is stored is of what was fired.                         *)

Types ==
  /\ status \in [Rules -> Statuses] /\ index \in [Rules -> Statuses]
  /\ fired \subseteq answered /\ answered \subseteq Executions
  /\ counted \subseteq fired /\ running \subseteq fired /\ forgotten \subseteq fired
  /\ over \subseteq fired
  /\ events \in Seq(StoredEvents)
  /\ at \in [Presentations -> Ended \union Busy]
  /\ rule \in [Presentations -> Rules] /\ todo \in [Presentations -> SUBSET Rules]
  /\ managing \in [Rules -> {NoCommand} \union ({"asked", "read"} \X Commands)]
  /\ readers \in [Rules -> SUBSET (Presentations \union {"manager"})]
  /\ unchecked \subseteq Presentations /\ upsets \in Nat

\* An event of a fire or of an end is of an execution that was fired, or is over.
EventsSound ==
  \A i \in DOMAIN events :
    /\ events[i][1] = "fired" => events[i][2] \in fired
    /\ events[i][1] = "over" => events[i][2] \in over

\* A handler that records a fire has stored it.
FiresStored == \A h \in Presentations : at[h] = "fired" => <<rule[h], h>> \in fired

TypeInv == Types /\ EventsSound /\ FiresStored

LEMMA AppendSound ==
  ASSUME NEW e \in StoredEvents, events \in Seq(StoredEvents), events' = Append(events, e)
  PROVE  /\ events' \in Seq(StoredEvents)
         /\ DOMAIN events' = 1..(Len(events) + 1)
         /\ \A i \in DOMAIN events : events'[i] = events[i]
         /\ events'[Len(events) + 1] = e
         /\ \A i \in DOMAIN events' : i \in DOMAIN events \/ events'[i] = e
         /\ DOMAIN events = 1..Len(events)
  OBVIOUS

LEMMA TailSound ==
  ASSUME events \in Seq(StoredEvents), events # <<>>, events' = Tail(events)
  PROVE  /\ events' \in Seq(StoredEvents)
         /\ \A i \in DOMAIN events' : i + 1 \in DOMAIN events /\ events'[i] = events[i + 1] /\ i \in Nat
         /\ \A i \in DOMAIN events : i # 1 => i - 1 \in DOMAIN events' /\ events'[i - 1] = events[i]
         /\ 1 \in DOMAIN events /\ Head(events) = events[1] /\ Head(events) \in StoredEvents
         /\ DOMAIN events \subseteq Nat \ {0}
  OBVIOUS

LEMMA StoredEvent ==
  ASSUME NEW e \in StoredEvents
  PROVE  /\ e[1] \in {"fired", "over"} => e[2] \in Executions /\ e = <<e[1], e[2]>>
         /\ e[1] = "status" => e[2] \in Rules \X Statuses
         /\ e[1] \in {"fired", "over", "status"}
  BY DEF StoredEvents

LEMMA TypesHold == TypeInv /\ [Next]_vars => TypeInv'
<1> SUFFICES ASSUME TypeInv, [Next]_vars PROVE TypeInv'
  OBVIOUS
<1> USE DEF TypeInv, Types, EventsSound, FiresStored, Busy, Ended
<1>1. ASSUME NEW h \in Presentations, Ingest(h) PROVE TypeInv'
  <2>1. /\ at' \in [Presentations -> Ended \union Busy] /\ todo' \in [Presentations -> SUBSET Rules]
        /\ \A k \in Presentations : at'[k] = "fired" => at[k] = "fired"
    BY <1>1 DEF Ingest, Evaluate, At
  <2>2. unchecked' \subseteq Presentations /\ upsets' \in Nat
    BY <1>1 DEF Ingest, Upset
  <2>3. UNCHANGED <<status, fired, answered, events, index, counted, rule, managing, readers, running,
                    over, forgotten>>
    BY <1>1 DEF Ingest, stream
  <2> QED BY <2>1, <2>2, <2>3
<1>2. ASSUME NEW h \in Presentations, Guard(h) PROVE TypeInv'
  BY <1>2 DEF Guard, At, stream, store
<1>3. ASSUME NEW h \in Presentations, Load(h) PROVE TypeInv'
  BY <1>3 DEF Load, At, stream, store
<1>4. ASSUME NEW h \in Presentations, Save(h) PROVE TypeInv'
  <2> DEFINE x == <<rule[h], h>>
  <2>1. x \in Executions
    BY DEF Executions
  <2>2. CASE Current(rule[h], h) /\ Stored(h) /\ at[h] = "firing"
    <3>1. /\ fired' = fired \union {x} /\ events' = Append(events, <<"fired", x>>)
          /\ answered' = answered \union {x}
          /\ readers' = [readers EXCEPT ![rule[h]] = {}]
      BY <2>2 DEF Stored
    <3>2. <<"fired", x>> \in StoredEvents
      BY <2>1 DEF StoredEvents
    <3>3. EventsSound'
      BY <1>4, <3>1, <3>2, AppendSound DEF Save, store
    <3>4. /\ UNCHANGED <<status, index, counted, running, over, rule, todo, managing, unchecked>>
          /\ forgotten' \subseteq fired' /\ upsets' \in Nat
      BY <1>4, <2>2, <3>1 DEF Save, store, Upset
    <3>5. /\ at' \in [Presentations -> Ended \union Busy]
          /\ \A k \in Presentations : at'[k] = "fired" => at[k] = "fired" \/ k = h
      BY <1>4, <2>2 DEF Save, At, Proceed
    <3>6. events' \in Seq(StoredEvents)
      BY <3>1, <3>2, AppendSound
    <3>7. Types'
      BY <2>1, <3>1, <3>4, <3>5, <3>6
    <3>8. FiresStored'
      BY <3>1, <3>4, <3>5
    <3> QED BY <3>3, <3>7, <3>8
  <2>3. CASE Current(rule[h], h) /\ Stored(h) /\ at[h] = "blocking"
    <3>1. /\ UNCHANGED <<status, fired, events, index, counted, running, over, rule, todo, managing,
                         unchecked, forgotten>>
          /\ answered' = answered \union {x} /\ readers' = [readers EXCEPT ![rule[h]] = {}]
          /\ upsets' \in Nat
      BY <1>4, <2>3 DEF Save, store, Stored, Upset
    <3>2. /\ at' \in [Presentations -> Ended \union Busy]
          /\ \A k \in Presentations : at'[k] = "fired" => at[k] = "fired"
      BY <1>4, <2>3 DEF Save, At, Proceed
    <3> QED BY <2>1, <3>1, <3>2
  <2>4. CASE ~Current(rule[h], h)
    BY <1>4, <2>4 DEF Save, store, Stored, At
  <2> QED BY <1>4, <2>2, <2>3, <2>4 DEF Save, Stored
<1>5. ASSUME NEW h \in Presentations, Record(h) PROVE TypeInv'
  <2>1. /\ at' \in [Presentations -> Ended \union Busy] /\ upsets' \in Nat
        /\ \A k \in Presentations : at'[k] = "fired" => at[k] = "fired"
        /\ <<rule[h], h>> \in fired /\ running' = running \union {<<rule[h], h>>}
    <3>1. at[h] = "fired" /\ running' = running \union {<<rule[h], h>>}
      BY <1>5 DEF Record
    <3>2. \E step \in {"next", "done", "raised"} : At(h, step)
      BY <1>5 DEF Record, Proceed
    <3>3. upsets' \in Nat
      BY <1>5 DEF Record, Upset
    <3>4. /\ at' \in [Presentations -> Ended \union Busy]
          /\ \A k \in Presentations : at'[k] = "fired" => at[k] = "fired"
      BY <3>2 DEF At
    <3> QED BY <3>1, <3>3, <3>4
  <2>2. UNCHANGED <<status, fired, answered, events, index, counted, rule, todo, managing, readers,
                    over, forgotten, unchecked>>
    BY <1>5 DEF Record, stream
  <2> QED BY <2>1, <2>2
<1>6. ASSUME NEW t \in Rules, NEW command \in Commands, Manage(t, command) PROVE TypeInv'
  BY <1>6 DEF Manage, Managing, Upset, stream, store
<1>12. ASSUME NEW t \in Rules, ManageLoad(t) PROVE TypeInv'
  <2>1. managing[t][2] \in Commands
    <3>1. managing[t] \in {<<"none", "none">>} \union ({"asked", "read"} \X Commands)
      BY DEF Managing, NoCommand
    <3>2. managing[t][1] = "asked"
      BY <1>12 DEF ManageLoad
    <3> QED BY <3>1, <3>2
  <2>2. managing' \in [Rules -> {NoCommand} \union ({"asked", "read"} \X Commands)]
    <3>1. \E pair \in {NoCommand} \union ({"asked", "read"} \X Commands) :
            managing' = [managing EXCEPT ![t] = pair]
      BY <1>12, <2>1 DEF ManageLoad, Managing
    <3> QED BY <3>1
  <2>3. readers' \in [Rules -> SUBSET (Presentations \union {"manager"})]
    BY <1>12 DEF ManageLoad
  <2> QED BY <1>12, <2>2, <2>3 DEF ManageLoad, stream, store
<1>13. ASSUME NEW e \in marked, Expire(e) PROVE TypeInv'
  BY <1>13 DEF Expire, Upset, stream, memory
<1>7. ASSUME NEW t \in Rules, ManageSave(t) PROVE TypeInv'
  <2> DEFINE e == <<"status", <<t, After[managing[t][2]]>>>>
  <2>1. After[managing[t][2]] \in Statuses
    <3>1. managing[t][2] \in Commands
      BY <1>7 DEF ManageSave, Managing, NoCommand
    <3> QED BY <3>1 DEF After, Commands, Statuses
  <2>2. CASE Current(t, "manager")
    <3>1. e \in StoredEvents /\ events' = Append(events, e)
      BY <1>7, <2>1, <2>2 DEF ManageSave, StoredEvents
    <3>2. EventsSound'
      BY <1>7, <3>1, AppendSound DEF ManageSave
    <3> QED BY <1>7, <2>1, <2>2, <3>1, <3>2, AppendSound DEF ManageSave, store
  <2>3. CASE ~Current(t, "manager")
    BY <1>7, <2>3 DEF ManageSave, store
  <2> QED BY <2>2, <2>3
<1>8. ASSUME NEW x \in running \union forgotten, Ends(x) PROVE TypeInv'
  <2>1. <<"over", x>> \in StoredEvents
    BY DEF StoredEvents
  <2>2. EventsSound'
    BY <1>8, <2>1, AppendSound DEF Ends
  <2> QED BY <1>8, <2>1, <2>2, AppendSound DEF Ends, store, memory
<1>9. ASSUME Apply PROVE TypeInv'
  <2> DEFINE e == Head(events)
  <2>1. e = events[1] /\ e \in StoredEvents /\ 1 \in DOMAIN events
    BY <1>9, TailSound DEF Apply
  <2>2. EventsSound'
    BY <1>9, TailSound DEF Apply
  <2>3. CASE e[1] = "fired"
    BY <1>9, <2>1, <2>2, <2>3, TailSound, StoredEvent DEF Apply
  <2>4. CASE e[1] = "status"
    BY <1>9, <2>1, <2>2, <2>4, TailSound, StoredEvent DEF Apply
  <2>5. CASE e[1] = "over"
    BY <1>9, <2>1, <2>2, <2>5, TailSound, StoredEvent DEF Apply, LetsGo
  <2> QED BY <2>1, <2>3, <2>4, <2>5, StoredEvent
<1>10. ASSUME Crash PROVE TypeInv'
  BY <1>10 DEF Crash, Upset, stream, store
<1>11. CASE UNCHANGED vars
  BY <1>11 DEF vars
<1> QED BY <1>1, <1>2, <1>3, <1>4, <1>5, <1>6, <1>7, <1>8, <1>9, <1>10, <1>11, <1>12, <1>13 DEF Next, Handler

\* The state keeps its shapes.
THEOREM FiringIsTyped == Spec => []FiringTypeOK
<1>1. Init => TypeInv
  BY DEF Init, TypeInv, Types, EventsSound, FiresStored, Ended, Statuses, Executions
<1>2. TypeInv => FiringTypeOK
  BY DEF TypeInv, Types, FiringTypeOK, Busy, StoredEvents
<1> QED BY <1>1, <1>2, TypesHold, PTL DEF Spec

----------------------------------------------------------------------------
(* A handler visits a rule once, and holds its lock from the guards to the *)
(* last record.                                                            *)

Visiting == {"fire", "block", "firing", "blocking"}

VisitsOnce ==
  \A h \in Presentations :
    /\ at[h] = "waiting" => \A t \in Rules : <<t, h>> \notin answered
    /\ \A t \in todo[h] : <<t, h>> \notin answered
    /\ at[h] \in Visiting \union {"fired"} => rule[h] \notin todo[h]
    /\ at[h] \in Visiting => <<rule[h], h>> \notin answered
    /\ at[h] = "fired" => <<rule[h], h>> \notin running \union forgotten \union over
    /\ at[h] \in {"fire", "firing", "fired"} => <<rule[h], Event[h]>> \in Met

Mutex ==
  \A h, k \in Presentations :
    Holding(h) /\ Holding(k) /\ rule[h] = rule[k] /\ PrOf(h) = PrOf(k) => h = k

TaskInv == VisitsOnce /\ Mutex

LEMMA TasksHold == TypeInv /\ TaskInv /\ [Next]_vars => TaskInv'
<1> SUFFICES ASSUME TypeInv, TaskInv, [Next]_vars PROVE TaskInv'
  OBVIOUS
<1> USE DEF TypeInv, Types, TaskInv, VisitsOnce, Visiting, Mutex, Holding
\* Whoever takes no step keeps what it had, as long as nobody answers for it.
<1>a. ASSUME NEW h \in Presentations,
             \A k \in Presentations \ {h} : at'[k] = at[k] /\ rule'[k] = rule[k] /\ todo'[k] = todo[k],
             answered' \subseteq answered \union {<<rule[h], h>>},
             \A x \in (running \union forgotten \union over)' :
               x \in running \union forgotten \union over \/ x = <<rule[h], h>>
      PROVE  \A k \in Presentations \ {h} :
               /\ at'[k] = "waiting" => \A t \in Rules : <<t, k>> \notin answered'
               /\ \A t \in todo'[k] : <<t, k>> \notin answered'
               /\ at'[k] \in Visiting \union {"fired"} => rule'[k] \notin todo'[k]
               /\ at'[k] \in Visiting => <<rule'[k], k>> \notin answered'
               /\ at'[k] = "fired" => <<rule'[k], k>> \notin (running \union forgotten \union over)'
               /\ at'[k] \in {"fire", "firing", "fired"} => <<rule'[k], Event[k]>> \in Met
  BY <1>a
<1>b. ASSUME NEW h \in Presentations,
             \A k \in Presentations \ {h} : at'[k] = at[k] /\ rule'[k] = rule[k],
             Holding(h)' => Holding(h) /\ rule'[h] = rule[h]
      PROVE  Mutex'
  <2> SUFFICES ASSUME NEW i \in Presentations, NEW k \in Presentations,
                      Holding(i)', Holding(k)', rule'[i] = rule'[k], PrOf(i)' = PrOf(k)'
               PROVE  i = k
    BY DEF PrOf
  <2>1. \A j \in {i, k} : Holding(j) /\ rule'[j] = rule[j]
    BY <1>b
  <2> QED BY <2>1 DEF PrOf
<1>1. ASSUME NEW h \in Presentations, Ingest(h) PROVE TaskInv'
  <2>1. /\ \A k \in Presentations \ {h} : at'[k] = at[k] /\ rule'[k] = rule[k] /\ todo'[k] = todo[k]
        /\ at'[h] \in {"done", "next"} /\ rule' = rule /\ todo'[h] \subseteq Rules
        /\ at[h] = "waiting"
        /\ UNCHANGED <<answered, running, forgotten, over>>
    BY <1>1 DEF Ingest, Evaluate, At, stream, Ended, Busy
  <2>2. VisitsOnce'
    BY <1>a, <2>1
  <2> QED BY <1>b, <2>1, <2>2
<1>2. ASSUME NEW h \in Presentations, Guard(h) PROVE TaskInv'
  <2>1. PICK t \in todo[h] :
          /\ rule' = [rule EXCEPT ![h] = t] /\ todo' = [todo EXCEPT ![h] = @ \ {t}]
          /\ \/ <<t, Event[h]>> \notin Met /\ At(h, "block")
             \/ <<t, Event[h]>> \in Met /\ Free(t, PrOf(h)) /\ At(h, "block")
             \/ <<t, Event[h]>> \in Met /\ Free(t, PrOf(h)) /\ ~Refused(h, t) /\ At(h, "fire")
    BY <1>2 DEF Guard
  <2>2. /\ \A k \in Presentations \ {h} : at'[k] = at[k] /\ rule'[k] = rule[k] /\ todo'[k] = todo[k]
        /\ rule'[h] = t /\ todo'[h] = todo[h] \ {t} /\ t \in Rules
        /\ at'[h] \in {"fire", "block"}
        /\ at'[h] = "fire" => <<t, Event[h]>> \in Met
        /\ <<t, Event[h]>> \in Met => Free(t, PrOf(h))
        /\ UNCHANGED <<answered, running, forgotten, over>>
    BY <1>2, <2>1 DEF Guard, At, stream, store
  <2>3. /\ t \in todo[h] /\ <<t, h>> \notin answered
        /\ at'[h] \notin {"waiting", "fired", "firing"}
    <3>1. t \in todo[h]
      BY <2>1
    <3> QED BY <2>2, <3>1
  <2>5. VisitsOnce'
    <3>1. \A k \in Presentations \ {h} :
            /\ at'[k] = "waiting" => \A s \in Rules : <<s, k>> \notin answered'
            /\ \A s \in todo'[k] : <<s, k>> \notin answered'
            /\ at'[k] \in Visiting \union {"fired"} => rule'[k] \notin todo'[k]
            /\ at'[k] \in Visiting => <<rule'[k], k>> \notin answered'
            /\ at'[k] = "fired" => <<rule'[k], k>> \notin (running \union forgotten \union over)'
            /\ at'[k] \in {"fire", "firing", "fired"} => <<rule'[k], Event[k]>> \in Met
      BY <1>a, <2>2
    <3> QED BY <2>2, <2>3, <3>1
  <2>4. Mutex'
    <3>1. \A k \in Presentations \ {h} :
            at'[k] = at[k] /\ rule'[k] = rule[k] /\ (rule[k] = t /\ Pr[Event[k]] = Pr[Event[h]] =>
              ~(<<t, Event[h]>> \in Met /\ Holding(k)))
      BY <2>2 DEF Free, PrOf
    <3>2. Holding(h)' => <<t, Event[h]>> \in Met
      BY <2>2
    <3>3. \A k \in Presentations \ {h} : Holding(k)' => Holding(k)
      BY <3>1
    <3>4. ASSUME NEW i \in Presentations, NEW k \in Presentations, Holding(i)', Holding(k)',
                 rule'[i] = rule'[k], Pr[Event[i]] = Pr[Event[k]], i # k
          PROVE  FALSE
      <4>1. CASE i = h
        BY <2>2, <3>1, <3>2, <3>3, <3>4, <4>1
      <4>2. CASE k = h
        BY <2>2, <3>1, <3>2, <3>3, <3>4, <4>2
      <4>3. CASE i # h /\ k # h
        <5>1. rule[i] = rule[k] /\ Holding(i) /\ Holding(k)
          BY <3>1, <3>3, <3>4, <4>3
        <5>2. Holding(i) /\ Holding(k) /\ rule[i] = rule[k] /\ PrOf(i) = PrOf(k) => i = k
          OBVIOUS
        <5> QED BY <3>4, <5>1, <5>2 DEF PrOf
      <4> QED BY <4>1, <4>2, <4>3
    <3> QED BY <3>4 DEF PrOf
  <2> QED BY <2>4, <2>5
<1>3. ASSUME NEW h \in Presentations, Load(h) PROVE TaskInv'
  <2>1. /\ \A k \in Presentations \ {h} : at'[k] = at[k] /\ rule'[k] = rule[k] /\ todo'[k] = todo[k]
        /\ rule' = rule /\ todo' = todo
        /\ \/ at'[h] = "raised"
           \/ at[h] = "fire" /\ at'[h] = "firing"
           \/ at[h] = "block" /\ at'[h] = "blocking"
        /\ UNCHANGED <<answered, running, forgotten, over>>
    BY <1>3 DEF Load, At, stream, store
  <2>2. VisitsOnce'
    BY <1>a, <2>1
  <2> QED BY <1>b, <2>1, <2>2
<1>4. ASSUME NEW h \in Presentations, Save(h) PROVE TaskInv'
  <2>1. /\ \A k \in Presentations \ {h} : at'[k] = at[k] /\ rule'[k] = rule[k] /\ todo'[k] = todo[k]
        /\ rule' = rule /\ todo' = todo /\ at[h] \in {"firing", "blocking"}
        /\ \/ at'[h] \in {"raised", "done", "next"}
           \/ at[h] = "firing" /\ at'[h] = "fired" /\ forgotten' = forgotten
        /\ answered' \subseteq answered \union {<<rule[h], h>>}
        /\ forgotten' \subseteq forgotten \union {<<rule[h], h>>}
        /\ UNCHANGED <<running, over>>
    BY <1>4 DEF Save, Stored, At, Proceed
  <2>2. VisitsOnce'
    BY <1>a, <2>1
  <2> QED BY <1>b, <2>1, <2>2
<1>5. ASSUME NEW h \in Presentations, Record(h) PROVE TaskInv'
  <2>1. /\ \A k \in Presentations \ {h} : at'[k] = at[k] /\ rule'[k] = rule[k] /\ todo'[k] = todo[k]
        /\ rule' = rule /\ todo' = todo /\ at[h] = "fired" /\ at'[h] \in {"done", "next", "raised"}
        /\ running' = running \union {<<rule[h], h>>}
        /\ UNCHANGED <<answered, forgotten, over>>
    BY <1>5 DEF Record, Proceed, At, stream
  <2>2. VisitsOnce'
    BY <1>a, <2>1
  <2> QED BY <1>b, <2>1, <2>2
<1>6. CASE /\ UNCHANGED <<at, rule, todo, answered>>
           /\ (running \union forgotten \union over)' \subseteq running \union forgotten \union over
  BY <1>6 DEF PrOf
<1>7. ASSUME NEW t \in Rules, ManageLoad(t) \/ ManageSave(t) \/ \E command \in Commands : Manage(t, command) PROVE TaskInv'
  BY <1>6, <1>7 DEF ManageLoad, ManageSave, Manage, stream, store
<1>12. ASSUME NEW e \in marked, Expire(e) PROVE TaskInv'
  BY <1>6, <1>12 DEF Expire, stream, memory
<1>8. ASSUME NEW x \in running \union forgotten, Ends(x) PROVE TaskInv'
  BY <1>6, <1>8 DEF Ends, memory
<1>9. CASE Apply
  BY <1>6, <1>9 DEF Apply, LetsGo
<1>10. CASE Crash
  <2>1. /\ rule' = rule /\ todo' = todo
        /\ \A k \in Presentations : at'[k] = IF at[k] \in Ended THEN at[k] ELSE "gone"
        /\ answered' = answered
    BY <1>10 DEF Crash, stream
  <2>2. \A k \in Presentations : at'[k] \in Ended /\ (at'[k] = "waiting" => at[k] = "waiting")
    BY <2>1 DEF Ended
  <2> QED BY <2>1, <2>2 DEF Ended
<1>11. CASE UNCHANGED vars
  BY <1>6, <1>11 DEF vars
<1> QED BY <1>1, <1>2, <1>3, <1>4, <1>5, <1>7, <1>8, <1>9, <1>10, <1>11, <1>12 DEF Next, Handler

----------------------------------------------------------------------------
(* A rule fires while it is active: who read its stream before it was      *)
(* paused can no longer append to it.                                      *)

ReadersCurrent ==
  \A h \in Presentations : at[h] = "firing" /\ h \in readers[rule[h]] => status[rule[h]] = "active"

LEMMA ReadersHold == TypeInv /\ ReadersCurrent /\ [Next]_vars => ReadersCurrent'
<1> SUFFICES ASSUME TypeInv, ReadersCurrent, [Next]_vars PROVE ReadersCurrent'
  OBVIOUS
<1> USE DEF TypeInv, Types, ReadersCurrent
<1>a. CASE /\ UNCHANGED <<status, rule>>
           /\ \A t \in Rules : readers'[t] \subseteq readers[t]
           /\ \A h \in Presentations : at'[h] = "firing" => at[h] = "firing"
  BY <1>a
<1>1. ASSUME NEW h \in Presentations, Ingest(h) PROVE ReadersCurrent'
  BY <1>a, <1>1 DEF Ingest, Evaluate, At, stream
<1>2. ASSUME NEW h \in Presentations, Guard(h) PROVE ReadersCurrent'
  <2>1. /\ \A k \in Presentations \ {h} : at'[k] = at[k] /\ rule'[k] = rule[k]
        /\ at'[h] # "firing" /\ UNCHANGED <<status, readers>>
    BY <1>2 DEF Guard, At, stream, store
  <2> QED BY <2>1
<1>3. ASSUME NEW h \in Presentations, Load(h) PROVE ReadersCurrent'
  <2>1. /\ \A k \in Presentations \ {h} : at'[k] = at[k]
        /\ at'[h] = "firing" => status[rule[h]] = "active"
        /\ UNCHANGED <<status, rule>>
        /\ \A t \in Rules : readers'[t] \subseteq readers[t] \union {h}
    BY <1>3 DEF Load, At, stream, store
  <2> QED BY <2>1
<1>4. ASSUME NEW h \in Presentations, Save(h) PROVE ReadersCurrent'
  <2>1. /\ UNCHANGED <<status, rule>>
        /\ \A t \in Rules : readers'[t] \subseteq readers[t]
        /\ \A k \in Presentations : at'[k] = "firing" => at[k] = "firing"
    <3>1. UNCHANGED <<status, rule>>
      BY <1>4 DEF Save
    <3>2. readers' = readers \/ readers' = [readers EXCEPT ![rule[h]] = {}]
      BY <1>4 DEF Save, Stored
    <3>3. \E step \in {"fired", "next", "done", "raised"} : At(h, step)
      BY <1>4 DEF Save, Proceed
    <3> QED BY <3>1, <3>2, <3>3 DEF At
  <2> QED BY <1>a, <2>1
<1>5. ASSUME NEW h \in Presentations, Record(h) PROVE ReadersCurrent'
  BY <1>a, <1>5 DEF Record, Proceed, At, stream
<1>6. ASSUME NEW t \in Rules, ManageLoad(t) PROVE ReadersCurrent'
  <2>1. /\ UNCHANGED <<status, at, rule>>
        /\ \A s \in Rules : readers'[s] \subseteq readers[s] \union {"manager"}
    BY <1>6 DEF ManageLoad, stream, store
  <2> QED BY <2>1
<1>11. ASSUME NEW t \in Rules, NEW command \in Commands, Manage(t, command) PROVE ReadersCurrent'
  BY <1>a, <1>11 DEF Manage, stream, store
<1>12. ASSUME NEW e \in marked, Expire(e) PROVE ReadersCurrent'
  BY <1>a, <1>12 DEF Expire, stream, memory
<1>7. ASSUME NEW t \in Rules, ManageSave(t) PROVE ReadersCurrent'
  <2>1. /\ UNCHANGED <<at, rule>>
        /\ \A s \in Rules \ {t} : readers'[s] = readers[s] /\ status'[s] = status[s]
        /\ \/ readers'[t] = {}
           \/ readers' = readers /\ status' = status
    BY <1>7 DEF ManageSave
  <2> QED BY <2>1
<1>8. CASE Apply \/ \E x \in running \union forgotten : Ends(x)
  BY <1>a, <1>8 DEF Apply, Ends, memory
<1>9. CASE Crash
  BY <1>a, <1>9 DEF Crash, stream, Ended
<1>10. CASE UNCHANGED vars
  BY <1>a, <1>10 DEF vars
<1> QED BY <1>1, <1>2, <1>3, <1>4, <1>5, <1>6, <1>7, <1>8, <1>9, <1>10, <1>11, <1>12 DEF Next, Handler

\* Only the append of a fire adds to what was fired.
LEMMA OnlySaveFires ==
  ASSUME TypeInv, Next, NEW x \in fired' \ fired
  PROVE  \E h \in Presentations : /\ Save(h) /\ Stored(h) /\ at[h] = "firing"
                                  /\ x = <<rule[h], h>> /\ fired' = fired \union {x}
<1>1. PICK h \in Presentations : Save(h)
  BY DEF Next, Handler, Ingest, Expire, Guard, Load, Record, Manage, ManageLoad, ManageSave, Ends, Apply,
         Crash, stream
<1>2. Stored(h) /\ at[h] = "firing" /\ fired' = fired \union {<<rule[h], h>>}
  BY <1>1 DEF Save, Stored
<1> QED BY <1>1, <1>2

\* Nothing fires a rule whose stream says that it is paused or deleted.
THEOREM FiresWhileActive == Spec => FiredWhileActive
<1>1. Init => TypeInv /\ ReadersCurrent
  BY DEF Init, TypeInv, Types, EventsSound, FiresStored, Ended, Statuses, Executions, ReadersCurrent
<1>2. TypeInv /\ ReadersCurrent /\ [Next]_vars => [\A x \in fired' \ fired : status[x[1]] = "active"]_vars
  <2> SUFFICES ASSUME TypeInv, ReadersCurrent, Next, NEW x \in fired' \ fired
               PROVE  status[x[1]] = "active"
    OBVIOUS
  <2>1. PICK h \in Presentations : /\ Save(h) /\ Stored(h) /\ at[h] = "firing"
                                   /\ x = <<rule[h], h>> /\ fired' = fired \union {x}
    BY OnlySaveFires
  <2> QED BY <2>1 DEF Stored, Current, ReadersCurrent
<1> QED BY <1>1, <1>2, TypesHold, ReadersHold, PTL DEF Spec, FiredWhileActive

----------------------------------------------------------------------------
(* The stored events: a fire is applied before the end of what it fired.   *)

Awaited(x) == \E i \in DOMAIN events : events[i] = <<"fired", x>>

FiresApplied == \A x \in fired : x \in counted \/ Awaited(x)

EndsAfterFires ==
  \A i \in DOMAIN events :
    events[i][1] = "over" =>
      \/ events[i][2] \in counted
      \/ \E j \in DOMAIN events : j < i /\ events[j] = <<"fired", events[i][2]>>

CountsDelivered == \A x \in counted : Delivery[x[2]] \in deliveries

QueueInv == FiresApplied /\ EndsAfterFires /\ GuardLetsGo /\ CountsDelivered

LEMMA QueueHolds == TypeInv /\ TaskInv /\ QueueInv /\ [Next]_vars => QueueInv'
<1> SUFFICES ASSUME TypeInv, TaskInv, QueueInv, [Next]_vars PROVE QueueInv'
  OBVIOUS
<1> USE DEF QueueInv, FiresApplied, EndsAfterFires, GuardLetsGo, CountsDelivered, Awaited
<1>0. /\ events \in Seq(StoredEvents) /\ DOMAIN events = 1..Len(events) /\ Len(events) \in Nat
      /\ running \subseteq fired /\ over \subseteq fired /\ forgotten \subseteq fired
      /\ fired \subseteq Executions /\ counted \subseteq fired
  BY DEF TypeInv, Types
<1>a. ASSUME UNCHANGED <<events, fired, over>>, counted' = counted, running' \subseteq running,
             deliveries \subseteq deliveries'
      PROVE  QueueInv'
  BY <1>a
\* What an append leaves as it was.
<1>b. ASSUME NEW e \in StoredEvents, events' = Append(events, e), counted' = counted,
             running' = running, e[1] # "over",
             \A x \in fired' : x \in fired \/ e = <<"fired", x>>,
             over' = over, deliveries' = deliveries
      PROVE  QueueInv'
  <2>1. /\ DOMAIN events' = 1..(Len(events) + 1)
        /\ \A i \in DOMAIN events : events'[i] = events[i] /\ i \in DOMAIN events'
        /\ events'[Len(events) + 1] = e /\ Len(events) + 1 \in DOMAIN events'
        /\ \A i \in DOMAIN events' : i \in DOMAIN events \/ events'[i] = e
    BY <1>0, <1>b, AppendSound
  <2>2. FiresApplied'
    BY <1>b, <2>1
  <2>3. EndsAfterFires'
    BY <1>b, <2>1
  <2>4. GuardLetsGo'
    BY <1>b, <2>1
  <2> QED BY <1>b, <2>2, <2>3, <2>4
<1>1. ASSUME NEW h \in Presentations, Ingest(h) \/ Guard(h) \/ Load(h) PROVE QueueInv'
  BY <1>a, <1>1 DEF Ingest, Guard, Load, stream, store
<1>2. ASSUME NEW h \in Presentations, Save(h) PROVE QueueInv'
  <2> DEFINE e == <<"fired", <<rule[h], h>>>>
  <2>1. e \in StoredEvents
    BY <1>2 DEF StoredEvents, Executions, TypeInv, Types
  <2>2. CASE Stored(h) /\ at[h] = "firing"
    <3>1. /\ events' = Append(events, e) /\ fired' = fired \union {<<rule[h], h>>}
          /\ UNCHANGED <<counted, running, over, deliveries>>
      BY <1>2, <2>2 DEF Save, Stored, store
    <3>2. e[1] # "over" /\ \A x \in fired' : x \in fired \/ e = <<"fired", x>>
      BY <3>1
    <3> QED BY <1>b, <2>1, <3>1, <3>2
  <2>3. CASE ~(Stored(h) /\ at[h] = "firing")
    BY <1>a, <1>2, <2>3 DEF Save, Stored, store
  <2> QED BY <2>2, <2>3
<1>3. ASSUME NEW h \in Presentations, Record(h) PROVE QueueInv'
  <2>1. /\ running' = running \union {<<rule[h], h>>} /\ <<rule[h], h>> \notin over
        /\ UNCHANGED <<events, fired, over, counted>> /\ deliveries \subseteq deliveries'
    BY <1>3 DEF Record, TaskInv, VisitsOnce, stream
  <2> QED BY <2>1
<1>4. ASSUME NEW t \in Rules, ManageLoad(t) \/ \E command \in Commands : Manage(t, command) PROVE QueueInv'
  BY <1>a, <1>4 DEF Manage, ManageLoad, stream, store
<1>10. ASSUME NEW e \in marked, Expire(e) PROVE QueueInv'
  BY <1>a, <1>10 DEF Expire, stream, memory
<1>5. ASSUME NEW t \in Rules, ManageSave(t) PROVE QueueInv'
  <2> DEFINE e == <<"status", <<t, After[managing[t][2]]>>>>
  <2>1. e \in StoredEvents
    <3>1. managing[t][2] \in Commands
      BY <1>5 DEF ManageSave, Managing, NoCommand, TypeInv, Types
    <3>2. After[managing[t][2]] \in Statuses
      BY <3>1 DEF After, Commands, Statuses
    <3> QED BY <3>2 DEF StoredEvents
  <2>2. CASE Current(t, "manager")
    <3>1. events' = Append(events, e) /\ UNCHANGED <<fired, counted, running, over, deliveries>>
      BY <1>5, <2>2 DEF ManageSave, store
    <3> QED BY <1>b, <2>1, <3>1
  <2>3. CASE ~Current(t, "manager")
    BY <1>a, <1>5, <2>3 DEF ManageSave, store
  <2> QED BY <2>2, <2>3
<1>6. ASSUME NEW x \in running \union forgotten, Ends(x) PROVE QueueInv'
  <2> DEFINE e == <<"over", x>>
  <2>1. /\ e \in StoredEvents /\ events' = Append(events, e) /\ over' = over \union {x}
        /\ UNCHANGED <<fired, counted, running, deliveries>> /\ x \in fired
    BY <1>0, <1>6 DEF Ends, StoredEvents, store, memory
  <2>2. /\ DOMAIN events' = 1..(Len(events) + 1)
        /\ \A i \in DOMAIN events : events'[i] = events[i] /\ i \in DOMAIN events' /\ i < Len(events) + 1
        /\ events'[Len(events) + 1] = e /\ Len(events) + 1 \in DOMAIN events'
        /\ \A i \in DOMAIN events' : i \in DOMAIN events \/ i = Len(events) + 1
    BY <1>0, <2>1, AppendSound
  <2>3. FiresApplied'
    BY <2>1, <2>2
  <2>4. EndsAfterFires'
    <3> SUFFICES ASSUME NEW i \in DOMAIN events', events'[i][1] = "over"
                 PROVE  \/ events'[i][2] \in counted'
                        \/ \E j \in DOMAIN events' : j < i /\ events'[j] = <<"fired", events'[i][2]>>
      OBVIOUS
    <3>1. CASE i \in DOMAIN events
      BY <2>1, <2>2, <3>1
    <3>2. CASE i = Len(events) + 1
      BY <2>1, <2>2, <3>2
    <3> QED BY <2>2, <3>1, <3>2
  <2>5. GuardLetsGo'
    BY <2>1, <2>2
  <2> QED BY <2>1, <2>3, <2>4, <2>5
<1>7. CASE Apply
  <2> DEFINE e == Head(events)
  <2>1. /\ events # <<>> /\ events' = Tail(events) /\ UNCHANGED <<fired, over>>
    BY <1>7 DEF Apply
  <2>2. /\ \A i \in DOMAIN events' : i + 1 \in DOMAIN events /\ events'[i] = events[i + 1] /\ i \in Nat
        /\ \A i \in DOMAIN events : i # 1 => i - 1 \in DOMAIN events' /\ events'[i - 1] = events[i]
        /\ e = events[1] /\ e \in StoredEvents /\ DOMAIN events \subseteq Nat \ {0}
    BY <1>0, <2>1, TailSound
  <2>3. /\ e[1] = "fired" => counted' = counted \union {e[2]} /\ running' = running
        /\ e[1] = "status" => counted' = counted /\ running' = running
        /\ e[1] = "over" => counted' = counted /\ running' = running \ {e[2]}
        /\ e[1] \in {"fired", "status", "over"}
    BY <1>7, <2>2, StoredEvent DEF Apply, LetsGo
  <2>4. counted \subseteq counted' /\ \A x : e = <<"fired", x>> => x \in counted'
    BY <2>3
  <2>5. running' \subseteq running /\ \A x : e = <<"over", x>> => x \notin running'
    BY <2>3
  <2>6. FiresApplied'
    <3> SUFFICES ASSUME NEW x \in fired, x \notin counted' PROVE Awaited(x)'
      BY <2>1
    <3>1. PICK i \in DOMAIN events : events[i] = <<"fired", x>>
      BY <2>4
    <3>2. i # 1
      BY <2>2, <2>4, <3>1
    <3> QED BY <2>2, <3>1, <3>2
  <2>7. EndsAfterFires'
    <3> SUFFICES ASSUME NEW i \in DOMAIN events', events'[i][1] = "over",
                        events'[i][2] \notin counted'
                 PROVE  \E j \in DOMAIN events' : j < i /\ events'[j] = <<"fired", events'[i][2]>>
      OBVIOUS
    <3>1. PICK j \in DOMAIN events : j < i + 1 /\ events[j] = <<"fired", events[i + 1][2]>>
      BY <2>2, <2>4
    <3>2. j # 1
      BY <2>2, <2>4, <3>1
    <3>3. j \in Nat \ {0} /\ i \in Nat
      BY <2>2, <3>1
    <3>4. j - 1 < i /\ j - 1 \in DOMAIN events' /\ events'[j - 1] = <<"fired", events'[i][2]>>
      BY <2>2, <3>1, <3>2, <3>3
    <3> QED BY <3>4
  <2>8. GuardLetsGo'
    <3> SUFFICES ASSUME NEW x \in running' \intersect over'
                 PROVE  \E i \in DOMAIN events' : events'[i] = <<"over", x>>
      OBVIOUS
    <3>1. PICK i \in DOMAIN events : events[i] = <<"over", x>>
      BY <2>1, <2>5
    <3>2. i # 1
      BY <2>2, <2>5, <3>1
    <3> QED BY <2>2, <3>1, <3>2
  <2>9. CountsDelivered'
    BY <1>7, <2>2, StoredEvent DEF Apply
  <2> QED BY <2>6, <2>7, <2>8, <2>9
<1>8. CASE Crash
  BY <1>a, <1>8 DEF Crash, stream, store
<1>9. CASE UNCHANGED vars
  BY <1>a, <1>9 DEF vars
<1> QED BY <1>1, <1>2, <1>3, <1>4, <1>5, <1>6, <1>7, <1>8, <1>9, <1>10 DEF Next, Handler

----------------------------------------------------------------------------
(* What a step does to the executions and to the handlers that fire.       *)

Firing == {"fire", "firing", "fired"}

Fires(x) == at[x[2]] = "fired" /\ rule[x[2]] = x[1]

Others(h) == \A k \in Presentations \ {h} : at'[k] = at[k] /\ rule'[k] = rule[k]

Quiet ==
  /\ UNCHANGED <<fired, running, forgotten, over>>
  /\ counted \subseteq counted' /\ deliveries \subseteq deliveries'
  /\ \A k \in Presentations : at'[k] \in Firing => at[k] \in Firing /\ rule'[k] = rule[k]
  /\ \A k \in Presentations : at'[k] = "fired" <=> at[k] = "fired"

GuardPasses(h, t) ==
  /\ at'[h] = "fire" /\ rule'[h] = t /\ Others(h) /\ at[h] = "next"
  /\ <<t, Event[h]>> \in Met /\ Free(t, PrOf(h)) /\ ~Refused(h, t)
  /\ UNCHANGED <<fired, running, forgotten, over, counted, deliveries>>

Heard(h) ==
  /\ at[h] = "firing" /\ at'[h] = "fired" /\ rule' = rule /\ Others(h)
  /\ fired' = fired \union {<<rule[h], h>>}
  /\ UNCHANGED <<running, forgotten, over, counted, deliveries>>

Unheard(h) ==
  /\ at[h] = "firing" /\ at'[h] = "raised" /\ rule' = rule /\ Others(h)
  /\ fired' = fired \union {<<rule[h], h>>} /\ forgotten' = forgotten \union {<<rule[h], h>>}
  /\ UNCHANGED <<running, over, counted, deliveries>>

Recorded(h) ==
  /\ at[h] = "fired" /\ at'[h] \in {"next", "done", "raised"} /\ rule' = rule /\ Others(h)
  /\ running' = running \union {<<rule[h], h>>}
  /\ deliveries \subseteq deliveries'
  /\ UNCHANGED <<fired, forgotten, over, counted>>

EndsIt(x) ==
  /\ over' = over \union {x}
  /\ UNCHANGED <<at, rule, fired, running, forgotten, counted, deliveries>>

LetGo(x) ==
  /\ x \in over /\ x \in counted /\ running' = running \ {x}
  /\ UNCHANGED <<at, rule, fired, forgotten, over, counted, deliveries>>

Dies ==
  /\ \A k \in Presentations : at'[k] \in Ended
  /\ running' = {} /\ forgotten \subseteq forgotten'
  /\ \A x \in fired : x \in running \/ Fires(x) => x \in forgotten'
  /\ UNCHANGED <<fired, over, counted, deliveries>>

LEMMA Effects ==
  ASSUME TypeInv, TaskInv, QueueInv, [Next]_vars
  PROVE  \/ Quiet \/ Dies
         \/ \E h \in Presentations : Heard(h) \/ Unheard(h) \/ Recorded(h)
         \/ \E h \in Presentations, t \in Rules : GuardPasses(h, t)
         \/ \E x \in Executions : EndsIt(x) \/ LetGo(x)
<1> USE DEF TypeInv, Types, Firing, Others
<1>1. ASSUME NEW h \in Presentations, Ingest(h) PROVE Quiet
  BY <1>1 DEF Ingest, Evaluate, At, stream, Quiet
<1>2. ASSUME NEW h \in Presentations, Guard(h) PROVE Quiet \/ \E t \in Rules : GuardPasses(h, t)
  <2>1. PICK t \in todo[h] :
          /\ rule' = [rule EXCEPT ![h] = t]
          /\ \/ At(h, "block")
             \/ <<t, Event[h]>> \in Met /\ Free(t, PrOf(h)) /\ ~Refused(h, t) /\ At(h, "fire")
    BY <1>2 DEF Guard
  <2>2. t \in Rules /\ at[h] = "next"
    BY <1>2, <2>1 DEF Guard
  <2>3. UNCHANGED <<fired, running, forgotten, over, counted, deliveries>>
    BY <1>2 DEF Guard, stream, store
  <2>4. CASE At(h, "block")
    BY <2>1, <2>2, <2>3, <2>4 DEF At, Quiet
  <2>5. CASE <<t, Event[h]>> \in Met /\ Free(t, PrOf(h)) /\ ~Refused(h, t) /\ At(h, "fire")
    <3>1. at'[h] = "fire" /\ rule'[h] = t /\ Others(h)
      BY <2>1, <2>2, <2>5 DEF At
    <3> QED BY <2>2, <2>3, <2>5, <3>1 DEF GuardPasses
  <2> QED BY <2>1, <2>4, <2>5
<1>3. ASSUME NEW h \in Presentations, Load(h) PROVE Quiet
  BY <1>3 DEF Load, At, stream, store, Quiet
<1>4. ASSUME NEW h \in Presentations, Save(h) PROVE Quiet \/ Heard(h) \/ Unheard(h)
  <2>1. /\ UNCHANGED <<rule, running, over, counted, deliveries>> /\ Others(h)
        /\ at[h] \in {"firing", "blocking"}
    BY <1>4 DEF Save, At, Proceed, store
  <2>2. CASE at[h] = "firing" /\ Stored(h) /\ forgotten' = forgotten /\ At(h, "fired")
    <3>1. at'[h] = "fired"
      BY <2>2 DEF At
    <3> QED BY <2>1, <2>2, <3>1 DEF Stored, Heard
  <2>3. CASE /\ at[h] = "firing" /\ Stored(h) /\ At(h, "raised")
             /\ forgotten' = forgotten \union {<<rule[h], h>>}
    <3>1. at'[h] = "raised"
      BY <2>3 DEF At
    <3> QED BY <2>1, <2>3, <3>1 DEF Stored, Unheard
  <2>4. CASE fired' = fired /\ forgotten' = forgotten /\ \E step \in {"raised", "next", "done"} : At(h, step)
    <3>1. at'[h] \notin Firing
      BY <2>4 DEF At
    <3> QED BY <2>1, <2>4, <3>1 DEF Quiet
  <2>5. \/ at[h] = "firing" /\ Stored(h) /\ forgotten' = forgotten /\ At(h, "fired")
        \/ /\ at[h] = "firing" /\ Stored(h) /\ At(h, "raised")
           /\ forgotten' = forgotten \union {<<rule[h], h>>}
        \/ fired' = fired /\ forgotten' = forgotten /\ \E step \in {"raised", "next", "done"} : At(h, step)
    BY <1>4, <2>1 DEF Save, Stored, Proceed
  <2> QED BY <2>2, <2>3, <2>4, <2>5
<1>5. ASSUME NEW h \in Presentations, Record(h) PROVE Recorded(h)
  BY <1>5 DEF Record, Proceed, At, stream, Recorded
<1>6. ASSUME NEW t \in Rules, ManageLoad(t) \/ ManageSave(t) \/ \E command \in Commands : Manage(t, command) PROVE Quiet
  BY <1>6 DEF ManageLoad, ManageSave, Manage, stream, store, Quiet
<1>11. ASSUME NEW e \in marked, Expire(e) PROVE Quiet
  BY <1>11 DEF Expire, stream, memory, Quiet
<1>7. ASSUME NEW x \in running \union forgotten, Ends(x) PROVE x \in Executions /\ EndsIt(x)
  BY <1>7 DEF Ends, EndsIt, store, memory
<1>8. ASSUME Apply PROVE Quiet \/ \E x \in Executions : LetGo(x)
  <2> DEFINE e == Head(events)
  <2>1. /\ e = events[1] /\ e \in StoredEvents /\ 1 \in DOMAIN events
        /\ DOMAIN events \subseteq Nat \ {0}
    BY <1>8, TailSound DEF Apply
  <2>2. CASE e[1] # "over"
    BY <1>8, <2>1, <2>2, StoredEvent DEF Apply, Quiet
  <2>3. CASE e[1] = "over"
    <3>1. e[2] \in over /\ e[2] \in counted
      BY <2>1, <2>3 DEF EventsSound, QueueInv, EndsAfterFires
    <3> QED BY <1>8, <2>1, <2>3, <3>1, StoredEvent DEF Apply, LetsGo, LetGo
  <2> QED BY <2>2, <2>3
<1>9. ASSUME Crash PROVE Dies
  <2>1. /\ \A k \in Presentations : at'[k] \in Ended
        /\ running' = {} /\ UNCHANGED <<fired, over, counted, deliveries>>
        /\ forgotten' = forgotten \union running
                          \union {<<rule[h], h>> : h \in {k \in Presentations : at[k] = "fired"}}
    BY <1>9 DEF Crash, stream, store, Ended
  <2>2. ASSUME NEW x \in fired, Fires(x) PROVE x \in forgotten'
    <3>1. x \in Executions /\ x[2] \in Presentations /\ x = <<x[1], x[2]>>
      BY DEF Executions
    <3> QED BY <2>1, <2>2, <3>1 DEF Fires
  <2> QED BY <2>1, <2>2 DEF Dies
<1>10. ASSUME UNCHANGED vars PROVE Quiet
  BY <1>10 DEF vars, Quiet
<1> QED BY <1>1, <1>2, <1>3, <1>4, <1>5, <1>6, <1>7, <1>8, <1>9, <1>10, <1>11 DEF Next, Handler

----------------------------------------------------------------------------
(* One live execution: the lock is held until the guard has the execution. *)

Alike(x, y) == x[1] = y[1] /\ Pr[Event[x[2]]] = Pr[Event[y[2]]]

\* What was fired is known to the guard, or to the handler that fired it.
FiresKnown == \A x \in fired : x \in running \union forgotten \union over \/ Fires(x)

\* A handler that fires found no running execution, and none has come since.
NoneRuns ==
  \A h \in Presentations : at[h] \in Firing => \A x \in running : ~Alike(x, <<rule[h], h>>)

OneRuns == \A x, y \in running : Alike(x, y) => x = y

LiveInv == FiresKnown /\ NoneRuns /\ OneRuns

\* Two handlers that fire are of different rules or pull requests.
LEMMA FiringApart ==
  ASSUME TypeInv, TaskInv, NEW h \in Presentations, NEW k \in Presentations,
         at[h] \in Firing, at[k] \in Firing, Alike(<<rule[h], h>>, <<rule[k], k>>)
  PROVE  h = k
<1>1. <<rule[h], Event[h]>> \in Met /\ <<rule[k], Event[k]>> \in Met
  BY DEF TaskInv, VisitsOnce, Firing
<1>2. Holding(h) /\ Holding(k)
  BY <1>1 DEF Holding, Firing
<1>3. rule[h] = rule[k] /\ PrOf(h) = PrOf(k)
  BY DEF Alike, PrOf
<1> QED BY <1>2, <1>3 DEF TaskInv, Mutex

LEMMA LiveHolds == TypeInv /\ TaskInv /\ QueueInv /\ LiveInv /\ [Next]_vars => LiveInv'
<1> SUFFICES ASSUME TypeInv, TaskInv, QueueInv, LiveInv, [Next]_vars PROVE LiveInv'
  OBVIOUS
<1> USE DEF LiveInv, FiresKnown, NoneRuns, OneRuns
<1>0. /\ running \subseteq fired /\ fired \subseteq Executions
      /\ rule \in [Presentations -> Rules]
  BY DEF TypeInv, Types
<1>1. CASE Quiet
  <2>1. \A x \in fired : Fires(x) => Fires(x)'
    BY <1>0, <1>1 DEF Quiet, Fires, Firing, Executions
  <2>2. FiresKnown'
    BY <1>1, <2>1 DEF Quiet
  <2>3. NoneRuns'
    BY <1>1 DEF Quiet, Alike
  <2> QED BY <1>1, <2>2, <2>3 DEF Quiet, Alike
<1>2. CASE Dies
  BY <1>2 DEF Dies, Firing, Ended, Fires, Alike
<1>3. ASSUME NEW h \in Presentations, Heard(h) PROVE LiveInv'
  <2> DEFINE z == <<rule[h], h>>
  <2>1. Fires(z)' /\ \A x \in fired : Fires(x) => Fires(x)'
    BY <1>0, <1>3 DEF Heard, Others, Fires, Executions
  <2>2. FiresKnown'
    BY <1>3, <2>1 DEF Heard
  <2>3. \A k \in Presentations : at'[k] \in Firing => at[k] \in Firing /\ rule'[k] = rule[k]
    BY <1>3 DEF Heard, Others, Firing
  <2>4. NoneRuns'
    BY <1>3, <2>3 DEF Heard, Alike
  <2> QED BY <1>3, <2>2, <2>4 DEF Heard, Alike
<1>4. ASSUME NEW h \in Presentations, Unheard(h) PROVE LiveInv'
  <2>1. \A x \in fired : Fires(x) => Fires(x)'
    BY <1>0, <1>4 DEF Unheard, Others, Fires, Executions
  <2>2. FiresKnown'
    BY <1>4, <2>1 DEF Unheard
  <2>3. \A k \in Presentations : at'[k] \in Firing => at[k] \in Firing /\ rule'[k] = rule[k]
    BY <1>4 DEF Unheard, Others, Firing
  <2>4. NoneRuns'
    BY <1>4, <2>3 DEF Unheard, Alike
  <2> QED BY <1>4, <2>2, <2>4 DEF Unheard, Alike
<1>5. ASSUME NEW h \in Presentations, Recorded(h) PROVE LiveInv'
  <2> DEFINE z == <<rule[h], h>>
  <2>1. \A x \in fired : Fires(x) => Fires(x)' \/ x = z
    BY <1>0, <1>5 DEF Recorded, Others, Fires, Executions
  <2>2. FiresKnown'
    BY <1>5, <2>1 DEF Recorded
  <2>3. \A k \in Presentations : at'[k] \in Firing => at[k] \in Firing /\ rule'[k] = rule[k] /\ k # h
    BY <1>5 DEF Recorded, Others, Firing
  <2>4. at[h] \in Firing
    BY <1>5 DEF Recorded, Firing
  <2>5. NoneRuns'
    <3> SUFFICES ASSUME NEW k \in Presentations, at'[k] \in Firing, NEW x \in running',
                        Alike(x, <<rule'[k], k>>)
                 PROVE  FALSE
      BY DEF Alike
    <3>1. CASE x \in running
      BY <2>3, <3>1
    <3>2. CASE x = z
      BY <2>3, <2>4, <3>2, FiringApart
    <3> QED BY <1>5, <3>1, <3>2 DEF Recorded
  <2>6. \A x \in running : ~Alike(x, z) /\ ~Alike(z, x)
    BY <2>4 DEF Alike
  <2>7. \A x, y \in running' : Alike(x, y) => x = y
    BY <1>5, <2>6 DEF Recorded
  <2> QED BY <2>2, <2>5, <2>7 DEF Alike
<1>6. ASSUME NEW h \in Presentations, NEW t \in Rules, GuardPasses(h, t) PROVE LiveInv'
  <2>1. \A x \in fired : Fires(x) => Fires(x)'
    BY <1>0, <1>6 DEF GuardPasses, Others, Fires, Executions
  <2>2. FiresKnown'
    BY <1>6, <2>1 DEF GuardPasses
  <2>3. \A x \in running : ~Alike(x, <<t, h>>)
    BY <1>6 DEF GuardPasses, Refused, Of, PrOf, Alike
  <2>4. NoneRuns'
    BY <1>6, <2>3 DEF GuardPasses, Others, Alike
  <2> QED BY <1>6, <2>2, <2>4 DEF GuardPasses, Alike
<1>7. ASSUME NEW x \in Executions, EndsIt(x) \/ LetGo(x) PROVE LiveInv'
  BY <1>7 DEF EndsIt, LetGo, Alike, Fires
<1> QED BY <1>1, <1>2, <1>3, <1>4, <1>5, <1>6, <1>7, Effects

LEMMA FiringInit == Init => TypeInv /\ TaskInv /\ QueueInv /\ LiveInv
<1> SUFFICES ASSUME Init PROVE TypeInv /\ TaskInv /\ QueueInv /\ LiveInv
  OBVIOUS
<1> USE DEF Init
<1>1. TypeInv
  BY DEF TypeInv, Types, EventsSound, FiresStored, Ended, Statuses, Executions
<1>2. TaskInv
  BY DEF TaskInv, VisitsOnce, Mutex, Visiting, Holding
<1>3. QueueInv
  BY DEF QueueInv, FiresApplied, EndsAfterFires, GuardLetsGo, CountsDelivered
<1>4. LiveInv
  BY DEF LiveInv, FiresKnown, NoneRuns, OneRuns, Firing
<1> QED BY <1>1, <1>2, <1>3, <1>4

\* Two executions of a rule and a pull request run together only past a lost memory.
THEOREM OneIsLive == Spec => []OneLive
<1>1. TypeInv /\ TaskInv /\ LiveInv => OneLive
  <2> SUFFICES ASSUME TypeInv, TaskInv, LiveInv, NEW x \in fired \ over, NEW y \in fired \ over,
                      x[1] = y[1], PrOf(x[2]) = PrOf(y[2]), x \notin forgotten, y \notin forgotten
               PROVE  x = y
    BY DEF OneLive
  <2>1. Alike(x, y) /\ Alike(y, x)
    BY DEF Alike, PrOf
  <2>2. (x \in running \/ Fires(x)) /\ (y \in running \/ Fires(y))
    BY DEF LiveInv, FiresKnown
  <2>3. /\ x = <<x[1], x[2]>> /\ x[2] \in Presentations
        /\ y = <<y[1], y[2]>> /\ y[2] \in Presentations
    BY DEF TypeInv, Types, Executions
  <2>4. \A z \in {x, y} : Fires(z) => z = <<rule[z[2]], z[2]>> /\ at[z[2]] \in Firing
    BY <2>3 DEF Fires, Firing
  <2>5. CASE Fires(x) /\ Fires(y)
    BY <2>1, <2>3, <2>4, <2>5, FiringApart
  <2>6. CASE x \in running /\ y \in running
    BY <2>1, <2>6 DEF LiveInv, OneRuns
  <2>7. CASE x \in running /\ Fires(y)
    BY <2>1, <2>3, <2>4, <2>7 DEF LiveInv, NoneRuns
  <2>8. CASE y \in running /\ Fires(x)
    BY <2>1, <2>3, <2>4, <2>8 DEF LiveInv, NoneRuns
  <2> QED BY <2>2, <2>5, <2>6, <2>7, <2>8
<1> QED BY <1>1, FiringInit, TypesHold, TasksHold, QueueHolds, LiveHolds, PTL DEF Spec

\* The guard lets go of an execution that completed or failed.
THEOREM GuardLetsItGo == Spec => []GuardLetsGo
<1>1. QueueInv => GuardLetsGo
  BY DEF QueueInv
<1> QED BY <1>1, FiringInit, TypesHold, TasksHold, QueueHolds, PTL DEF Spec

----------------------------------------------------------------------------
(* One fire an event: the dedup table lets one presentation in, and the    *)
(* deliveries recorded under the lock keep out the redelivered one.        *)

Worked(h) == at[h] \in Busy \union {"raised", "gone"} \/ \E t \in Rules : <<t, h>> \in answered

\* The events the dedup table knows or knew.
Seen == marked \union expired

LetInOnce ==
  \A h, k \in Presentations :
    /\ Worked(h) => h \in unchecked \/ Event[h] \in Seen
    /\ Worked(h) /\ Worked(k) /\ Event[h] = Event[k] /\ h # k => h \in unchecked \/ k \in unchecked

LEMMA LetInHolds == TypeInv /\ TaskInv /\ LetInOnce /\ [Next]_vars => LetInOnce'
<1> SUFFICES ASSUME TypeInv, TaskInv, LetInOnce, [Next]_vars PROVE LetInOnce'
  OBVIOUS
<1> USE DEF TypeInv, Types
<1>a. ASSUME \A k \in Presentations : Worked(k)' => Worked(k), unchecked' = unchecked, Seen' = Seen
      PROVE  LetInOnce'
  BY <1>a DEF LetInOnce
<1>1. ASSUME NEW h \in Presentations, Ingest(h) PROVE LetInOnce'
  <2>1. /\ \A k \in Presentations \ {h} : at'[k] = at[k]
        /\ answered' = answered /\ Seen \subseteq Seen' /\ unchecked \subseteq unchecked'
        /\ at[h] = "waiting" /\ at'[h] \in {"done", "next"}
        /\ \A t \in Rules : <<t, h>> \notin answered
    <3>1. /\ at[h] = "waiting" /\ answered' = answered
          /\ Seen \subseteq Seen' /\ unchecked \subseteq unchecked'
      BY <1>1 DEF Ingest, stream, Seen
    <3>2. \E step \in {"done", "next"} : At(h, step)
      BY <1>1 DEF Ingest, Evaluate
    <3>3. (\A k \in Presentations \ {h} : at'[k] = at[k]) /\ at'[h] \in {"done", "next"}
      BY <3>2 DEF At
    <3>4. \A t \in Rules : <<t, h>> \notin answered
      BY <3>1 DEF TaskInv, VisitsOnce
    <3> QED BY <3>1, <3>3, <3>4
  <2>2. \A k \in Presentations \ {h} : Worked(k)' => Worked(k)
    BY <2>1 DEF Worked
  <2>3. Worked(h)' => h \in unchecked' \/ (Event[h] \in Seen' /\ Event[h] \notin Seen)
    <3>1. CASE at'[h] = "done"
      BY <2>1, <3>1 DEF Worked, Busy
    <3>2. CASE at'[h] = "next"
      BY <1>1, <3>2 DEF Ingest, Deduplicated, At, Seen
    <3> QED BY <2>1, <3>1, <3>2
  <2> QED BY <2>1, <2>2, <2>3 DEF LetInOnce
<1>2. ASSUME NEW h \in Presentations, Guard(h) \/ Load(h) \/ Record(h) PROVE LetInOnce'
  <2>1. /\ \A k \in Presentations \ {h} : at'[k] = at[k]
        /\ answered' = answered /\ at[h] \in Busy /\ unchecked' = unchecked /\ Seen' = Seen
    <3>1. answered' = answered /\ at[h] \in Busy /\ unchecked' = unchecked /\ Seen' = Seen
      BY <1>2 DEF Guard, Load, Record, stream, store, Busy, Seen
    <3>2. \E step \in Ended \union Busy : At(h, step)
      BY <1>2 DEF Guard, Load, Record, Proceed, Ended, Busy
    <3> QED BY <3>1, <3>2 DEF At
  <2> QED BY <1>a, <2>1 DEF Worked
<1>3. ASSUME NEW h \in Presentations, Save(h) PROVE LetInOnce'
  <2>1. /\ \A k \in Presentations \ {h} : at'[k] = at[k]
        /\ answered' \subseteq answered \union {<<rule[h], h>>} /\ at[h] \in Busy
        /\ unchecked' = unchecked /\ Seen' = Seen
    BY <1>3 DEF Save, Stored, Proceed, At, store, Busy, Seen
  <2> QED BY <1>a, <2>1 DEF Worked
<1>4. CASE UNCHANGED <<at, answered, unchecked>> /\ Seen' = Seen
  BY <1>a, <1>4 DEF Worked
<1>5. ASSUME NEW t \in Rules, ManageLoad(t) \/ ManageSave(t) \/ \E command \in Commands : Manage(t, command) PROVE LetInOnce'
  BY <1>4, <1>5 DEF ManageLoad, ManageSave, Manage, stream, store, Seen
<1>6. CASE Apply \/ \E x \in running \union forgotten : Ends(x)
  BY <1>4, <1>6 DEF Apply, Ends, store, memory, Seen
<1>9. ASSUME NEW e \in marked, Expire(e) PROVE LetInOnce'
  <2>1. UNCHANGED <<at, answered, unchecked>> /\ Seen' = Seen
    BY <1>9 DEF Expire, stream, memory, Seen
  <2> QED BY <1>4, <2>1
<1>7. CASE Crash
  <2>1. /\ \A k \in Presentations : at'[k] = IF at[k] \in Ended THEN at[k] ELSE "gone"
        /\ UNCHANGED <<answered, unchecked>> /\ Seen' = Seen
    BY <1>7 DEF Crash, stream, store, Seen
  <2>2. \A k \in Presentations : Worked(k)' => Worked(k)
    BY <2>1 DEF Worked, Busy, Ended
  <2> QED BY <1>a, <2>1, <2>2
<1>8. CASE UNCHANGED vars
  BY <1>4, <1>8 DEF vars, Seen
<1> QED BY <1>1, <1>2, <1>3, <1>5, <1>6, <1>7, <1>8, <1>9 DEF Next, Handler

SameDelivery(x, y) == x[1] = y[1] /\ Delivery[x[2]] = Delivery[y[2]]

DeliveriesKnown ==
  \A x \in fired \ forgotten : Delivery[x[2]] \in deliveries \/ x \in running \/ Fires(x)

NoneFired ==
  \A h \in Presentations :
    at[h] \in {"fire", "firing"} => \A x \in fired \ forgotten : ~SameDelivery(x, <<rule[h], h>>)

OneFired == \A x, y \in fired \ forgotten : SameDelivery(x, y) => x = y

DeliveryInv == DeliveriesKnown /\ NoneFired /\ OneFired

LEMMA DeliveriesHold ==
  TypeInv /\ TaskInv /\ QueueInv /\ DeliveryInv /\ [Next]_vars => DeliveryInv'
<1> SUFFICES ASSUME TypeInv, TaskInv, QueueInv, DeliveryInv, [Next]_vars PROVE DeliveryInv'
  OBVIOUS
<1> USE DEF DeliveryInv, DeliveriesKnown, NoneFired, OneFired, SameDelivery
<1>0. /\ fired \subseteq Executions /\ rule \in [Presentations -> Rules]
      /\ \A h \in Presentations : at[h] = "firing" => <<rule[h], h>> \notin fired
      /\ \A h \in Presentations : at[h] = "fired" => <<rule[h], Event[h]>> \in Met
      /\ \A h \in Presentations : at[h] = "firing" => <<rule[h], Event[h]>> \in Met
  BY DEF TypeInv, Types, TaskInv, VisitsOnce, Visiting
\* Presentations of one delivery are of one pull request.
<1>a. \A h, k \in Presentations : Delivery[h] = Delivery[k] => Pr[Event[h]] = Pr[Event[k]]
  OBVIOUS
<1>b. ASSUME UNCHANGED fired, forgotten \subseteq forgotten', deliveries \subseteq deliveries',
             \A x \in fired \ forgotten' : x \in running \/ Fires(x) =>
               x \in running' \/ Fires(x)' \/ Delivery[x[2]] \in deliveries',
             \A k \in Presentations : at'[k] \in {"fire", "firing"} =>
               at[k] \in {"fire", "firing"} /\ rule'[k] = rule[k]
      PROVE  DeliveryInv'
  BY <1>b
<1>1. CASE Quiet
  <2>1. \A x \in fired : Fires(x) => Fires(x)'
    BY <1>0, <1>1 DEF Quiet, Fires, Firing, Executions
  <2>2. \A k \in Presentations : at'[k] \in {"fire", "firing"} =>
          at[k] \in {"fire", "firing"} /\ rule'[k] = rule[k]
    BY <1>1 DEF Quiet, Firing
  <2> QED BY <1>1, <1>b, <2>1, <2>2 DEF Quiet
<1>2. CASE Dies
  BY <1>2, <1>b DEF Dies, Ended
<1>3. ASSUME NEW h \in Presentations, Heard(h) PROVE DeliveryInv'
  <2> DEFINE z == <<rule[h], h>>
  <2>1. Fires(z)' /\ \A x \in fired : Fires(x) => Fires(x)'
    BY <1>0, <1>3 DEF Heard, Others, Fires, Executions
  <2>2. DeliveriesKnown'
    BY <1>3, <2>1 DEF Heard
  <2>3. \A x \in fired \ forgotten : ~SameDelivery(x, z)
    BY <1>3 DEF Heard
  <2>4. OneFired'
    BY <1>3, <2>3 DEF Heard
  <2>5. NoneFired'
    <3> SUFFICES ASSUME NEW k \in Presentations, at'[k] \in {"fire", "firing"},
                        NEW x \in fired' \ forgotten', SameDelivery(x, <<rule'[k], k>>)
                 PROVE  FALSE
      OBVIOUS
    <3>1. k # h /\ at[k] \in {"fire", "firing"} /\ rule'[k] = rule[k]
      BY <1>3 DEF Heard, Others
    <3>2. x = z
      BY <1>3, <3>1 DEF Heard
    <3>3. Alike(z, <<rule[k], k>>)
      BY <1>a, <3>1, <3>2 DEF Alike
    <3>4. at[h] \in Firing /\ at[k] \in Firing
      BY <1>3, <3>1 DEF Heard, Firing
    <3> QED BY <3>1, <3>3, <3>4, FiringApart
  <2> QED BY <2>2, <2>4, <2>5
<1>4. ASSUME NEW h \in Presentations, Unheard(h) PROVE DeliveryInv'
  <2>1. \A x \in fired : Fires(x) => Fires(x)'
    BY <1>0, <1>4 DEF Unheard, Others, Fires, Executions
  <2>2. \A k \in Presentations : at'[k] \in {"fire", "firing"} =>
          at[k] \in {"fire", "firing"} /\ rule'[k] = rule[k]
    BY <1>4 DEF Unheard, Others
  <2>3. fired' \ forgotten' \subseteq fired \ forgotten /\ UNCHANGED <<deliveries, running>>
    BY <1>4 DEF Unheard
  <2> QED BY <2>1, <2>2, <2>3
<1>5. ASSUME NEW h \in Presentations, Recorded(h) PROVE DeliveryInv'
  <2>1. \A x \in fired : Fires(x) => Fires(x)' \/ x \in running'
    BY <1>0, <1>5 DEF Recorded, Others, Fires, Executions
  <2>2. \A k \in Presentations : at'[k] \in {"fire", "firing"} =>
          at[k] \in {"fire", "firing"} /\ rule'[k] = rule[k]
    BY <1>5 DEF Recorded, Others
  <2> QED BY <1>5, <1>b, <2>1, <2>2 DEF Recorded
<1>6. ASSUME NEW h \in Presentations, NEW t \in Rules, GuardPasses(h, t) PROVE DeliveryInv'
  <2>1. \A x \in fired : Fires(x) => Fires(x)'
    BY <1>0, <1>6 DEF GuardPasses, Others, Fires, Executions
  <2>2. \A x \in fired \ forgotten : ~SameDelivery(x, <<t, h>>)
    <3> SUFFICES ASSUME NEW x \in fired \ forgotten, SameDelivery(x, <<t, h>>) PROVE FALSE
      OBVIOUS
    <3>1. x[2] \in Presentations /\ x[1] = t /\ Delivery[x[2]] = Delivery[h]
      BY <1>0 DEF Executions
    <3>2. Delivery[h] \notin deliveries
      BY <1>6 DEF GuardPasses, Refused
    <3>a. x \notin running
      BY <1>a, <1>6, <3>1 DEF GuardPasses, Refused, Of, PrOf
    <3>3. at[x[2]] = "fired" /\ rule[x[2]] = t
      BY <3>1, <3>2, <3>a DEF Fires
    <3>4. Holding(x[2])
      BY <1>0, <3>1, <3>3 DEF Holding
    <3> QED BY <1>a, <1>6, <3>1, <3>3, <3>4 DEF GuardPasses, Free, PrOf
  <2>3. NoneFired'
    BY <1>6, <2>2 DEF GuardPasses, Others
  <2> QED BY <1>6, <2>1, <2>3 DEF GuardPasses
<1>7. ASSUME NEW x \in Executions, EndsIt(x) \/ LetGo(x) PROVE DeliveryInv'
  BY <1>7 DEF EndsIt, LetGo, Fires, QueueInv, CountsDelivered
<1> QED BY <1>1, <1>2, <1>3, <1>4, <1>5, <1>6, <1>7, Effects

\* An event fires a rule twice only past an unanswered dedup check or an expired key, and a delivery
\* only past a lost memory too.
THEOREM FiresAtMostOnce == Spec => []FiresOnce
<1>1. TypeInv /\ LetInOnce /\ DeliveryInv => FiresOnce
  <2> SUFFICES ASSUME TypeInv, LetInOnce, DeliveryInv, NEW x \in fired, NEW y \in fired,
                      x[1] = y[1], x # y, Event[x[2]] = Event[y[2]]
               PROVE  /\ x[2] \in unchecked \/ y[2] \in unchecked
                      /\ Delivery[x[2]] = Delivery[y[2]] => x \in forgotten \/ y \in forgotten
    BY DEF FiresOnce
  <2>1. /\ x = <<x[1], x[2]>> /\ x[1] \in Rules /\ x[2] \in Presentations /\ x \in answered
        /\ y = <<y[1], y[2]>> /\ y[1] \in Rules /\ y[2] \in Presentations /\ y \in answered
    BY DEF TypeInv, Types, Executions
  <2>2. x[2] # y[2] /\ Worked(x[2]) /\ Worked(y[2])
    BY <2>1 DEF Worked
  <2>3. x[2] \in unchecked \/ y[2] \in unchecked
    BY <2>1, <2>2 DEF LetInOnce
  <2>4. Delivery[x[2]] = Delivery[y[2]] => x \in forgotten \/ y \in forgotten
    BY DEF DeliveryInv, OneFired, SameDelivery
  <2> QED BY <2>3, <2>4
<1>2. Init => LetInOnce /\ DeliveryInv
  BY DEF Init, LetInOnce, Worked, Busy, DeliveryInv, DeliveriesKnown, NoneFired, OneFired
<1> QED BY <1>1, <1>2, FiringInit, TypesHold, TasksHold, QueueHolds, LetInHolds, DeliveriesHold,
           PTL DEF Spec

----------------------------------------------------------------------------
(* The attempts: what the fire records do not count yet, the guard still   *)
(* holds or its handler does.                                              *)

LEMMA OfFinite ==
  ASSUME NEW xs, xs \subseteq Executions, NEW t, NEW pr
  PROVE  /\ Of(xs, t, pr) \subseteq Executions /\ IsFiniteSet(Of(xs, t, pr))
         /\ Cardinality(Of(xs, t, pr)) \in Nat
<1>1. IsFiniteSet(Executions)
  BY FS_Product DEF Executions
<1>2. Of(xs, t, pr) \subseteq Executions
  BY DEF Of
<1> QED BY <1>1, <1>2, FS_Subset, FS_CardinalityType

LEMMA OfSmaller ==
  ASSUME NEW ys, ys \subseteq Executions, NEW xs, xs \subseteq ys, NEW t, NEW pr
  PROVE  Cardinality(Of(xs, t, pr)) <= Cardinality(Of(ys, t, pr))
<1>1. Of(xs, t, pr) \subseteq Of(ys, t, pr)
  BY DEF Of
<1> QED BY <1>1, OfFinite, FS_Subset

LEMMA OfOneMore ==
  ASSUME NEW xs, xs \subseteq Executions, NEW z \in Executions, NEW t, NEW pr
  PROVE  /\ Cardinality(Of(xs \union {z}, t, pr)) <= Cardinality(Of(xs, t, pr)) + 1
         /\ ~(z[1] = t /\ PrOf(z[2]) = pr) => Of(xs \union {z}, t, pr) = Of(xs, t, pr)
<1>1. Of(xs \union {z}, t, pr) \in {Of(xs, t, pr), Of(xs, t, pr) \union {z}}
  BY DEF Of
<1>2. IsFiniteSet(Of(xs, t, pr)) /\ Cardinality(Of(xs, t, pr)) \in Nat
  BY OfFinite
<1>3. Cardinality(Of(xs, t, pr) \union {z}) \in {Cardinality(Of(xs, t, pr)), Cardinality(Of(xs, t, pr)) + 1}
  BY <1>2, FS_AddElement
<1>4. Cardinality(Of(xs \union {z}, t, pr)) <= Cardinality(Of(xs, t, pr)) + 1
  <2>1. CASE Of(xs \union {z}, t, pr) = Of(xs, t, pr)
    BY <1>2, <2>1
  <2>2. CASE Of(xs \union {z}, t, pr) = Of(xs, t, pr) \union {z}
    <3> DEFINE n == Cardinality(Of(xs, t, pr))
    <3>1. Cardinality(Of(xs \union {z}, t, pr)) \in {n, n + 1}
      BY <1>3, <2>2
    <3>2. n \in Nat
      BY <1>2
    <3> HIDE DEF n
    <3>3. Cardinality(Of(xs \union {z}, t, pr)) <= n + 1
      BY <3>1, <3>2
    <3> QED BY <3>3 DEF n
  <2> QED BY <1>1, <2>1, <2>2
<1>5. ~(z[1] = t /\ PrOf(z[2]) = pr) => Of(xs \union {z}, t, pr) = Of(xs, t, pr)
  BY DEF Of
<1> QED BY <1>4, <1>5

Remembered == fired \ forgotten

AttemptsKnown == \A x \in Remembered : x \in counted \/ x \in running \/ Fires(x)

RoomLeft ==
  \A h \in Presentations :
    at[h] \in {"fire", "firing"} /\ PrOf(h) # NoPr =>
      Cardinality(Of(Remembered, rule[h], PrOf(h))) < MaxAttempts

AttemptInv == AttemptsKnown /\ RoomLeft /\ WithinAttempts

LEMMA AttemptsHold ==
  TypeInv /\ TaskInv /\ QueueInv /\ LiveInv /\ AttemptInv /\ [Next]_vars => AttemptInv'
<1> SUFFICES ASSUME TypeInv, TaskInv, QueueInv, LiveInv, AttemptInv, [Next]_vars PROVE AttemptInv'
  OBVIOUS
<1>0. /\ fired \subseteq Executions /\ rule \in [Presentations -> Rules]
      /\ fired' \subseteq Executions
      /\ \A h \in Presentations : at[h] = "fired" => <<rule[h], Event[h]>> \in Met
      /\ \A h \in Presentations : at[h] \in {"fire", "firing"} => <<rule[h], Event[h]>> \in Met
  BY TypesHold DEF TypeInv, Types, TaskInv, VisitsOnce
<1>1. Remembered \subseteq Executions /\ Remembered' \subseteq Executions
  BY <1>0 DEF Remembered
<1>2. \A t \in Rules : \A h \in Presentations :
        PrOf(h) # NoPr => Cardinality(Of(Remembered, t, PrOf(h))) <= MaxAttempts
  BY DEF AttemptInv, WithinAttempts, Remembered
\* What loses executions only makes room.
<1>a. ASSUME Remembered' \subseteq Remembered,
             \A x \in Remembered' : Fires(x) => Fires(x)' \/ x \in counted' \union running',
             \A x \in Remembered' : x \in counted \union running => x \in counted' \union running',
             \A k \in Presentations : at'[k] \in {"fire", "firing"} =>
               at[k] \in {"fire", "firing"} /\ rule'[k] = rule[k]
      PROVE  AttemptInv'
  <2>1. \A t, pr : /\ Cardinality(Of(Remembered', t, pr)) <= Cardinality(Of(Remembered, t, pr))
                   /\ Cardinality(Of(Remembered', t, pr)) \in Nat
                   /\ Cardinality(Of(Remembered, t, pr)) \in Nat
    BY <1>1, <1>a, OfSmaller, OfFinite
  <2>2. AttemptsKnown'
    BY <1>a DEF AttemptInv, AttemptsKnown
  <2>3. RoomLeft'
    BY <1>a, <2>1 DEF AttemptInv, RoomLeft
  <2>4. WithinAttempts'
    BY <1>2, <2>1 DEF WithinAttempts, Remembered
  <2> QED BY <2>2, <2>3, <2>4 DEF AttemptInv
<1>3. CASE Quiet
  <2>1. \A x \in fired : Fires(x) => Fires(x)'
    BY <1>0, <1>3 DEF Quiet, Fires, Firing, Executions
  <2>2. \A k \in Presentations : at'[k] \in {"fire", "firing"} =>
          at[k] \in {"fire", "firing"} /\ rule'[k] = rule[k]
    BY <1>3 DEF Quiet, Firing
  <2> QED BY <1>3, <1>a, <2>1, <2>2 DEF Quiet, Remembered
<1>4. CASE Dies
  BY <1>4, <1>a DEF Dies, Ended, Remembered
<1>5. ASSUME NEW h \in Presentations, Heard(h) PROVE AttemptInv'
  <2> DEFINE z == <<rule[h], h>>
  <2>1. Fires(z)' /\ \A x \in fired : Fires(x) => Fires(x)'
    BY <1>0, <1>5 DEF Heard, Others, Fires, Executions
  <2>2. /\ Remembered' \subseteq Remembered \union {z} /\ Remembered \subseteq Remembered'
        /\ z \in Executions /\ UNCHANGED <<counted, running>>
    BY <1>0, <1>5 DEF Heard, Remembered, Executions
  <2>3. AttemptsKnown'
    <3> SUFFICES ASSUME NEW x \in Remembered'
                 PROVE  x \in counted' \/ x \in running' \/ Fires(x)'
      BY DEF AttemptsKnown, Fires
    <3>1. CASE x = z
      BY <1>5, <3>1 DEF Heard, Fires
    <3>2. CASE x \in Remembered
      <4>1. x \in fired /\ (x \in counted \/ x \in running \/ Fires(x))
        BY <3>2 DEF AttemptInv, AttemptsKnown, Remembered
      <4> QED BY <2>1, <2>2, <4>1 DEF Fires
    <3> QED BY <2>2, <3>1, <3>2
  <2>4. Remembered' = Remembered \/ Remembered' = Remembered \union {z}
    BY <2>2
  <2>5. \A t, pr : /\ Cardinality(Of(Remembered', t, pr)) <= Cardinality(Of(Remembered, t, pr)) + 1
                   /\ Cardinality(Of(Remembered, t, pr)) \in Nat
                   /\ Cardinality(Of(Remembered', t, pr)) \in Nat
                   /\ ~(t = rule[h] /\ pr = PrOf(h)) => Of(Remembered', t, pr) = Of(Remembered, t, pr)
    <3> SUFFICES ASSUME NEW t, NEW pr
                 PROVE  /\ Cardinality(Of(Remembered', t, pr)) <= Cardinality(Of(Remembered, t, pr)) + 1
                        /\ Cardinality(Of(Remembered, t, pr)) \in Nat
                        /\ Cardinality(Of(Remembered', t, pr)) \in Nat
                        /\ ~(t = rule[h] /\ pr = PrOf(h)) =>
                             Of(Remembered', t, pr) = Of(Remembered, t, pr)
      OBVIOUS
    <3>1. Cardinality(Of(Remembered, t, pr)) \in Nat /\ Cardinality(Of(Remembered', t, pr)) \in Nat
      BY <1>1, OfFinite
    <3>2. CASE Remembered' = Remembered
      BY <3>1, <3>2
    <3>3. CASE Remembered' = Remembered \union {z}
      BY <1>1, <2>2, <3>1, <3>3, OfOneMore
    <3> QED BY <2>4, <3>2, <3>3
  <2>6. ASSUME NEW k \in Presentations, at'[k] \in {"fire", "firing"}, PrOf(k) # NoPr
        PROVE  Cardinality(Of(Remembered', rule'[k], PrOf(k))) < MaxAttempts
    <3>1. k # h /\ at[k] \in {"fire", "firing"} /\ rule'[k] = rule[k]
      BY <1>5, <2>6 DEF Heard, Others
    <3>2. ~(rule[k] = rule[h] /\ PrOf(k) = PrOf(h))
      BY <1>5, <3>1, FiringApart DEF Heard, Firing, Alike, PrOf
    <3> QED BY <2>5, <2>6, <3>1, <3>2 DEF AttemptInv, RoomLeft
  <2>7. RoomLeft'
    BY <2>6 DEF RoomLeft, PrOf
  <2>8. ASSUME NEW t \in Rules, NEW k \in Presentations, PrOf(k) # NoPr
        PROVE  Cardinality(Of(Remembered', t, PrOf(k))) <= MaxAttempts
    <3>1. CASE t = rule[h] /\ PrOf(k) = PrOf(h)
      <4>1. Cardinality(Of(Remembered, rule[h], PrOf(h))) < MaxAttempts
        BY <1>5, <2>8, <3>1 DEF Heard, AttemptInv, RoomLeft
      <4> QED BY <2>5, <3>1, <4>1
    <3>2. CASE ~(t = rule[h] /\ PrOf(k) = PrOf(h))
      BY <1>2, <2>5, <2>8, <3>2
    <3> QED BY <3>1, <3>2
  <2>9. WithinAttempts'
    BY <2>8 DEF WithinAttempts, Remembered, PrOf
  <2> QED BY <2>3, <2>7, <2>9 DEF AttemptInv
<1>6. ASSUME NEW h \in Presentations, Unheard(h) PROVE AttemptInv'
  <2>1. \A x \in fired : Fires(x) => Fires(x)'
    BY <1>0, <1>6 DEF Unheard, Others, Fires, Executions
  <2>2. \A k \in Presentations : at'[k] \in {"fire", "firing"} =>
          at[k] \in {"fire", "firing"} /\ rule'[k] = rule[k]
    BY <1>6 DEF Unheard, Others
  <2>3. Remembered' \subseteq Remembered /\ UNCHANGED <<counted, running>>
    BY <1>6 DEF Unheard, Remembered
  <2> QED BY <1>a, <2>1, <2>2, <2>3 DEF Remembered
<1>7. ASSUME NEW h \in Presentations, Recorded(h) PROVE AttemptInv'
  <2>1. \A x \in fired : Fires(x) => Fires(x)' \/ x \in running'
    BY <1>0, <1>7 DEF Recorded, Others, Fires, Executions
  <2>2. \A k \in Presentations : at'[k] \in {"fire", "firing"} =>
          at[k] \in {"fire", "firing"} /\ rule'[k] = rule[k]
    BY <1>7 DEF Recorded, Others
  <2> QED BY <1>7, <1>a, <2>1, <2>2 DEF Recorded, Remembered
<1>8. ASSUME NEW h \in Presentations, NEW t \in Rules, GuardPasses(h, t) PROVE AttemptInv'
  <2>1. \A x \in fired : Fires(x) => Fires(x)'
    BY <1>0, <1>8 DEF GuardPasses, Others, Fires, Executions
  <2>2. UNCHANGED <<Remembered, counted, running>>
    BY <1>8 DEF GuardPasses, Remembered
  <2>3. AttemptsKnown'
    BY <2>1, <2>2 DEF AttemptInv, AttemptsKnown, Remembered
  <2>4. Of(Remembered, t, PrOf(h)) \subseteq Of(counted, t, PrOf(h))
    <3> SUFFICES ASSUME NEW x \in Remembered, x[1] = t, PrOf(x[2]) = PrOf(h) PROVE x \in counted
      BY DEF Of
    <3>1. x \notin running
      BY <1>8 DEF GuardPasses, Refused, Of
    <3>2. ~Fires(x)
      <4> SUFFICES ASSUME Fires(x) PROVE FALSE
        OBVIOUS
      <4>1. x[2] \in Presentations /\ at[x[2]] = "fired" /\ rule[x[2]] = t
        BY <1>1 DEF Fires, Executions
      <4>2. Holding(x[2])
        BY <1>0, <4>1 DEF Holding
      <4> QED BY <1>8, <4>1, <4>2 DEF GuardPasses, Free
    <3> QED BY <3>1, <3>2 DEF AttemptInv, AttemptsKnown
  <2>5. PrOf(h) # NoPr => Cardinality(Of(Remembered, t, PrOf(h))) < MaxAttempts
    <3> SUFFICES ASSUME PrOf(h) # NoPr PROVE Cardinality(Of(Remembered, t, PrOf(h))) < MaxAttempts
      OBVIOUS
    <3>1. counted \subseteq Executions
      BY DEF TypeInv, Types
    <3>2. IsFiniteSet(Of(counted, t, PrOf(h))) /\ Cardinality(Of(counted, t, PrOf(h))) \in Nat
      BY <3>1, OfFinite
    <3>3. /\ Cardinality(Of(Remembered, t, PrOf(h))) <= Cardinality(Of(counted, t, PrOf(h)))
          /\ Cardinality(Of(Remembered, t, PrOf(h))) \in Nat
      BY <1>1, <2>4, <3>2, FS_Subset, OfFinite
    <3>4. ~(Cardinality(Of(counted, t, PrOf(h))) >= MaxAttempts)
      BY <1>8 DEF GuardPasses, Refused
    <3> QED BY <3>2, <3>3, <3>4
  <2>6. ASSUME NEW k \in Presentations, at'[k] \in {"fire", "firing"}, PrOf(k) # NoPr
        PROVE  Cardinality(Of(Remembered', rule'[k], PrOf(k))) < MaxAttempts
    <3>1. CASE k = h
      BY <1>8, <2>2, <2>5, <2>6, <3>1 DEF GuardPasses
    <3>2. CASE k # h
      BY <1>8, <2>2, <2>6, <3>2 DEF GuardPasses, Others, AttemptInv, RoomLeft
    <3> QED BY <3>1, <3>2
  <2>7. RoomLeft'
    BY <2>6 DEF RoomLeft, PrOf
  <2>8. WithinAttempts'
    BY <1>2, <2>2 DEF WithinAttempts, Remembered, PrOf
  <2> QED BY <2>3, <2>7, <2>8 DEF AttemptInv
<1>9. ASSUME NEW x \in Executions, EndsIt(x) \/ LetGo(x) PROVE AttemptInv'
  <2>1. /\ UNCHANGED <<at, rule, fired, forgotten, counted>>
        /\ \A y \in running : y \in running' \union counted'
    BY <1>9 DEF EndsIt, LetGo
  <2> QED BY <1>a, <2>1 DEF Remembered, Fires
<1> QED BY <1>3, <1>4, <1>5, <1>6, <1>7, <1>8, <1>9, Effects

\* A rule fires no more than its attempts for a pull request, but for what a lost memory fired.
THEOREM AttemptsAreLimited == Spec => []WithinAttempts
<1>1. Init => AttemptInv
  <2> SUFFICES ASSUME Init PROVE AttemptInv
    OBVIOUS
  <2>1. fired = {} /\ \A h \in Presentations : at[h] = "waiting"
    BY DEF Init
  <2>2. \A t, pr : Of(fired \ forgotten, t, pr) = {}
    BY <2>1 DEF Of
  <2>3. WithinAttempts
    BY <2>2, FS_EmptySet DEF WithinAttempts
  <2> QED BY <2>1, <2>3 DEF AttemptInv, AttemptsKnown, RoomLeft, Remembered
<1>2. AttemptInv => WithinAttempts
  BY DEF AttemptInv
<1> QED BY <1>1, <1>2, FiringInit, TypesHold, TasksHold, QueueHolds, LiveHolds, AttemptsHold, PTL DEF Spec
=============================================================================
