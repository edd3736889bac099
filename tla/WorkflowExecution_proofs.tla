---------------------- MODULE WorkflowExecution_proofs ----------------------
(***************************************************************************)
(* The stream of an execution stays sound whatever the to-do list serves:  *)
(* the aggregate's guards alone keep closed phases closed and the end the  *)
(* end.  Nothing here looks into the list.                                 *)
(***************************************************************************)
EXTENDS WorkflowExecution, SequenceTheorems, TLAPS

\* What the aggregate remembers of the stream it wrote.
Remembers ==
  /\ stream \in Seq(Event)
  /\ running \in Phases \cup {None}
  /\ status = "running" => \A i \in DOMAIN stream : stream[i].kind # "ended"
  /\ \A i \in DOMAIN stream : stream[i].kind = "completed" => stream[i].phase \in completed
  /\ running \notin completed
  /\ completed \subseteq Phases

Sound == Remembers /\ ClosedStaysClosed

\* One event on an open stream, reopening nothing, leaves it closed.
LEMMA Appended ==
  ASSUME NEW s \in Seq(Event), NEW e \in Event, NEW done, Closed(s),
         \A i \in DOMAIN s : s[i].kind # "ended",
         \A i \in DOMAIN s : s[i].kind = "completed" => s[i].phase \in done,
         e.kind \in Reopening => e.phase \notin done
  PROVE  /\ s \o <<e>> \in Seq(Event)
         /\ Closed(s \o <<e>>)
<1>1. /\ Len(s \o <<e>>) = Len(s) + 1
      /\ \A i \in 1..Len(s) : (s \o <<e>>)[i] = s[i]
      /\ (s \o <<e>>)[Len(s) + 1] = e
      /\ s \o <<e>> \in Seq(Event)
  OBVIOUS
<1> DEFINE t == s \o <<e>>
<1>2. DOMAIN t = 1..(Len(s) + 1) /\ DOMAIN s = 1..Len(s) /\ Len(s) \in Nat
  BY <1>1
<1> HIDE DEF t
<1>3. ASSUME NEW i \in DOMAIN t, NEW j \in DOMAIN t, i < j
      PROVE  /\ t[i].kind # "ended"
             /\ t[i].kind = "completed" => ~(t[j].phase = t[i].phase /\ t[j].kind \in Reopening)
  <2>1. i \in DOMAIN s /\ t[i] = s[i]
    BY <1>1, <1>2, <1>3 DEF t
  <2>2. CASE j \in DOMAIN s
    <3>1. t[j] = s[j]
      BY <1>1, <1>2, <2>2 DEF t
    <3> QED BY <2>1, <2>2, <3>1, <1>3 DEF Closed
  <2>3. CASE j = Len(s) + 1
    <3>1. t[j] = e
      BY <1>1, <2>3 DEF t
    <3> QED BY <2>1, <3>1
  <2> QED BY <1>2, <2>2, <2>3
<1>4. Closed(t)
  BY <1>3 DEF Closed
<1> QED BY <1>1, <1>4 DEF t

LEMMA AppendedTwice ==
  ASSUME NEW s \in Seq(Event), NEW e \in Event, NEW f \in Event
  PROVE  s \o <<e, f>> = (s \o <<e>>) \o <<f>>
<1> DEFINE u == s \o <<e, f>>  v == (s \o <<e>>) \o <<f>>
<1>1. <<e, f>> \in Seq(Event) /\ Len(<<e, f>>) = 2 /\ <<e>> \in Seq(Event) /\ <<f>> \in Seq(Event)
  OBVIOUS
<1>2. u \in Seq(Event) /\ v \in Seq(Event) /\ s \o <<e>> \in Seq(Event)
  BY <1>1
<1>3. Len(u) = Len(s) + 2 /\ Len(s \o <<e>>) = Len(s) + 1 /\ Len(v) = Len(s) + 2 /\ Len(s) \in Nat
  BY <1>1, <1>2
<1>4. ASSUME NEW i \in 1..Len(u) PROVE u[i] = v[i]
  <2>1. CASE i \in 1..Len(s)
    BY <1>2, <1>3, <2>1
  <2>2. CASE i = Len(s) + 1
    BY <1>2, <1>3, <2>2
  <2>3. CASE i = Len(s) + 2
    BY <1>2, <1>3, <2>3
  <2> QED BY <1>3, <2>1, <2>2, <2>3
<1> HIDE DEF u, v
<1>5. u = v
  BY <1>2, <1>3, <1>4, SeqEqual
<1> QED BY <1>5 DEF u, v

LEMMA AtTheEnd ==
  ASSUME NEW s \in Seq(Event), NEW e \in Event, NEW i \in DOMAIN (s \o <<e>>)
  PROVE  (i \in DOMAIN s /\ (s \o <<e>>)[i] = s[i]) \/ (s \o <<e>>)[i] = e
OBVIOUS

\* One event recorded while the run is open keeps the stream sound, if the
\* aggregate remembers it.
LEMMA Recorded ==
  ASSUME Sound, status = "running", NEW e \in Event, Record(<<e>>),
         e.kind \in Reopening => e.phase \notin completed,
         e.kind = "ended" => status' # "running",
         completed \subseteq completed', completed' \subseteq Phases,
         e.kind = "completed" => e.phase \in completed',
         running' \in Phases \cup {None}, running' \notin completed'
  PROVE  Sound'
<1>1. stream' = stream \o <<e>> /\ stream \in Seq(Event)
  BY DEF Record, Sound, Remembers
<1>2. stream' \in Seq(Event) /\ ClosedStaysClosed'
  BY Appended, <1>1 DEF Sound, Remembers, ClosedStaysClosed
<1>3. ASSUME NEW i \in DOMAIN stream'
      PROVE  /\ status' = "running" => stream'[i].kind # "ended"
             /\ stream'[i].kind = "completed" => stream'[i].phase \in completed'
  <2>1. (i \in DOMAIN stream /\ stream'[i] = stream[i]) \/ stream'[i] = e
    BY AtTheEnd, <1>1, <1>3
  <2> QED BY <2>1 DEF Sound, Remembers
<1> QED BY <1>2, <1>3 DEF Sound, Remembers

LEMMA AnEvent ==
  ASSUME NEW kind \in Kinds, NEW p \in Phases
  PROVE  /\ Said(kind, p) \in Event
         /\ Said(kind, p).kind = kind /\ Said(kind, p).phase = p
BY DEF Said, Event

LEMMA SoundInitially == RunInit => Sound
<1> SUFFICES ASSUME RunInit PROVE Sound
  OBVIOUS
<1>1. PICK at \in Phases : stream = <<Said("started", at)>> /\ completed \subseteq 1..(at - 1)
  BY DEF RunInit
<1>2. running = None /\ running \notin Phases
  BY WorkflowAssumption DEF RunInit
<1>3. Said("started", at) \in Event /\ Said("started", at).kind = "started"
  BY AnEvent DEF Kinds
<1>4. completed \subseteq Phases
  BY <1>1, WorkflowAssumption DEF Phases
<1>5. Len(stream) = 1 /\ stream[1].kind = "started" /\ DOMAIN stream = {1} /\ stream \in Seq(Event)
  BY <1>1, <1>3
<1> QED BY <1>2, <1>4, <1>5 DEF Sound, Remembers, ClosedStaysClosed, Closed

\* A collection records one more event with it, on the same terms.
LEMMA RecordedTwice ==
  ASSUME Sound, status = "running", NEW e \in Event, NEW f \in Event, Record(<<e, f>>),
         e.kind \notin Reopening \cup {"ended"}, f.kind \notin Reopening,
         f.kind = "ended" => status' # "running",
         completed' = completed, running' = running
  PROVE  Sound'
<1> DEFINE s == stream \o <<e>>
<1>1. stream' = s \o <<f>> /\ stream \in Seq(Event)
  BY AppendedTwice DEF Record, Sound, Remembers
<1>2. s \in Seq(Event) /\ Closed(s)
  BY Appended DEF Sound, Remembers, ClosedStaysClosed
<1>3. ASSUME NEW i \in DOMAIN s
      PROVE  s[i].kind # "ended" /\ (s[i].kind = "completed" => s[i].phase \in completed)
  <2>1. (i \in DOMAIN stream /\ s[i] = stream[i]) \/ s[i] = e
    BY AtTheEnd, <1>1, <1>3
  <2> QED BY <2>1 DEF Sound, Remembers, Reopening
<1> HIDE DEF s
<1>4. stream' \in Seq(Event) /\ ClosedStaysClosed'
  BY Appended, <1>1, <1>2, <1>3 DEF ClosedStaysClosed
<1>5. ASSUME NEW i \in DOMAIN stream'
      PROVE  /\ status' = "running" => stream'[i].kind # "ended"
             /\ stream'[i].kind = "completed" => stream'[i].phase \in completed'
  <2>1. (i \in DOMAIN s /\ stream'[i] = s[i]) \/ stream'[i] = f
    BY AtTheEnd, <1>1, <1>2, <1>5
  <2> QED BY <1>3, <2>1 DEF Reopening
<1> QED BY <1>4, <1>5 DEF Sound, Remembers

\* What the aggregate keeps is all the property is about.
LEMMA Untouched ==
  ASSUME Sound, UNCHANGED <<stream, status, completed>>,
         running' \in Phases \cup {None}, running' \notin completed
  PROVE  Sound'
BY DEF Sound, Remembers, ClosedStaysClosed

\* The end, however it comes.
LEMMA Ended ==
  ASSUME Sound, NEW p \in Phases, status = "running", Record(<<Said("ended", p)>>),
         status' # "running", completed' = completed,
         running' \in Phases \cup {None}, running' \notin completed
  PROVE  Sound'
<1>1. Said("ended", p) \in Event /\ Said("ended", p).kind = "ended"
  BY AnEvent DEF Kinds
<1>2. completed' \subseteq Phases /\ Said("ended", p).kind \notin Reopening
  BY <1>1 DEF Sound, Remembers, Reopening
<1> QED BY <1>1, <1>2, Recorded

LEMMA HandlersKeep ==
  ASSUME Sound, NEW p \in Phases, Handle(p)
  PROVE  Sound'
<1> USE DEF Kinds, Reopening
<1>0. /\ running \in Phases \cup {None} /\ running \notin completed
      /\ completed \subseteq Phases /\ None \notin Phases
  BY WorkflowAssumption DEF Sound, Remembers
<1>1. CASE Provision(p)
  <2>1. /\ Record(<<Said("provisioned", p)>>) /\ status = "running" /\ p \notin completed
        /\ running' = p /\ completed' = completed
    BY <1>1 DEF Provision
  <2> QED BY <1>0, <2>1, AnEvent, Recorded
<1>2. CASE Finish(p)
  <2>1. /\ Record(<<Said("agentCompleted", p)>>) /\ status = "running"
        /\ running' = running /\ completed' = completed
    BY <1>2 DEF Finish
  <2> QED BY <1>0, <2>1, AnEvent, Recorded
<1>3. CASE Retry(p)
  <2>1. /\ Record(<<Said("retry", p)>>) /\ status = "running" /\ running = p
        /\ running' = None /\ completed' = completed
    BY <1>3 DEF Retry
  <2> QED BY <1>0, <2>1, AnEvent, Recorded
<1>4. CASE Cancel(p)
  <2>1. /\ Record(<<Said("ended", p)>>) /\ status = "running" /\ status' # "running"
        /\ running' = running /\ completed' = completed
    BY <1>4 DEF Cancel
  <2> QED BY <1>0, <2>1, Ended
<1>5. CASE Collect(p)
  <2>0. status = "running" /\ running' = running /\ completed' = completed
    BY <1>5 DEF Collect
  <2>1. CASE Record(<<Said("collected", p), Said("ended", p)>>) /\ status' = "failed"
    BY <2>0, <2>1, AnEvent, RecordedTwice
  <2>2. CASE p # Final /\ \E q \in After(p) : Record(<<Said("collected", p), Said("nextReady", q)>>)
    <3>1. PICK q \in After(p) : Record(<<Said("collected", p), Said("nextReady", q)>>)
      BY <2>2
    <3>2. q \in Phases
      BY <2>2, WorkflowAssumption DEF After, Phases
    <3>3. /\ Said("collected", p) \in Event /\ Said("collected", p).kind = "collected"
          /\ Said("nextReady", q) \in Event /\ Said("nextReady", q).kind = "nextReady"
      BY <3>2, AnEvent
    <3> QED BY <2>0, <3>1, <3>3, RecordedTwice
  <2>3. CASE Record(<<Said("collected", p)>>)
    BY <1>0, <2>0, <2>3, AnEvent, Recorded
  <2> QED BY <1>5, <2>1, <2>2, <2>3 DEF Collect
<1>6. CASE PassOver(p)
  BY <1>0, <1>6, Untouched DEF PassOver, aggregate
<1>7. CASE Complete(p)
  <2>1. /\ Record(<<Said("completed", p)>>) /\ status = "running" /\ p \notin completed
        /\ running' = None /\ completed' = completed \cup {p}
    BY <1>7 DEF Complete
  <2>2. completed' \subseteq Phases /\ None \notin completed'
    BY <1>0, <2>1
  <2> QED BY <1>0, <2>1, <2>2, AnEvent, Recorded
<1>8. CASE Fail(p)
  <2>1. completed' = completed /\ running' \in {running, p} /\ (running' = p => running' = running \/ p \notin completed)
    BY <1>8 DEF Fail
  <2>2. running' \in Phases \cup {None} /\ running' \notin completed
    BY <1>0, <2>1
  <2>3. CASE status = "running"
    <3>1. Record(<<Said("ended", p)>>) /\ status' = "failed"
      BY <1>8, <2>3 DEF Fail
    <3> QED BY <2>1, <2>2, <2>3, <3>1, Ended
  <2>4. CASE status # "running"
    <3>1. UNCHANGED <<stream, status>>
      BY <1>8, <2>4 DEF Fail
    <3> QED BY <2>1, <2>2, <3>1, Untouched
  <2> QED BY <2>3, <2>4
<1>9. CASE Finalize(p)
  BY <1>0, <1>9, Untouched DEF Finalize, aggregate
<1> QED BY <1>1, <1>2, <1>3, <1>4, <1>5, <1>6, <1>7, <1>8, <1>9 DEF Handle

LEMMA SoundStep == Sound /\ [RunNext]_runVars => Sound'
<1> SUFFICES ASSUME Sound, [RunNext]_runVars PROVE Sound'
  OBVIOUS
<1>0. /\ running \in Phases \cup {None} /\ running \notin completed
      /\ Final \in Phases
  BY WorkflowAssumption DEF Sound, Remembers, Phases
<1>1. CASE Sync \/ Deliver \/ Read
  BY <1>0, <1>1, Untouched DEF Sync, Deliver, Read, aggregate
<1>2. CASE Conclude \/ ShutDown
  <2>1. completed' = completed /\ running' = running
    BY <1>2 DEF Conclude, ShutDown
  <2>2. CASE status = "running" /\ Record(<<Said("ended", Final)>>) /\ status' # "running"
    BY <1>0, <2>1, <2>2, Ended
  <2>3. CASE UNCHANGED <<stream, status>>
    BY <1>0, <2>1, <2>3, Untouched
  <2> QED BY <1>2, <2>2, <2>3 DEF Conclude, ShutDown
<1>3. CASE \E p \in Phases : Handle(p)
  BY <1>3, HandlersKeep
<1>4. CASE UNCHANGED runVars
  BY <1>0, <1>4, Untouched DEF runVars, moving, aggregate
<1> QED BY <1>1, <1>2, <1>3, <1>4 DEF RunNext, Step

\* Nothing is recorded after the end of an execution and no completed phase is
\* started, retried or completed again, for any workflow, whatever the to-do
\* list serves and however late the subscription writes it.
THEOREM ClosedForGood == RunSpec => []ClosedStaysClosed
<1>1. Sound => ClosedStaysClosed
  BY DEF Sound
<1> QED BY <1>1, SoundInitially, SoundStep, PTL DEF RunSpec
=============================================================================
