------------------------ MODULE WorkflowList_proofs -------------------------
(***************************************************************************)
(* The to-do list on its own: what each projection makes of a list that    *)
(* serves one item, or one item and then the start of the next phase.      *)
(* Items are looked up by place, so nothing here is about sequences.       *)
(***************************************************************************)
EXTENDS WorkflowExecution, WellFoundedInduction, TLAPS

IsList(l) ==
  /\ DOMAIN l.items \subseteq Nat \ {0}
  /\ l \in [items : [DOMAIN l.items -> Item], progress : [Phases -> 0..4 \cup {Done}]]
  /\ \E k \in Nat : \A n \in DOMAIN l.items : n <= k

LEMMA LastPlaceIs ==
  ASSUME NEW l, IsList(l)
  PROVE  LastPlace(l.items) \in Nat /\ \A n \in DOMAIN l.items : n <= LastPlace(l.items)
<1> DEFINE D == DOMAIN l.items  T == {k \in Nat : \A n \in D : n <= k}
<1>1. D \subseteq Nat \ {0} /\ T \subseteq Nat /\ T # {}
  BY DEF IsList
<1>2. PICK k \in T : \A j \in T : <<j, k>> \notin OpToRel(<, Nat)
  <2> HIDE DEF T
  <2> QED BY <1>1, NatLessThanWellFounded, WFMin
<1>3. k \in Nat /\ \A n \in D : n <= k
  BY <1>2
<1>4. k \in {0} \cup D
  <2> SUFFICES ASSUME k # 0, k \notin D PROVE FALSE
    OBVIOUS
  <2>1. k - 1 \in Nat /\ \A n \in D : n <= k - 1
    BY <1>1, <1>3
  <2>2. k - 1 \in T /\ k - 1 < k
    BY <1>3, <2>1
  <2> QED BY <1>2, <1>3, <2>1, <2>2 DEF OpToRel
<1>5. \E n \in {0} \cup D : \A m \in D : m <= n
  BY <1>3, <1>4
<1>6. LastPlace(l.items) \in {0} \cup D /\ \A m \in D : m <= LastPlace(l.items)
  BY <1>5 DEF LastPlace
<1> QED BY <1>1, <1>6

LEMMA BehindIs ==
  ASSUME NEW l, IsList(l), NEW x \in Item
  PROVE  LET new == LastPlace(l.items) + 1  items == Behind(l.items, x)
         IN /\ new \in Nat \ {0} /\ \A n \in DOMAIN l.items : n < new
            /\ DOMAIN items = DOMAIN l.items \cup {new}
            /\ items[new] = x /\ \A n \in DOMAIN l.items : items[n] = l.items[n]
            /\ items \in [DOMAIN items -> Item]
<1> DEFINE new == LastPlace(l.items) + 1
<1>1. new \in Nat \ {0} /\ \A n \in DOMAIN l.items : n < new
  BY LastPlaceIs DEF IsList
<1>2. l.items \in [DOMAIN l.items -> Item]
  BY DEF IsList
<1> HIDE DEF new
<1>3. Behind(l.items, x) = [n \in DOMAIN l.items \cup {new} |->
                              IF n \in DOMAIN l.items THEN l.items[n] ELSE x]
  BY DEF Behind, new
<1>4. new \notin DOMAIN l.items
  BY <1>1
<1> QED BY <1>1, <1>2, <1>3, <1>4 DEF new

LEMMA WithoutIs ==
  ASSUME NEW l, IsList(l), NEW gone
  PROVE  LET items == Without(l.items, gone)
         IN /\ DOMAIN items \subseteq DOMAIN l.items
            /\ \A n \in DOMAIN l.items : n \in DOMAIN items <=> l.items[n] \notin gone
            /\ \A n \in DOMAIN items : items[n] = l.items[n]
            /\ items \in [DOMAIN items -> Item]
<1>1. l.items \in [DOMAIN l.items -> Item]
  BY DEF IsList
<1> QED BY <1>1 DEF Without

LEMMA Marks ==
  ASSUME NEW l, IsList(l), NEW p \in Phases, NEW rank \in 0..4 \cup {Done}
  PROVE  /\ Raised(l, p, rank) \in [Phases -> 0..4 \cup {Done}]
         /\ \A x \in Phases \ {p} : Raised(l, p, rank)[x] = l.progress[x]
         /\ Raised(l, p, rank)[p] = IF l.progress[p] >= rank THEN l.progress[p] ELSE rank
BY DEF Raised, IsList

LEMMA ItemsAre ==
  ASSUME NEW action \in Actions, NEW p \in Phases
  PROVE  /\ Todo(action, p) \in Item
         /\ Todo(action, p).action = action /\ Todo(action, p).phase = p
         /\ Rank[action] \in 1..4
BY DEF Todo, Item, Actions, Rank

LEMMA OneItem ==
  ASSUME NEW x \in Item
  PROVE  DOMAIN <<x>> = {1} /\ <<x>>[1] = x /\ <<x>> \in [{1} -> Item]
OBVIOUS

LEMMA AdvanceIsList ==
  ASSUME NEW l, IsList(l), NEW action \in Actions, NEW p \in Phases
  PROVE  IsList(AdvanceTodo(l, Todo(action, p)))
<1>1. CASE l.progress[p] >= Rank[action]
  BY <1>1, ItemsAre DEF AdvanceTodo
<1>2. CASE ~(l.progress[p] >= Rank[action])
  <2>1. AdvanceTodo(l, Todo(action, p)) =
          [items |-> <<Todo(action, p)>>, progress |-> Raised(l, p, Rank[action])]
    BY <1>2, ItemsAre DEF AdvanceTodo
  <2>2. Rank[action] \in 0..4 \cup {Done} /\ Todo(action, p) \in Item
    BY ItemsAre
  <2>3. Raised(l, p, Rank[action]) \in [Phases -> 0..4 \cup {Done}]
    BY <2>2, Marks
  <2> QED BY <2>1, <2>2, <2>3, OneItem DEF IsList
<1> QED BY <1>1, <1>2

LEMMA StartIsList ==
  ASSUME NEW l, IsList(l), NEW at \in Phases, NEW inherited
  PROVE  IsList(StartTodo(l, at, inherited))
<1>1. CASE l.progress[at] >= Rank["provision"]
  BY <1>1 DEF StartTodo
<1>2. CASE ~(l.progress[at] >= Rank["provision"])
  <2> DEFINE marks == [p \in Phases |-> IF p \in inherited THEN Done
                                        ELSE IF p = at THEN 1 ELSE l.progress[p]]
  <2>1. StartTodo(l, at, inherited) =
          [items |-> <<Todo("provision", at)>>, progress |-> marks]
    BY <1>2 DEF StartTodo
  <2>2. marks \in [Phases -> 0..4 \cup {Done}]
    BY DEF IsList
  <2>3. Todo("provision", at) \in Item
    BY DEF Todo, Item, Actions
  <2> HIDE DEF marks
  <2> QED BY <2>1, <2>2, <2>3, OneItem DEF IsList
<1> QED BY <1>1, <1>2

LEMMA AppendedIsList ==
  ASSUME NEW l, IsList(l), NEW x \in Item, NEW marks \in [Phases -> 0..4 \cup {Done}]
  PROVE  IsList([items |-> Behind(l.items, x), progress |-> marks])
<1> DEFINE new == LastPlace(l.items) + 1  items == Behind(l.items, x)
<1>1. /\ new \in Nat \ {0} /\ \A n \in DOMAIN l.items : n < new
      /\ DOMAIN items = DOMAIN l.items \cup {new}
      /\ items \in [DOMAIN items -> Item]
  BY BehindIs
<1>2. DOMAIN l.items \subseteq Nat \ {0}
  BY DEF IsList
<1> HIDE DEF new, items
<1>3. DOMAIN items \subseteq Nat \ {0} /\ \A n \in DOMAIN items : n <= new
  BY <1>1, <1>2
<1>4. IsList([items |-> items, progress |-> marks])
  BY <1>1, <1>3 DEF IsList
<1> QED BY <1>4 DEF items

LEMMA ShortenedIsList ==
  ASSUME NEW l, IsList(l), NEW gone, NEW marks \in [Phases -> 0..4 \cup {Done}]
  PROVE  IsList([items |-> Without(l.items, gone), progress |-> marks])
<1> DEFINE items == Without(l.items, gone)
<1>1. /\ DOMAIN items \subseteq DOMAIN l.items
      /\ items \in [DOMAIN items -> Item]
  BY WithoutIs
<1>2. /\ DOMAIN l.items \subseteq Nat \ {0}
      /\ \E k \in Nat : \A n \in DOMAIN l.items : n <= k
  BY DEF IsList
<1> HIDE DEF items
<1>3. IsList([items |-> items, progress |-> marks])
  BY <1>1, <1>2 DEF IsList
<1> QED BY <1>3 DEF items

LEMMA EmptyIsList == IsList(NoList)
<1>1. DOMAIN <<>> = {} /\ <<>> \in [{} -> Item]
  OBVIOUS
<1>2. NoList.items = <<>> /\ NoList.progress \in [Phases -> 0..4 \cup {Done}]
  BY DEF NoList
<1>3. NoList = [items |-> <<>>, progress |-> NoList.progress]
  BY DEF NoList
<1> QED BY <1>1, <1>2, <1>3 DEF IsList

\* Each kind of event has its handler.
LEMMA Projections ==
  ASSUME NEW l, NEW e \in Event, NEW inherited
  PROVE  LET new == Project(l, e, inherited)
         IN /\ e.kind = "started" => new = StartTodo(l, e.phase, inherited)
            /\ e.kind = "provisioned" => new = AdvanceTodo(l, Todo("run", e.phase))
            /\ e.kind = "agentCompleted" => new = AdvanceTodo(l, Todo("collect", e.phase))
            /\ e.kind = "collected" => new = AdvanceTodo(l, Todo("complete", e.phase))
            /\ e.kind = "nextReady" => new = NextTodo(l, e.phase)
            /\ e.kind = "completed" => new = CompleteTodo(l, e.phase)
            /\ e.kind = "retry" => new = RetryTodo(l, e.phase)
            /\ e.kind = "ended" => new = NoList
BY DEF Project, ClearTodo

\* Whatever is projected, in whatever order, the list stays a list.
LEMMA ProjectedIsList ==
  ASSUME NEW l, IsList(l), NEW e \in Event, NEW inherited
  PROVE  IsList(Project(l, e, inherited))
<1> DEFINE p == e.phase
<1>1. p \in Phases /\ e.kind \in Kinds
  BY DEF Event
<1>2. Todo("provision", p) \in Item
  BY <1>1, ItemsAre DEF Actions
<1>3. CASE e.kind = "started"
  BY <1>1, <1>3, Projections, StartIsList
<1>4. CASE e.kind \in {"provisioned", "agentCompleted", "collected"}
  BY <1>1, <1>4, Projections, AdvanceIsList DEF Actions
<1>5. CASE e.kind = "nextReady"
  <2>1. Raised(l, p, Rank["provision"]) \in [Phases -> 0..4 \cup {Done}]
    BY <1>1, Marks DEF Rank
  <2> QED BY <1>2, <1>5, <2>1, Projections, AppendedIsList DEF NextTodo
<1>6. CASE e.kind = "completed"
  <2>1. Raised(l, p, Done) \in [Phases -> 0..4 \cup {Done}]
    BY <1>1, Marks
  <2> QED BY <1>6, <2>1, Projections, ShortenedIsList DEF CompleteTodo
<1>7. CASE e.kind = "retry"
  <2> DEFINE marks == [l.progress EXCEPT ![p] = Rank["provision"]]
             left  == [items |-> Without(l.items, [action : Actions, phase : {p}]), progress |-> marks]
  <2>0. l.progress \in [Phases -> 0..4 \cup {Done}] /\ Rank["provision"] \in 0..4
    BY DEF Rank, IsList
  <2>1. marks \in [Phases -> 0..4 \cup {Done}]
    BY <2>0
  <2>2. IsList(left) /\ left.items = Without(l.items, [action : Actions, phase : {p}])
    BY <2>1, ShortenedIsList
  <2>3. RetryTodo(l, p) = [items |-> Behind(left.items, Todo("provision", p)), progress |-> marks]
    BY <2>2 DEF RetryTodo
  <2> HIDE DEF marks, left
  <2>4. IsList(RetryTodo(l, p))
    BY <1>2, <2>1, <2>2, <2>3, AppendedIsList
  <2> QED BY <1>7, <2>4, Projections
<1>8. CASE e.kind = "ended"
  BY <1>8, Projections, EmptyIsList
<1> QED BY <1>1, <1>3, <1>4, <1>5, <1>6, <1>7, <1>8 DEF Kinds

-----------------------------------------------------------------------------
(* What a list serves *)

\* The list serves `act` about c first, and then the start of q.
ListAt(l, c, act, q) ==
  /\ l.progress[c] = Rank[act]
  /\ \A p \in Phases : p < c => l.progress[p] \in {0, Done}
  /\ \A p \in Phases : p > c /\ p # q => l.progress[p] = 0
  /\ q \in Phases => l.progress[q] = 1
  /\ \A n \in Pending(l) :
       l.items[n] = Todo(act, c) \/ (q \in Phases /\ l.items[n] = Todo("provision", q))
  /\ \E n \in DOMAIN l.items :
       /\ l.items[n] = Todo(act, c)
       /\ q \in Phases => \A m \in Pending(l) : l.items[m] = Todo("provision", q) => n < m
  /\ q \in Phases => \E n \in DOMAIN l.items : l.items[n] = Todo("provision", q)

\* Nothing is left to be done.
ListRests(l) == Pending(l) = {} /\ \A p \in Phases : l.progress[p] \in {0, Done}

\* The mark an event leaves on its phase.
RankOf == [started |-> 1, nextReady |-> 1, retry |-> 1, provisioned |-> 2,
           agentCompleted |-> 3, collected |-> 4, completed |-> Done, ended |-> 0]

LEMMA Numbers ==
  /\ Rank["provision"] = 1 /\ Rank["run"] = 2 /\ Rank["collect"] = 3 /\ Rank["complete"] = 4
  /\ \A a \in Actions : Rank[a] \in 1..4
  /\ \A p \in Phases : p \in Nat /\ p # None
BY WorkflowAssumption DEF Rank, Actions, Phases

LEMMA PendingIs ==
  ASSUME NEW l, IsList(l), NEW n
  PROVE  /\ n \in Pending(l) <=>
              n \in DOMAIN l.items /\ l.progress[l.items[n].phase] <= Rank[l.items[n].action]
         /\ n \in DOMAIN l.items => /\ n \in Nat /\ l.items[n] \in Item
                                    /\ l.items[n].phase \in Phases /\ l.items[n].action \in Actions
         /\ \A p \in Phases : l.progress[p] \in 0..4 \cup {Done}
BY DEF Pending, IsList, Item

\* A list of one item that is marked as the one to serve.
LEMMA ServesOne ==
  ASSUME NEW l, NEW act \in Actions, NEW c \in Phases, IsList(l),
         l.items = <<Todo(act, c)>>, l.progress[c] = Rank[act],
         \A p \in Phases : p < c => l.progress[p] \in {0, Done},
         \A p \in Phases : p > c => l.progress[p] = 0
  PROVE  ListAt(l, c, act, None)
<1>1. DOMAIN l.items = {1} /\ l.items[1] = Todo(act, c)
  BY OneItem, ItemsAre
<1>2. \A n \in Pending(l) : l.items[n] = Todo(act, c)
  BY <1>1, PendingIs
<1>3. None \notin Phases
  BY WorkflowAssumption
<1>4. \E n \in DOMAIN l.items : l.items[n] = Todo(act, c)
  BY <1>1
<1> QED BY <1>2, <1>3, <1>4 DEF ListAt

LEMMA StartServes ==
  ASSUME NEW at \in Phases, NEW inherited, \A p \in inherited : p \in Phases /\ p < at
  PROVE  ListAt(StartTodo(NoList, at, inherited), at, "provision", None)
<1> DEFINE new == StartTodo(NoList, at, inherited)
<1>1. new = [items |-> <<Todo("provision", at)>>,
             progress |-> [p \in Phases |-> IF p \in inherited THEN Done
                                             ELSE IF p = at THEN 1 ELSE NoList.progress[p]]]
  BY Numbers DEF StartTodo, NoList
<1>2. IsList(new)
  BY EmptyIsList, StartIsList
<1>3. ASSUME NEW p \in Phases
      PROVE  /\ p \in inherited => new.progress[p] = Done
             /\ p = at /\ p \notin inherited => new.progress[p] = 1
             /\ p # at /\ p \notin inherited => new.progress[p] = 0
  BY <1>1 DEF NoList
<1>4. at \notin inherited /\ \A p \in Phases : p > at => p \notin inherited /\ p # at
  BY Numbers
<1>5. new.items = <<Todo("provision", at)>>
  BY <1>1
<1> HIDE DEF new
<1>6. /\ new.progress[at] = Rank["provision"] /\ "provision" \in Actions
      /\ \A p \in Phases : p < at => new.progress[p] \in {0, Done}
      /\ \A p \in Phases : p > at => new.progress[p] = 0
  <2>1. \A p \in Phases : p < at => p # at
    BY Numbers
  <2>2. \A p \in Phases : p < at => new.progress[p] \in {0, Done}
    BY <1>3, <2>1
  <2>3. \A p \in Phases : p > at => new.progress[p] = 0
    BY <1>3, <1>4
  <2>4. new.progress[at] = Rank["provision"] /\ "provision" \in Actions
    BY <1>3, <1>4, Numbers DEF Actions
  <2> QED BY <2>2, <2>3, <2>4
<1>7. ListAt(new, at, "provision", None)
  BY <1>2, <1>5, <1>6, ServesOne
<1> QED BY <1>7 DEF new

\* The next thing to be done about the same phase replaces the list.
LEMMA AdvanceServes ==
  ASSUME NEW l, IsList(l), NEW c \in Phases, NEW a \in Actions, NEW b \in Actions,
         Rank[a] < Rank[b], ListAt(l, c, a, None)
  PROVE  ListAt(AdvanceTodo(l, Todo(b, c)), c, b, None)
<1> DEFINE new == AdvanceTodo(l, Todo(b, c))
<1>0. /\ Rank[a] \in 1..4 /\ Rank[b] \in 1..4 /\ l.progress[c] = Rank[a]
      /\ ~(l.progress[c] >= Rank[b]) /\ Todo(b, c) \in Item /\ Rank[b] \in 0..4 \cup {Done}
  BY Numbers, ItemsAre DEF ListAt
<1>1. new = [items |-> <<Todo(b, c)>>, progress |-> Raised(l, c, Rank[b])]
  BY <1>0, ItemsAre DEF AdvanceTodo
<1>2. IsList(new)
  BY AdvanceIsList
<1>3. /\ new.items = <<Todo(b, c)>>
      /\ new.progress[c] = Rank[b]
      /\ \A x \in Phases \ {c} : new.progress[x] = l.progress[x]
  BY <1>0, <1>1, Marks
<1> HIDE DEF new
<1>4. /\ \A p \in Phases : p < c => new.progress[p] \in {0, Done}
      /\ \A p \in Phases : p > c => new.progress[p] = 0
  BY <1>3, Numbers DEF ListAt
<1>5. ListAt(new, c, b, None)
  BY <1>2, <1>3, <1>4, ServesOne
<1> QED BY <1>5 DEF new

\* The next phase's start is served once what is in hand is done.
LEMMA NextServes ==
  ASSUME NEW l, IsList(l), NEW c \in Phases, NEW q \in Phases, c < q,
         ListAt(l, c, "complete", None)
  PROVE  ListAt(NextTodo(l, q), c, "complete", q)
<1> DEFINE at == LastPlace(l.items) + 1  new == NextTodo(l, q)
<1>1. Todo("provision", q) \in Item /\ Todo("provision", q).phase = q
      /\ Todo("provision", q).action = "provision" /\ Todo("complete", c).phase = c
  BY ItemsAre DEF Actions
<1>2. /\ at \in Nat \ {0} /\ \A n \in DOMAIN l.items : n < at
      /\ DOMAIN new.items = DOMAIN l.items \cup {at}
      /\ new.items[at] = Todo("provision", q) /\ \A n \in DOMAIN l.items : new.items[n] = l.items[n]
  BY <1>1, BehindIs DEF NextTodo
<1>3. /\ l.progress[q] = 0 /\ q # c /\ q # None /\ c \in Nat /\ q \in Nat
      /\ l.progress[c] = 4
  BY Numbers DEF ListAt
<1>4. new.progress = Raised(l, q, 1)
  BY Numbers DEF NextTodo
<1>5. new.progress[q] = 1 /\ \A x \in Phases \ {q} : new.progress[x] = l.progress[x]
  <2>1. 1 \in 0..4 \cup {Done}
    OBVIOUS
  <2> QED BY <1>3, <1>4, <2>1, Marks
<1>6. \A n \in DOMAIN l.items : l.items[n].phase # q
  <2> SUFFICES ASSUME NEW n \in DOMAIN l.items, l.items[n].phase = q PROVE FALSE
    OBVIOUS
  <2>1. n \in Pending(l)
    BY <1>3, PendingIs, Numbers
  <2>2. l.items[n] = Todo("complete", c)
    BY <2>1, Numbers, WorkflowAssumption DEF ListAt
  <2> QED BY <1>1, <1>3, <2>2
<1>7. IsList(new)
  <2>1. \A e : e = Said("nextReady", q) => e \in Event /\ e.kind = "nextReady" /\ e.phase = q
    BY DEF Said, Event, Kinds
  <2> QED BY <2>1, ProjectedIsList, Projections
<1> HIDE DEF new, at
<1>8. ASSUME NEW n \in Pending(new)
      PROVE  \/ n \in DOMAIN l.items /\ new.items[n] = Todo("complete", c)
             \/ n = at
  <2>1. CASE n \in DOMAIN l.items
    <3>1. n \in Pending(l)
      BY <1>2, <1>5, <1>6, <1>7, <2>1, PendingIs
    <3> QED BY <1>2, <2>1, <3>1, WorkflowAssumption DEF ListAt
  <2> QED BY <1>2, <1>7, <1>8, <2>1, PendingIs
<1>9. PICK n \in DOMAIN l.items : l.items[n] = Todo("complete", c)
  BY DEF ListAt
<1>10. \A m \in Pending(new) : new.items[m] = Todo("provision", q) => n < m
  BY <1>1, <1>2, <1>3, <1>8
<1>11. /\ new.progress[c] = Rank["complete"]
       /\ \A p \in Phases : p < c => new.progress[p] \in {0, Done}
       /\ \A p \in Phases : p > c /\ p # q => new.progress[p] = 0
  <2>1. \A p \in Phases : p < c => p # q
    BY <1>3, Numbers
  <2> QED BY <1>3, <1>5, <2>1, Numbers DEF ListAt
<1>12. ListAt(new, c, "complete", q)
  BY <1>2, <1>5, <1>8, <1>9, <1>10, <1>11 DEF ListAt
<1> QED BY <1>12 DEF new

LEMMA CompletedMarks ==
  ASSUME NEW l, IsList(l), NEW c \in Phases, l.progress[c] \in {4, Done}
  PROVE  LET new == CompleteTodo(l, c)
         IN /\ IsList(new) /\ new.progress[c] = Done
            /\ \A x \in Phases \ {c} : new.progress[x] = l.progress[x]
            /\ DOMAIN new.items \subseteq DOMAIN l.items
            /\ \A n \in DOMAIN new.items : new.items[n] = l.items[n]
            /\ \A n \in DOMAIN l.items : l.items[n] # Todo("complete", c) => n \in DOMAIN new.items
            /\ \A n \in Pending(new) : n \in Pending(l) \/ l.items[n].phase = c
            /\ \A n \in Pending(new) : new.items[n].phase # c
<1> DEFINE new == CompleteTodo(l, c)
<1>1. IsList(new)
  <2>1. \A e : e = Said("completed", c) => e \in Event /\ e.kind = "completed" /\ e.phase = c
    BY DEF Said, Event, Kinds
  <2> QED BY <2>1, ProjectedIsList, Projections
<1>2. new.progress = Raised(l, c, Done) /\ new.items = Without(l.items, {Todo("complete", c)})
  BY DEF CompleteTodo
<1>3. Done \in 0..4 \cup {Done} /\ 4 < Done /\ Done = 99
  BY DEF Done
<1>4. new.progress[c] = Done /\ \A x \in Phases \ {c} : new.progress[x] = l.progress[x]
  BY <1>2, <1>3, Marks
<1>5. /\ DOMAIN new.items \subseteq DOMAIN l.items
      /\ \A n \in DOMAIN new.items : new.items[n] = l.items[n]
      /\ \A n \in DOMAIN l.items : l.items[n] # Todo("complete", c) => n \in DOMAIN new.items
  <2> HIDE DEF new
  <2> DEFINE gone == {Todo("complete", c)}  items == Without(l.items, gone)
  <2>1. /\ DOMAIN items \subseteq DOMAIN l.items
        /\ \A n \in DOMAIN l.items : n \in DOMAIN items <=> l.items[n] \notin gone
        /\ \A n \in DOMAIN items : items[n] = l.items[n]
    BY WithoutIs
  <2> QED BY <1>2, <2>1
<1> HIDE DEF new
<1>6. \A n \in Pending(new) : n \in Pending(l) \/ l.items[n].phase = c
  BY <1>1, <1>4, <1>5, PendingIs
<1>7. \A n \in Pending(new) : new.items[n].phase # c
  <2> SUFFICES ASSUME NEW n \in Pending(new), new.items[n].phase = c PROVE FALSE
    OBVIOUS
  <2>1. new.progress[c] <= Rank[new.items[n].action] /\ new.items[n].action \in Actions
    BY <1>1, PendingIs
  <2> QED BY <1>3, <1>4, <2>1, Numbers
<1> QED BY <1>1, <1>4, <1>5, <1>6, <1>7 DEF new

\* A completed phase hands over to the next one.
LEMMA CompleteServes ==
  ASSUME NEW l, IsList(l), NEW c \in Phases, NEW q \in Phases, c < q,
         ListAt(l, c, "complete", q)
  PROVE  ListAt(CompleteTodo(l, c), q, "provision", None)
<1> DEFINE new == CompleteTodo(l, c)
<1>1. /\ l.progress[c] = 4 /\ l.progress[q] = 1 /\ c # q /\ c \in Nat /\ q \in Nat
      /\ Todo("complete", c) # Todo("provision", q) /\ Todo("complete", c).phase = c
  BY Numbers, ItemsAre DEF ListAt, Actions
<1>2. /\ IsList(new) /\ new.progress[c] = Done
      /\ \A x \in Phases \ {c} : new.progress[x] = l.progress[x]
      /\ DOMAIN new.items \subseteq DOMAIN l.items
      /\ \A n \in DOMAIN new.items : new.items[n] = l.items[n]
      /\ \A n \in DOMAIN l.items : l.items[n] # Todo("complete", c) => n \in DOMAIN new.items
      /\ \A n \in Pending(new) : n \in Pending(l) \/ l.items[n].phase = c
      /\ \A n \in Pending(new) : new.items[n].phase # c
  BY <1>1, CompletedMarks
<1> HIDE DEF new
<1>3. ASSUME NEW n \in Pending(new) PROVE new.items[n] = Todo("provision", q)
  <2>1. n \in DOMAIN new.items
    BY <1>2, PendingIs
  <2>2. new.items[n] = l.items[n] /\ n \in Pending(l)
    BY <1>2, <2>1
  <2>3. new.items[n] = Todo("complete", c) \/ new.items[n] = Todo("provision", q)
    BY <2>2 DEF ListAt
  <2> QED BY <1>1, <1>2, <2>3
<1>4. \E n \in DOMAIN new.items : new.items[n] = Todo("provision", q)
  <2>1. PICK n \in DOMAIN l.items : l.items[n] = Todo("provision", q)
    BY DEF ListAt
  <2> QED BY <1>1, <1>2, <2>1
<1>5. ASSUME NEW p \in Phases, p < q PROVE new.progress[p] \in {0, Done}
  <2>0. p \in Nat /\ c \in Nat /\ q \in Nat
    BY Numbers
  <2>1. p < c \/ p = c \/ (p > c /\ p # q)
    BY <1>5, <2>0
  <2> QED BY <1>2, <2>1 DEF ListAt
<1>6. ASSUME NEW p \in Phases, p > q PROVE new.progress[p] = 0
  <2>0. p \in Nat /\ c \in Nat /\ q \in Nat /\ c < q
    BY Numbers
  <2>1. p > c /\ p # q /\ p # c
    BY <2>0, <1>6
  <2> QED BY <1>2, <2>1 DEF ListAt
<1>7. new.progress[q] = Rank["provision"] /\ None \notin Phases
  BY <1>1, <1>2, Numbers, WorkflowAssumption
<1>8. ListAt(new, q, "provision", None)
  BY <1>3, <1>4, <1>5, <1>6, <1>7 DEF ListAt
<1> QED BY <1>8 DEF new

\* Behind the last phase there is nothing.
LEMMA CompleteRests ==
  ASSUME NEW l, IsList(l), ListAt(l, Final, "complete", None)
  PROVE  ListRests(CompleteTodo(l, Final))
<1> DEFINE new == CompleteTodo(l, Final)
<1>1. /\ Final \in Phases /\ Final \in Nat /\ \A p \in Phases : p \in Nat /\ p <= Final
      /\ l.progress[Final] = 4 /\ Todo("complete", Final).phase = Final
  BY WorkflowAssumption, Numbers, ItemsAre DEF ListAt, Phases, Actions
<1>2. /\ IsList(new) /\ new.progress[Final] = Done
      /\ \A x \in Phases \ {Final} : new.progress[x] = l.progress[x]
      /\ DOMAIN new.items \subseteq DOMAIN l.items
      /\ \A n \in DOMAIN new.items : new.items[n] = l.items[n]
      /\ \A n \in Pending(new) : n \in Pending(l) \/ l.items[n].phase = Final
      /\ \A n \in Pending(new) : new.items[n].phase # Final
  BY <1>1, CompletedMarks
<1> HIDE DEF new
<1>3. ASSUME NEW n \in Pending(new) PROVE FALSE
  <2>1. n \in DOMAIN new.items
    BY <1>2, PendingIs
  <2>2. new.items[n] = l.items[n] /\ n \in Pending(l)
    BY <1>2, <2>1
  <2>3. new.items[n] = Todo("complete", Final)
    BY <2>2, WorkflowAssumption DEF ListAt
  <2> QED BY <1>1, <1>2, <2>3
<1>4. ASSUME NEW p \in Phases PROVE new.progress[p] \in {0, Done}
  <2>1. p = Final \/ p < Final
    BY <1>1
  <2> QED BY <1>1, <1>2, <2>1 DEF ListAt
<1>5. ListRests(new)
  BY <1>3, <1>4 DEF ListRests
<1> QED BY <1>5 DEF new

\* A retried phase is served from its start, and nothing else of it.
LEMMA RetryServes ==
  ASSUME NEW l, IsList(l), NEW c \in Phases, ListAt(l, c, "run", None)
  PROVE  ListAt(RetryTodo(l, c), c, "provision", None)
<1> DEFINE gone == [action : Actions, phase : {c}]
           left == [items |-> Without(l.items, gone),
                    progress |-> [l.progress EXCEPT ![c] = Rank["provision"]]]
           at   == LastPlace(left.items) + 1
           new  == RetryTodo(l, c)
<1>1. Todo("provision", c) \in Item
  BY ItemsAre DEF Actions
<1>2. left.progress \in [Phases -> 0..4 \cup {Done}] /\ IsList(left)
  <2>1. l.progress \in [Phases -> 0..4 \cup {Done}] /\ Rank["provision"] \in 0..4
    BY Numbers DEF IsList
  <2>2. left.progress \in [Phases -> 0..4 \cup {Done}]
    BY <2>1
  <2> QED BY <2>2, ShortenedIsList
<1>3. new.items = Behind(left.items, Todo("provision", c)) /\ new.progress = left.progress
  BY DEF RetryTodo
<1>4. /\ left.progress[c] = 1 /\ \A x \in Phases \ {c} : left.progress[x] = l.progress[x]
  BY Numbers DEF IsList
<1>5. /\ DOMAIN left.items \subseteq DOMAIN l.items
      /\ \A n \in DOMAIN left.items : left.items[n] = l.items[n] /\ l.items[n] \notin gone
  <2>1. left.items = Without(l.items, gone)
    OBVIOUS
  <2> HIDE DEF left, gone
  <2> DEFINE items == Without(l.items, gone)
  <2>2. /\ DOMAIN items \subseteq DOMAIN l.items
        /\ \A n \in DOMAIN l.items : n \in DOMAIN items <=> l.items[n] \notin gone
        /\ \A n \in DOMAIN items : items[n] = l.items[n]
    BY WithoutIs
  <2> HIDE DEF items
  <2>3. \A n \in DOMAIN items : items[n] = l.items[n] /\ l.items[n] \notin gone
    BY <2>2
  <2> QED BY <2>1, <2>2, <2>3 DEF items
<1>6. IsList(new)
  <2>1. \A e : e = Said("retry", c) => e \in Event /\ e.kind = "retry" /\ e.phase = c
    BY DEF Said, Event, Kinds
  <2> QED BY <2>1, ProjectedIsList, Projections
<1>7. \A x \in Item : x.phase = c => x \in gone
  BY DEF Item
<1> HIDE DEF new, left, gone
<1>8. /\ DOMAIN new.items = DOMAIN left.items \cup {at} /\ at \in Nat \ {0}
      /\ new.items[at] = Todo("provision", c)
      /\ \A n \in DOMAIN left.items : new.items[n] = left.items[n]
  <2> DEFINE x == Todo("provision", c)  items == Behind(left.items, x)
  <2>1. /\ at \in Nat \ {0} /\ DOMAIN items = DOMAIN left.items \cup {at}
        /\ items[at] = x /\ \A n \in DOMAIN left.items : items[n] = left.items[n]
    BY <1>1, <1>2, BehindIs
  <2> QED BY <1>3, <2>1
<1> HIDE DEF at
<1>9. ASSUME NEW n \in Pending(new) PROVE new.items[n] = Todo("provision", c)
  <2>1. n \in DOMAIN left.items \/ n = at
    BY <1>6, <1>8, PendingIs
  <2>2. ASSUME n \in DOMAIN left.items PROVE FALSE
    <3>1. /\ n \in DOMAIN l.items /\ new.items[n] = l.items[n] /\ l.items[n] \notin gone
          /\ l.items[n] \in Item /\ l.items[n].phase \in Phases
      BY <1>5, <1>8, <2>2, PendingIs
    <3>2. l.items[n].phase # c
      BY <1>7, <3>1
    <3>3. n \in Pending(l)
      BY <1>3, <1>4, <1>6, <3>1, <3>2, PendingIs
    <3>4. l.items[n] = Todo("run", c)
      BY <3>3, WorkflowAssumption DEF ListAt
    <3> QED BY <3>2, <3>4, ItemsAre DEF Actions
  <2> QED BY <1>8, <2>1, <2>2
<1>10. /\ new.progress[c] = Rank["provision"] /\ None \notin Phases
       /\ \A p \in Phases : p < c => new.progress[p] \in {0, Done}
       /\ \A p \in Phases : p > c => new.progress[p] = 0
  <2>1. \A p \in Phases : (p < c \/ p > c) => p # c /\ p # None
    BY Numbers
  <2> QED BY <1>3, <1>4, <2>1, Numbers, WorkflowAssumption DEF ListAt
<1>11. ListAt(new, c, "provision", None)
  BY <1>8, <1>9, <1>10 DEF ListAt
<1> QED BY <1>11 DEF new

-----------------------------------------------------------------------------
(* The writer that lags *)

LEMMA EventKinds ==
  ASSUME NEW e \in Event, e.kind \notin {"retry", "ended"}
  PROVE  /\ e.phase \in Phases
         /\ \/ e.kind \in {"started", "nextReady"} /\ RankOf[e.kind] = 1
            \/ e.kind = "provisioned" /\ RankOf[e.kind] = Rank["run"]
            \/ e.kind = "agentCompleted" /\ RankOf[e.kind] = Rank["collect"]
            \/ e.kind = "collected" /\ RankOf[e.kind] = Rank["complete"]
            \/ e.kind = "completed" /\ RankOf[e.kind] = Done
BY DEF Event, Kinds, RankOf, Rank

\* An event whose mark is already there moves no mark; all it can change is to
\* put a start behind the list, or to take a finished item out of it.
LEMMA LateProjection ==
  ASSUME NEW l, IsList(l), NEW e \in Event, NEW inherited, e.kind \notin {"retry", "ended"},
         RankOf[e.kind] <= l.progress[e.phase]
  PROVE  LET new == Project(l, e, inherited)
         IN /\ IsList(new) /\ new.progress = l.progress
            /\ \/ new = l
               \/ /\ e.kind = "nextReady" /\ l.progress[e.phase] >= 1
                  /\ new.items = Behind(l.items, Todo("provision", e.phase))
               \/ /\ e.kind = "completed" /\ l.progress[e.phase] = Done
                  /\ new.items = Without(l.items, {Todo("complete", e.phase)})
<1> DEFINE p == e.phase  new == Project(l, e, inherited)
<1>1. p \in Phases /\ IsList(new)
  BY EventKinds, ProjectedIsList
<1>2. l.progress[p] \in 0..4 \cup {Done} /\ Done = 99 /\ l.progress \in [Phases -> 0..4 \cup {Done}]
  BY <1>1 DEF IsList, Done
<1>3. CASE e.kind = "started"
  <2>1. new = StartTodo(l, p, inherited) /\ RankOf[e.kind] = 1
    BY <1>3, Projections, EventKinds
  <2>2. new = l
    BY <2>1, Numbers DEF StartTodo
  <2> QED BY <1>1, <2>2
<1>4. ASSUME NEW a \in {"run", "collect", "complete"}, RankOf[e.kind] = Rank[a],
             new = AdvanceTodo(l, Todo(a, p))
      PROVE  new = l
  <2>1. a \in Actions
    BY DEF Actions
  <2>2. l.progress[Todo(a, p).phase] >= Rank[Todo(a, p).action]
    BY <1>1, <1>4, <2>1, ItemsAre
  <2> QED BY <1>4, <2>2 DEF AdvanceTodo
<1>5. CASE e.kind \in {"provisioned", "agentCompleted", "collected"}
  <2>1. new = l
    BY <1>4, <1>5, Projections, EventKinds
  <2> QED BY <1>1, <2>1
<1>6. ASSUME NEW rank \in 0..4 \cup {Done}, rank <= l.progress[p]
      PROVE  Raised(l, p, rank) = l.progress
  BY <1>1, <1>2, <1>6 DEF Raised
<1>7. CASE e.kind = "nextReady"
  <2>1. new = NextTodo(l, p) /\ RankOf[e.kind] = 1 /\ l.progress[p] >= 1
    BY <1>2, <1>7, Projections, EventKinds
  <2>2. Raised(l, p, Rank["provision"]) = l.progress
    BY <1>2, <1>6, <2>1, Numbers
  <2> QED BY <1>1, <1>7, <2>1, <2>2 DEF NextTodo
<1>8. CASE e.kind = "completed"
  <2>1. new = CompleteTodo(l, p) /\ RankOf[e.kind] = Done /\ l.progress[p] = Done
    BY <1>2, <1>8, Projections, EventKinds
  <2>2. Raised(l, p, Done) = l.progress
    BY <1>2, <1>6, <2>1
  <2> QED BY <1>1, <1>8, <2>1, <2>2 DEF CompleteTodo
<1> QED BY <1>3, <1>5, <1>7, <1>8, EventKinds

\* So the list serves what it served.
LEMMA LateServes ==
  ASSUME NEW l, IsList(l), NEW e \in Event, NEW inherited, e.kind \notin {"retry", "ended"},
         RankOf[e.kind] <= l.progress[e.phase],
         NEW c \in Phases, NEW act \in Actions, NEW q \in Phases \cup {None},
         q \in Phases => act = "complete" /\ c < q, ListAt(l, c, act, q)
  PROVE  ListAt(Project(l, e, inherited), c, act, q)
<1> DEFINE p == e.phase  new == Project(l, e, inherited)
<1>1. p \in Phases /\ IsList(new) /\ new.progress = l.progress
  BY LateProjection, EventKinds
<1>2. \/ new = l
      \/ l.progress[p] >= 1 /\ new.items = Behind(l.items, Todo("provision", p))
      \/ l.progress[p] = Done /\ new.items = Without(l.items, {Todo("complete", p)})
  BY LateProjection
<1> SUFFICES ListAt(new, c, act, q)
  OBVIOUS
<1> HIDE DEF new
<1>a. /\ new.progress[c] = Rank[act]
      /\ \A x \in Phases : x < c => new.progress[x] \in {0, Done}
      /\ \A x \in Phases : x > c /\ x # q => new.progress[x] = 0
      /\ q \in Phases => new.progress[q] = 1
  BY <1>1 DEF ListAt
<1>b. ASSUME \A n \in Pending(new) :
               new.items[n] = Todo(act, c) \/ (q \in Phases /\ new.items[n] = Todo("provision", q)),
             \E n \in DOMAIN new.items :
               /\ new.items[n] = Todo(act, c)
               /\ q \in Phases => \A m \in Pending(new) : new.items[m] = Todo("provision", q) => n < m,
             q \in Phases => \E n \in DOMAIN new.items : new.items[n] = Todo("provision", q)
      PROVE  ListAt(new, c, act, q)
  BY <1>a, <1>b DEF ListAt
<1>3. CASE l.progress[p] >= 1 /\ new.items = Behind(l.items, Todo("provision", p))
  <2> DEFINE x == Todo("provision", p)  at == LastPlace(l.items) + 1
  <2>1. x \in Item /\ x.phase = p /\ x.action = "provision" /\ Rank["provision"] = 1
    BY <1>1, ItemsAre, Numbers DEF Actions
  <2>2. /\ at \in Nat \ {0} /\ \A n \in DOMAIN l.items : n < at
        /\ DOMAIN new.items = DOMAIN l.items \cup {at}
        /\ new.items[at] = x /\ \A n \in DOMAIN l.items : new.items[n] = l.items[n]
    <3> DEFINE items == Behind(l.items, x)
    <3>1. /\ at \in Nat \ {0} /\ \A n \in DOMAIN l.items : n < at
          /\ DOMAIN items = DOMAIN l.items \cup {at}
          /\ items[at] = x /\ \A n \in DOMAIN l.items : items[n] = l.items[n]
      BY <2>1, BehindIs
    <3> QED BY <1>3, <3>1
  <2> HIDE DEF at, x
  <2>3. \A n \in Pending(new) : n # at => n \in Pending(l) /\ n \in DOMAIN l.items
    BY <1>1, <2>2, PendingIs
  <2>4. ASSUME at \in Pending(new) PROVE x = Todo(act, c) \/ (q \in Phases /\ x = Todo("provision", q))
    <3>1. l.progress[p] = 1
      <4>1. l.progress[p] <= 1 /\ l.progress[p] \in 0..4 \cup {Done}
        BY <1>1, <2>1, <2>2, <2>4, PendingIs
      <4> QED BY <1>3, <4>1 DEF Done
    <3>2. CASE p < c
      BY <1>1, <3>1, <3>2 DEF ListAt, Done
    <3>3. CASE p = c
      <4>1. Rank[act] = 1
        BY <3>1, <3>3 DEF ListAt
      <4>2. act = "provision"
        BY <4>1 DEF Rank, Actions
      <4> QED BY <3>3, <4>2 DEF x
    <3>4. CASE p > c
      <4>1. p = q
        BY <1>1, <3>1, <3>4 DEF ListAt
      <4> QED BY <1>1, <4>1 DEF x
    <3> QED BY <1>1, <3>2, <3>3, <3>4, Numbers
  <2>5. \A n \in Pending(new) :
          new.items[n] = Todo(act, c) \/ (q \in Phases /\ new.items[n] = Todo("provision", q))
    BY <2>2, <2>3, <2>4 DEF ListAt
  <2>6. PICK n \in DOMAIN l.items :
          /\ l.items[n] = Todo(act, c)
          /\ q \in Phases => \A m \in Pending(l) : l.items[m] = Todo("provision", q) => n < m
    BY DEF ListAt
  <2>7. n \in DOMAIN new.items /\ new.items[n] = Todo(act, c) /\ n < at
    BY <2>2, <2>6
  <2>8. q \in Phases => \A m \in Pending(new) : new.items[m] = Todo("provision", q) => n < m
    BY <2>2, <2>3, <2>6, <2>7
  <2>9. q \in Phases => \E m \in DOMAIN new.items : new.items[m] = Todo("provision", q)
    <3> SUFFICES ASSUME q \in Phases PROVE \E m \in DOMAIN new.items : new.items[m] = Todo("provision", q)
      OBVIOUS
    <3>1. PICK m \in DOMAIN l.items : l.items[m] = Todo("provision", q)
      BY DEF ListAt
    <3> QED BY <2>2, <3>1
  <2>10. \E k \in DOMAIN new.items :
            /\ new.items[k] = Todo(act, c)
            /\ q \in Phases => \A m \in Pending(new) : new.items[m] = Todo("provision", q) => k < m
    BY <2>7, <2>8
  <2> QED BY <1>b, <2>5, <2>9, <2>10
<1>4. CASE l.progress[p] = Done /\ new.items = Without(l.items, {Todo("complete", p)})
  <2> DEFINE x == Todo("complete", p)  gone == {x}  items == Without(l.items, gone)
  <2>1. x.phase = p /\ x.action = "complete" /\ Todo(act, c).phase = c /\ Rank[act] \in 1..4
        /\ Todo("provision", q).action = "provision"
    BY <1>1, ItemsAre, Numbers DEF Actions, Todo
  <2>2. /\ DOMAIN items \subseteq DOMAIN l.items
        /\ \A n \in DOMAIN l.items : n \in DOMAIN items <=> l.items[n] \notin gone
        /\ \A n \in DOMAIN items : items[n] = l.items[n]
    BY WithoutIs
  <2>3. /\ DOMAIN new.items \subseteq DOMAIN l.items
        /\ \A n \in DOMAIN l.items : l.items[n] # x => n \in DOMAIN new.items
        /\ \A n \in DOMAIN new.items : new.items[n] = l.items[n]
    BY <1>4, <2>2
  <2> HIDE DEF x, items, gone
  <2>4. p # c
    BY <1>4, <2>1 DEF ListAt, Done
  <2>5. \A n \in Pending(new) : n \in Pending(l) /\ n \in DOMAIN new.items
    BY <1>1, <2>3, PendingIs
  <2>6. \A n \in Pending(new) :
          new.items[n] = Todo(act, c) \/ (q \in Phases /\ new.items[n] = Todo("provision", q))
    BY <2>3, <2>5 DEF ListAt
  <2>7. PICK n \in DOMAIN l.items :
          /\ l.items[n] = Todo(act, c)
          /\ q \in Phases => \A m \in Pending(l) : l.items[m] = Todo("provision", q) => n < m
    BY DEF ListAt
  <2>8. n \in DOMAIN new.items /\ new.items[n] = Todo(act, c)
    BY <2>1, <2>3, <2>4, <2>7
  <2>9. q \in Phases => \A m \in Pending(new) : new.items[m] = Todo("provision", q) => n < m
    BY <2>3, <2>5, <2>7
  <2>10. q \in Phases => \E m \in DOMAIN new.items : new.items[m] = Todo("provision", q)
    <3> SUFFICES ASSUME q \in Phases PROVE \E m \in DOMAIN new.items : new.items[m] = Todo("provision", q)
      OBVIOUS
    <3>1. PICK m \in DOMAIN l.items : l.items[m] = Todo("provision", q)
      BY DEF ListAt
    <3>2. l.items[m] # x
      BY <2>1, <3>1
    <3> QED BY <2>3, <3>1, <3>2
  <2>11. \E k \in DOMAIN new.items :
            /\ new.items[k] = Todo(act, c)
            /\ q \in Phases => \A m \in Pending(new) : new.items[m] = Todo("provision", q) => k < m
    BY <2>8, <2>9
  <2> QED BY <1>b, <2>6, <2>10, <2>11
<1> QED BY <1>2, <1>3, <1>4

\* A list that serves nothing goes on serving nothing.
LEMMA LateRests ==
  ASSUME NEW l, IsList(l), NEW e \in Event, NEW inherited, e.kind \notin {"retry", "ended"},
         RankOf[e.kind] <= l.progress[e.phase], ListRests(l)
  PROVE  ListRests(Project(l, e, inherited))
<1> DEFINE p == e.phase  new == Project(l, e, inherited)
<1>1. p \in Phases /\ IsList(new) /\ new.progress = l.progress
  BY LateProjection, EventKinds
<1>2. \/ new = l
      \/ l.progress[p] >= 1 /\ new.items = Behind(l.items, Todo("provision", p))
      \/ l.progress[p] = Done /\ new.items = Without(l.items, {Todo("complete", p)})
  BY LateProjection
<1> SUFFICES ListRests(new)
  OBVIOUS
<1> HIDE DEF new
<1>3. CASE l.progress[p] >= 1 /\ new.items = Behind(l.items, Todo("provision", p))
  <2> DEFINE x == Todo("provision", p)  at == LastPlace(l.items) + 1  items == Behind(l.items, x)
  <2>1. x \in Item /\ x.phase = p /\ x.action = "provision" /\ Rank["provision"] = 1
    BY <1>1, ItemsAre, Numbers DEF Actions
  <2>2. /\ at \in Nat \ {0} /\ DOMAIN items = DOMAIN l.items \cup {at}
        /\ items[at] = x /\ \A n \in DOMAIN l.items : items[n] = l.items[n]
    BY <2>1, BehindIs
  <2>3. /\ DOMAIN new.items = DOMAIN l.items \cup {at}
        /\ new.items[at] = x /\ \A n \in DOMAIN l.items : new.items[n] = l.items[n]
    BY <1>3, <2>2
  <2> HIDE DEF at, x, items
  <2>4. \A n \in Pending(new) : n = at
    BY <1>1, <2>3, PendingIs DEF ListRests
  <2>5. l.progress[p] = Done /\ Done = 99
    BY <1>1, <1>3 DEF ListRests, Done
  <2>6. at \notin Pending(new)
    <3> SUFFICES ASSUME at \in Pending(new) PROVE FALSE
      OBVIOUS
    <3>1. new.progress[p] <= 1
      BY <1>1, <2>1, <2>3, PendingIs
    <3> QED BY <1>1, <2>5, <3>1
  <2> QED BY <1>1, <2>4, <2>6 DEF ListRests
<1>4. CASE l.progress[p] = Done /\ new.items = Without(l.items, {Todo("complete", p)})
  <2>1. DOMAIN new.items \subseteq DOMAIN l.items /\ \A n \in DOMAIN new.items : new.items[n] = l.items[n]
    <3> DEFINE gone == {Todo("complete", p)}  items == Without(l.items, gone)
    <3>1. DOMAIN items \subseteq DOMAIN l.items /\ \A n \in DOMAIN items : items[n] = l.items[n]
      BY WithoutIs
    <3> QED BY <1>4, <3>1
  <2>2. ASSUME NEW n \in Pending(new) PROVE FALSE
    <3>1. n \in DOMAIN new.items /\ n \in DOMAIN l.items /\ new.items[n] = l.items[n]
      BY <1>1, <2>1, PendingIs
    <3>2. n \in Pending(l)
      BY <1>1, <3>1, PendingIs
    <3> QED BY <3>2 DEF ListRests
  <2>3. \A x \in Phases : new.progress[x] \in {0, Done}
    BY <1>1 DEF ListRests
  <2> QED BY <2>2, <2>3 DEF ListRests
<1> QED BY <1>2, <1>3, <1>4

\* Of a list without retries no mark ever goes back.
LEMMA MarksGrow ==
  ASSUME NEW l, IsList(l), NEW e \in Event, NEW inherited, e.kind \notin {"retry", "ended"}
  PROVE  LET new == Project(l, e, inherited)
         IN /\ new.progress[e.phase] >= RankOf[e.kind]
            /\ \A p \in Phases : new.progress[p] >= l.progress[p]
<1> DEFINE p == e.phase  new == Project(l, e, inherited)
<1> SUFFICES /\ new.progress[p] >= RankOf[e.kind]
             /\ \A x \in Phases : new.progress[x] >= l.progress[x]
  OBVIOUS
<1>1. p \in Phases /\ IsList(new) /\ Done = 99 /\ \A x \in Phases : l.progress[x] \in 0..99
  BY EventKinds, ProjectedIsList DEF IsList, Done
<1>2. ASSUME NEW rank \in 0..4 \cup {Done}
      PROVE  LET marks == Raised(l, p, rank)
             IN marks[p] >= rank /\ \A x \in Phases : marks[x] >= l.progress[x]
  <2> HIDE DEF p
  <2> DEFINE marks == Raised(l, p, rank)
  <2>1. /\ \A x \in Phases \ {p} : marks[x] = l.progress[x]
        /\ marks[p] = IF l.progress[p] >= rank THEN l.progress[p] ELSE rank
    BY <1>1, Marks
  <2> HIDE DEF marks
  <2>2. rank \in 0..99 /\ l.progress[p] \in 0..99
    BY <1>1
  <2>3. marks[p] >= rank /\ marks[p] >= l.progress[p]
    BY <2>1, <2>2
  <2>4. ASSUME NEW x \in Phases PROVE marks[x] >= l.progress[x]
    BY <1>1, <2>1, <2>3
  <2> QED BY <2>3, <2>4 DEF marks
<1>3. CASE e.kind = "started"
  <2>1. new = StartTodo(l, p, inherited) /\ RankOf[e.kind] = 1 /\ Rank["provision"] = 1
    BY <1>3, Projections, EventKinds, Numbers
  <2>2. CASE l.progress[p] >= 1
    BY <1>1, <2>1, <2>2 DEF StartTodo
  <2>3. CASE ~(l.progress[p] >= 1)
    <3>1. new.progress = [x \in Phases |-> IF x \in inherited THEN Done
                                           ELSE IF x = p THEN 1 ELSE l.progress[x]]
      BY <2>1, <2>3 DEF StartTodo
    <3> HIDE DEF new
    <3>2. ASSUME NEW x \in Phases
          PROVE new.progress[x] >= l.progress[x] /\ (x = p => new.progress[x] >= 1)
      <4>1. l.progress[x] \in 0..99 /\ l.progress[p] \in 0..99
        BY <1>1
      <4>2. new.progress[x] = IF x \in inherited THEN Done ELSE IF x = p THEN 1 ELSE l.progress[x]
        BY <3>1
      <4> QED BY <1>1, <2>3, <4>1, <4>2
    <3> QED BY <1>1, <2>1, <3>2
  <2> QED BY <2>2, <2>3
<1>4. ASSUME NEW a \in {"run", "collect", "complete"}, RankOf[e.kind] = Rank[a],
             new = AdvanceTodo(l, Todo(a, p))
      PROVE  /\ new.progress[p] >= RankOf[e.kind]
             /\ \A x \in Phases : new.progress[x] >= l.progress[x]
  <2>1. a \in Actions
    BY DEF Actions
  <2>2. Todo(a, p).phase = p /\ Todo(a, p).action = a /\ Rank[a] \in 0..4 \cup {Done}
    BY <1>1, <2>1, ItemsAre
  <2>3. CASE l.progress[p] >= Rank[a]
    BY <1>1, <1>4, <2>2, <2>3 DEF AdvanceTodo
  <2>4. CASE ~(l.progress[p] >= Rank[a])
    <3>1. new.progress = Raised(l, p, Rank[a])
      BY <1>4, <2>2, <2>4 DEF AdvanceTodo
    <3> HIDE DEF new
    <3> QED BY <1>2, <1>4, <2>2, <3>1
  <2> QED BY <2>3, <2>4
<1>5. CASE e.kind \in {"provisioned", "agentCompleted", "collected"}
  BY <1>4, <1>5, Projections, EventKinds
<1>6. CASE e.kind = "nextReady"
  <2>1. new.progress = Raised(l, p, 1) /\ RankOf[e.kind] = 1
    BY <1>6, Projections, EventKinds, Numbers DEF NextTodo
  <2>2. 1 \in 0..4 \cup {Done}
    OBVIOUS
  <2> HIDE DEF new
  <2> QED BY <1>2, <2>1, <2>2
<1>7. CASE e.kind = "completed"
  <2>0. new = CompleteTodo(l, p) /\ RankOf[e.kind] = Done
    BY <1>7, Projections, EventKinds
  <2>1. new.progress = Raised(l, p, Done)
    BY <2>0 DEF CompleteTodo
  <2> HIDE DEF new
  <2> QED BY <1>2, <2>0, <2>1
<1> QED BY <1>3, <1>5, <1>6, <1>7, EventKinds
=============================================================================
