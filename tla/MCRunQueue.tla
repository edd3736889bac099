----------------------------- MODULE MCRunQueue -----------------------------
EXTENDS RunQueue, TLC

CONSTANTS r1, r2, a1, a2, b1, c1, m1, m2, m3, near, mid, far

Symmetric == Permutations(Runs)

OnePool == [pool |-> near, priority |-> 0, credentials |-> TRUE, budgeted |-> TRUE]

\* Two processes one after the other in container m1, one in m2, one daemon.
TwoMachines  == [h \in Hosts |-> IF h = b1 THEN m2 ELSE IF h = c1 THEN m3 ELSE m1]
Asked        == [h \in Hosts |-> IF h = a1 THEN 2 ELSE 1]
OneEach      == [h \in Hosts |-> 1]
OneScope     == [h \in Hosts |-> "daemon"]
NoKits       == [h \in Hosts |-> {}]
SameEpoch    == [h \in Hosts |-> 1]
AllOnePool   == [h \in Hosts |-> OnePool]

\* Accounting: the clock moves only leases, no create fails, no opening row is
\* swept, a deferred run is due at once, idle claims are left out, and only the
\* first process of m1 leaves.
Calm == /\ \A h \in Hosts : failures[h] = 0 /\ sweep[h] = None
        /\ \A r \in Runs : runs[r].due
Still == /\ registered \cap {a2, b1} \subseteq registered'
         /\ \A h \in enrolled : beat[h] = "registered" => beat'[h] # "stale"
         /\ \A h \in enrolled : beat[h] = "fresh" => beat'[h] = "fresh"
         /\ checked # checked' => inUse # inUse'
         /\ recentlyFull \cap {h \in Hosts : inUse[h] = inUse'[h]} \subseteq recentlyFull'

\* Placement: a preferred executor, and a budgeted one without credentials.
NearPool   == [pool |-> near, priority |-> 0, credentials |-> TRUE, budgeted |-> TRUE]
FarPool    == [pool |-> far, priority |-> 1, credentials |-> FALSE, budgeted |-> TRUE]
NearAndFar == a1 :> NearPool @@ b1 :> FarPool

\* The breaker, Claim Checks and the second run, which is there to fill an
\* executor, come in once no sweep is under way; a run is deferred only where it
\* is alone, to a later time, and no one reconciles.
SweptFirst == \A h \in Hosts : sweep[h] # None =>
                /\ sweep[h].run = r1 /\ runs[r2].state = "none"
                /\ runs[r1].state # "claimed" /\ runs[r1].token = 0
                /\ \A x \in Hosts : failures[x] = 0
Deferred == releasing[r1] # None \/ (runs[r1].state = "admitted" /\ runs[r1].token > 0)
Queueing == /\ runs[r2].state # "none" => runs[r1].state \in {"admitted", "claimed"}
            /\ \A r \in Runs : runs[r].state \notin Fenced \cup Terminal
            /\ Unlocked(r2)
            /\ releasing[r1] # None => releasing[r1].to = "admitted" /\ ~releasing[r1].due
            /\ Deferred => runs[r2].state = "none" /\ \A h \in Hosts : failures[h] = 0

\* Overflow: an executor that may not overflow between one that is full, or
\* dead, and one that may.  A run is only started and claimed.
MidPool    == [pool |-> mid, priority |-> 1, credentials |-> TRUE, budgeted |-> FALSE]
LastPool   == [pool |-> far, priority |-> 2, credentials |-> TRUE, budgeted |-> TRUE]
ThreePools == a1 :> NearPool @@ b1 :> MidPool @@ c1 :> LastPool
Unswept    == \A h \in Hosts : sweep[h] = None
=============================================================================
