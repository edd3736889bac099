------------------------- MODULE MCExecutionHosting -------------------------
EXTENDS ExecutionHosting

CONSTANTS r1, a1, a2, b1, m1, m2, pool

\* Two processes one after the other in container m1, one in m2, one daemon.
TwoMachines == [h \in Hosts |-> IF h = b1 THEN m2 ELSE m1]
OneEach     == [h \in Hosts |-> 1]
OneScope    == [h \in Hosts |-> "daemon"]
NoKits      == [h \in Hosts |-> {}]
SameEpoch   == [h \in Hosts |-> 1]
OnePool     == [h \in Hosts |->
                 [pool |-> pool, priority |-> 0, credentials |-> TRUE, budgeted |-> TRUE]]

\* a1 and a2 are interchangeable, so a1 may as well be the first to run.
InOrder == process'[a2] # "unborn" => process[a1] # "unborn"
=============================================================================
