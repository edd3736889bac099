---------------------------- MODULE ExecutionRun ----------------------------
(***************************************************************************)
(* What the Run Queue and its Execution Hosts promise of a run: it waits,  *)
(* one executor takes it and is the only place it is ever at, and it is    *)
(* closed by that executor with nothing left behind, or fenced and ended   *)
(* as interrupted.  ExecutionHosting implements it.                        *)
(*                                                                         *)
(* A step of the fleet is a step, or none, of every run: a process that    *)
(* dies takes all its runs with it.                                        *)
(***************************************************************************)
CONSTANTS Runs, Hosts

VARIABLES
  state,     \* where each run is in its life
  places,    \* the executors that drive it or hold a container of it
  outcome    \* the status its stream gives

life == <<state, places, outcome>>

LifeInit ==
  /\ state = [r \in Runs |-> "waiting"]
  /\ places = [r \in Runs |-> {}]
  /\ outcome = [r \in Runs |-> "running"]

\* It is taken once, by an executor and from then on there is no other place it is at.
Take(r) ==
  /\ state[r] = "waiting" /\ state'[r] = "claimed"
  /\ \E h \in Hosts : places'[r] \subseteq {h}
  /\ outcome'[r] = outcome[r]

\* Its stream ends once, while the run is claimed or fenced.
Conclude(r) ==
  /\ outcome[r] = "running" /\ outcome'[r] \in {"finished", "failed", "interrupted"}
  /\ state[r] \in {"claimed", "fenced"} /\ state'[r] = state[r]

\* The child of a withdrawn resume may be ended before an executor takes it.
Withdraw(r) ==
  /\ state[r] = "waiting" /\ state'[r] = "waiting"
  /\ outcome[r] = "running" /\ outcome'[r] = "finished"

Fence(r) ==
  /\ state[r] = "claimed" /\ state'[r] = "fenced"
  /\ outcome'[r] = outcome[r]

\* Its executor closes it when it is gone from there.
CloseRun(r) ==
  /\ state[r] = "claimed" /\ state'[r] = "done"
  /\ places[r] = {} /\ outcome'[r] = outcome[r]

\* A fenced run is closed once its stream has ended, one way or the other.
InterruptRun(r) ==
  /\ state[r] = "fenced" /\ state'[r] = "interrupted"
  /\ outcome[r] # "running" /\ outcome'[r] = outcome[r]

\* A run that is taken is never moved: it only leaves the place it is at, or stays.
Remain(r) ==
  /\ places'[r] \subseteq places[r]
  /\ \/ state'[r] = state[r] /\ outcome'[r] = outcome[r]
     \/ Conclude(r) \/ Withdraw(r) \/ Fence(r) \/ CloseRun(r) \/ InterruptRun(r)

LifeNext == \A r \in Runs : Take(r) \/ Remain(r)

LifeSpec == LifeInit /\ [][LifeNext]_life
=============================================================================
