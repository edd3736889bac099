---------------------------- MODULE StartPromise ----------------------------
(***************************************************************************)
(* What starting executions promises to the operator and to the client,    *)
(* whatever queues, tasks, leases and to-do records carry a start:         *)
(*                                                                         *)
(*   - an execution comes into being once, and only if it was asked for;   *)
(*   - while admission is paused none comes into being, so the drain of a  *)
(*     deploy counts a set that no longer grows;                           *)
(*   - a resume whose cancel was answered "it will not run" does not run.  *)
(*                                                                         *)
(* StartIntake implements it.                                              *)
(***************************************************************************)
CONSTANTS Starts, Resumes

VARIABLES
  paused,    \* PUT /maintenance has returned and has not been cleared
  requested, \* accepted: the client heard yes, or may still
  opened,    \* the execution's stream exists
  running,   \* the execution went past its start
  calledOff  \* a cancel was answered: it will not run

promiseVars == <<paused, requested, opened, running, calledOff>>

PromiseInit ==
  /\ paused = FALSE
  /\ requested = {} /\ opened = {} /\ running = {} /\ calledOff = {}

Pause  == ~paused /\ paused' = TRUE  /\ UNCHANGED <<requested, opened, running, calledOff>>
Resume == paused  /\ paused' = FALSE /\ UNCHANGED <<requested, opened, running, calledOff>>

Request(s) ==
  /\ s \notin requested
  /\ requested' = requested \union {s}
  /\ UNCHANGED <<paused, opened, running, calledOff>>

\* The one step a pause excludes. A direct start runs from the same write.
OpenDirect(s) ==
  /\ ~paused /\ s \in requested \ (opened \union Resumes)
  /\ opened' = opened \union {s}
  /\ running' \in {running, running \union {s}}
  /\ UNCHANGED <<paused, requested, calledOff>>

OpenResume(s) ==
  /\ ~paused /\ s \in (requested \intersect Resumes) \ opened
  /\ opened' = opened \union {s}
  /\ UNCHANGED <<paused, requested, running, calledOff>>

Run(s) ==
  /\ s \in (opened \intersect Resumes) \ (running \union calledOff)
  /\ running' = running \union {s}
  /\ UNCHANGED <<paused, requested, opened, calledOff>>

CallOff(s) ==
  /\ s \in requested \ (opened \union calledOff)
  /\ calledOff' = calledOff \union {s}
  /\ UNCHANGED <<paused, requested, opened, running>>

PromiseNext ==
  \/ Pause \/ Resume
  \/ \E s \in Starts: Request(s) \/ OpenDirect(s) \/ OpenResume(s) \/ Run(s) \/ CallOff(s)

PromiseSpec == PromiseInit /\ [][PromiseNext]_promiseVars
=============================================================================
