------------------------------- MODULE TaskPool -------------------------------
(***************************************************************************)
(* What a thread pool promises to its callers, without workers: accepted   *)
(* tasks start in the order in which they were accepted, each exactly      *)
(* once; after Shutdown was called tasks are refused; Shutdown returns     *)
(* when every accepted task has finished.                                  *)
(***************************************************************************)
EXTENDS Sequences

CONSTANT Task

VARIABLES
  queue,    \* accepted tasks that have not started, oldest first
  active,   \* tasks that have started and not finished
  finished, \* tasks that have finished
  refused,  \* tasks that were handed in too late
  phase     \* "open", "draining" once Shutdown was called, "closed"

poolVars == <<queue, active, finished, refused, phase>>

PoolInit ==
  /\ queue = <<>>
  /\ active = {}
  /\ finished = {}
  /\ refused = {}
  /\ phase = "open"

Queued == {queue[i] : i \in DOMAIN queue}
Fresh(t) == t \notin Queued \cup active \cup finished \cup refused

Accept(t) ==
  /\ phase = "open"
  /\ Fresh(t)
  /\ queue' = Append(queue, t)
  /\ UNCHANGED <<active, finished, refused, phase>>

Refuse(t) ==
  /\ phase # "open"
  /\ Fresh(t)
  /\ refused' = refused \cup {t}
  /\ UNCHANGED <<queue, active, finished, phase>>

Start ==
  /\ phase # "closed"
  /\ queue # <<>>
  /\ queue' = Tail(queue)
  /\ active' = active \cup {Head(queue)}
  /\ UNCHANGED <<finished, refused, phase>>

Finish(t) ==
  /\ t \in active
  /\ active' = active \ {t}
  /\ finished' = finished \cup {t}
  /\ UNCHANGED <<queue, refused, phase>>

BeginShutdown ==
  /\ phase = "open"
  /\ phase' = "draining"
  /\ UNCHANGED <<queue, active, finished, refused>>

EndShutdown ==
  /\ phase = "draining"
  /\ queue = <<>>
  /\ active = {}
  /\ phase' = "closed"
  /\ UNCHANGED <<queue, active, finished, refused>>

PoolNext ==
  \/ \E t \in Task : Accept(t) \/ Refuse(t) \/ Finish(t)
  \/ Start
  \/ BeginShutdown
  \/ EndShutdown

PoolSafety == PoolInit /\ [][PoolNext]_poolVars

PoolSpec ==
  /\ PoolSafety
  /\ WF_poolVars(Start)
  /\ \A t \in Task : WF_poolVars(Finish(t))
  /\ WF_poolVars(EndShutdown)

=============================================================================
