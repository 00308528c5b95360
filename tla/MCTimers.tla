------------------------------- MODULE MCTimers -------------------------------
(* Instance of Timers for TLC. *)
EXTENDS Timers

Once(ms) == [ms |-> ms, repeating |-> FALSE]
Periodic(ms) == [ms |-> ms, repeating |-> TRUE]

(* Zero timers around others, timers with the same wakeup time, and a      *)
(* periodic timer that falls behind.                                       *)
MCPlans == { <<Once(1), Once(0), Once(0)>>,
             <<Once(1), Once(1), Once(0)>>,
             <<Once(2), Once(1), Periodic(0)>>,
             <<Periodic(1), Once(0)>>,
             <<Periodic(1), Once(1)>> }
=============================================================================
