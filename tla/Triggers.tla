------------------------------ MODULE Triggers ------------------------------
(***************************************************************************)
(* A channel's triggers: those on a clock, which one task awaits, and      *)
(* those of what happens.  They share the runner but none of its           *)
(* cooldowns, and the clock's take no slot, so that a behaviour is of one  *)
(* or the other.                                                           *)
(***************************************************************************)
EXTENDS Timers, TriggerRuns

TriggersInit ==
  \/ TimersInit /\ EventsInit /\ left.clock
  \/ /\ on = {} /\ due = [t \in Timer |-> New] /\ talk = [x \in Trigger |-> 0]
     /\ clock = 0 /\ handled = {} /\ said = [c \in Cron |-> "no"]
     /\ loop = [Asleep(0) EXCEPT !.at = "off"]
     /\ EventsInit /\ ~left.clock

TriggersNext ==
  \/ loop.at # "off" /\ TimersNext /\ UNCHANGED eventsVars
  \/ loop.at = "off" /\ EventsNext /\ UNCHANGED timersVars

TriggersSpec ==
  /\ TriggersInit /\ [][TriggersNext]_<<timersVars, eventsVars>>
  /\ TimersFairness

=============================================================================
