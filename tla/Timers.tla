------------------------------- MODULE Timers -------------------------------
(***************************************************************************)
(* TimerScheduler (triggers/timers.py): one task that looks at every timer *)
(* and every cron a few times a minute, and awaits the run of what is due. *)
(* Time goes in steps of one tick.                                         *)
(***************************************************************************)
EXTENDS Integers, FiniteSets, Schedules

CONSTANTS
  Timer, Cron,
  Steady,       \* triggers that stay enabled, of a channel that stays joined, with no only_live
  Every,        \* [Timer -> Nat]: every_s, in ticks
  Jitter,       \* [Timer -> Nat]: jitter_s
  Needed,       \* [Timer \cup Cron -> Nat]: min_chat_lines
  Written,      \* [Cron -> its five fields], as the channel wrote them
  Minutes,      \* how many minutes the clock goes through before it starts again
  Local,        \* [minute -> the channel's local time]
  MinuteTicks,  \* ticks in a minute, 12
  RunLasts      \* bound: ticks that pass while one expression runs

Trigger == Timer \cup Cron

ASSUME TimersAssumption ==
  /\ IsFiniteSet(Trigger) /\ Timer \cap Cron = {} /\ Steady \subseteq Trigger
  /\ Every \in [Timer -> Nat \ {0}] /\ Jitter \in [Timer -> Nat] /\ Needed \in [Trigger -> Nat]
  /\ Minutes \in Nat \ {0} /\ MinuteTicks \in Nat \ {0} /\ RunLasts \in Nat
  /\ DOMAIN Written = Cron /\ DOMAIN Local = 0 .. Minutes - 1

New == -1

VARIABLES
  on,       \* enabled triggers, as the service's memory has them
  due,      \* per timer: ticks until next_at, or New
  talk,     \* lines since it last fired, as far as Needed
  clock,    \* the wall clock, in ticks
  handled,  \* crons whose last_minute is this minute
  loop,     \* where the scheduler is
  said      \* history: what became of each cron in this minute

timersVars == <<on, due, talk, clock, handled, loop, said>>

Asleep(nap) == [at |-> "asleep", left |-> {}, ripe |-> {}, drift |-> 0, nap |-> nap, who |-> {}, of |-> "asleep"]

TimersInit ==
  /\ on = Trigger
  /\ due = [t \in Timer |-> New] /\ talk = [x \in Trigger |-> 0]
  /\ clock = 0 /\ handled = {} /\ said = [c \in Cron |-> "no"]
  /\ loop = Asleep(0)

Minute == clock \div MinuteTicks

\* reload: a schedule that is refused is left out, and crons() passes over its trigger.
Schedule == [c \in {d \in Cron : ~RefusedCron(Written[d])} |-> ParseCron(Written[c])]

Matches(c, minute) == c \in DOMAIN Schedule /\ MatchesAt(Schedule[c], Local[minute])

-----------------------------------------------------------------------------

\* tick reads the clock once, and the enabled timers.
Tick ==
  /\ loop.at = "asleep" /\ loop.nap = 0
  /\ loop' = [loop EXCEPT !.at = "timers", !.left = on \cap Timer, !.ripe = {t \in Timer : due[t] = 0}]
  /\ UNCHANGED <<on, due, talk, clock, handled, said>>

\* next_at, counted from the clock the tick has read.
Next_at(t, jitter) == IF Every[t] + jitter > loop.drift THEN Every[t] + jitter - loop.drift ELSE 0

\* _ready: what the channel is decides for a trigger that is not steady.
Ready(x, channel) == channel /\ talk[x] >= Needed[x]

ChannelAllows(x) == IF x \in Steady THEN {TRUE} ELSE BOOLEAN

Passed(x) == loop' = [loop EXCEPT !.left = @ \ {x}]

\* _fire: the lines are counted anew, and the expression runs.
Fire(x) ==
  /\ talk' = [talk EXCEPT ![x] = 0]
  /\ loop' = [loop EXCEPT !.left = @ \ {x}, !.at = "running", !.who = {x}, !.of = loop.at, !.nap = 0]

\* Mutant: the timer stays due while it runs.
DueStays(t, jitter) == due

\* Set before the run.
DueBeforeRun(t, jitter) == [due EXCEPT ![t] = Next_at(t, jitter)]

LookAtTimer(t) ==
  /\ loop.at = "timers" /\ t \in loop.left
  /\ \/ /\ due[t] = New /\ Passed(t)
        /\ \E jitter \in 0 .. Jitter[t] : due' = [due EXCEPT ![t] = Next_at(t, jitter)]
        /\ UNCHANGED talk
     \/ /\ due[t] # New /\ t \notin loop.ripe /\ Passed(t)
        /\ UNCHANGED <<due, talk>>
     \/ /\ t \in loop.ripe
        /\ \E channel \in ChannelAllows(t) :
             \/ /\ Ready(t, channel) /\ Fire(t)
                /\ \E jitter \in 0 .. Jitter[t] : due' = DueBeforeRun(t, jitter)
             \/ ~Ready(t, channel) /\ Passed(t) /\ UNCHANGED <<due, talk>>
  /\ UNCHANGED <<on, clock, handled, said>>

\* The enabled crons are read when the timers have been seen to.
Crons ==
  /\ loop.at = "timers" /\ loop.left = {}
  /\ loop' = [loop EXCEPT !.at = "crons", !.left = on \cap DOMAIN Schedule]
  /\ UNCHANGED <<on, due, talk, clock, handled, said>>

\* _cron_due marks the minute before it is known whether the cron is ready.
Marked(c, fires) == handled \cup {c}

LookAtCron(c) ==
  /\ loop.at = "crons" /\ c \in loop.left
  /\ \/ /\ Matches(c, Minute) /\ c \notin handled
        /\ \E channel \in ChannelAllows(c) :
             /\ handled' = Marked(c, Ready(c, channel))
             /\ \/ Ready(c, channel) /\ Fire(c) /\ said' = [said EXCEPT ![c] = "fired"]
                \/ ~Ready(c, channel) /\ Passed(c) /\ said' = [said EXCEPT ![c] = "held"] /\ UNCHANGED talk
     \/ /\ ~Matches(c, Minute) \/ c \in handled
        /\ Passed(c)
        /\ UNCHANGED <<talk, handled, said>>
  /\ UNCHANGED <<on, due, clock>>

Sleep ==
  /\ loop.at = "crons" /\ loop.left = {}
  /\ loop' = Asleep(1)
  /\ UNCHANGED <<on, due, talk, clock, handled, said>>

\* Mutant: a run that raises ends the task.
AfterRaiseGone == [Asleep(0) EXCEPT !.at = "gone"]

\* _loop: the tick is over, and the next one comes.
AfterRaise == Asleep(1)

\* The awaited run is over: the tick goes on, or is left by what was raised; a cancellation, such as that of a
\* web request that is shared with a command whose stage timed out, is no Exception, and ends the task.
RunEnds(how) ==
  /\ loop.at = "running"
  /\ loop' = CASE how = "done" -> [loop EXCEPT !.at = loop.of, !.who = {}, !.nap = 0]
               [] how = "raised" -> AfterRaise
               [] how = "cut" -> [Asleep(0) EXCEPT !.at = "cancelled"]
  /\ UNCHANGED <<on, due, talk, clock, handled, said>>

-----------------------------------------------------------------------------

\* A tick's time passes: the task sleeps, or awaits a run.
Pass ==
  /\ \/ loop.at = "asleep" /\ loop.nap > 0 /\ loop' = [loop EXCEPT !.nap = @ - 1]
     \/ loop.at = "cancelled" /\ UNCHANGED loop
     \/ loop.at = "running" /\ loop.nap < RunLasts /\ loop' = [loop EXCEPT !.nap = @ + 1, !.drift = @ + 1]
  /\ due' = [t \in Timer |-> IF due[t] > 0 THEN due[t] - 1 ELSE due[t]]
  /\ clock' = (clock + 1) % (Minutes * MinuteTicks)
  /\ IF clock' \div MinuteTicks = Minute
     THEN UNCHANGED <<handled, said>>
     ELSE handled' = {} /\ said' = [c \in Cron |-> "no"]
  /\ UNCHANGED <<on, talk>>

\* ChatActivity.saw_message: a line of a chatter.
Line ==
  /\ talk' = [x \in Trigger |-> IF talk[x] < Needed[x] THEN talk[x] + 1 ELSE talk[x]]
  /\ talk' # talk
  /\ UNCHANGED <<on, due, clock, handled, loop, said>>

\* set_enabled, once the service has loaded it.
SetEnabled(x) ==
  /\ x \notin Steady
  /\ on' = IF x \in on THEN on \ {x} ELSE on \cup {x}
  /\ UNCHANGED <<due, talk, clock, handled, loop, said>>

Scheduler ==
  \/ Tick \/ Crons \/ Sleep
  \/ \E t \in Timer : LookAtTimer(t)
  \/ \E c \in Cron : LookAtCron(c)

TimersNext ==
  \/ Scheduler
  \/ \E how \in {"done", "raised", "cut"} : RunEnds(how)
  \/ Pass \/ Line
  \/ \E x \in Trigger : SetEnabled(x)

\* The task goes on, awaited runs end and time passes.
TimersFairness ==
  /\ WF_timersVars(Scheduler) /\ WF_timersVars(\E how \in {"done", "raised", "cut"} : RunEnds(how)) /\ WF_timersVars(Pass)
-----------------------------------------------------------------------------

Runs(x) == loop.at = "running" /\ loop.who = {x}

\* A timer that may speak is run again and again, whatever the others do: a run that raises at every
\* try, one that takes its time, or a cron, never keeps it from its turn.  Only a run that is cut does.
KeepsRunning == \A t \in Timer \cap Steady : Needed[t] = 0 => []<>(Runs(t) \/ loop.at \in {"off", "cancelled"})

Fires(c) == loop.at = "crons" /\ loop'.at = "running" /\ loop'.who = {c}

\* A cron that may speak does so in each minute it names, though timers run before it and end the tick,
\* so long as their runs, once each in the minute, leave one tick of it.
FiresInItsMinute ==
  [][clock' \div MinuteTicks # Minute =>
       \A c \in Cron \cap Steady : Needed[c] = 0 /\ Matches(c, Minute) => said[c] = "fired" \/ loop.at = "cancelled"]_timersVars
=============================================================================
