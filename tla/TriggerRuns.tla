---------------------------- MODULE TriggerRuns ----------------------------
(***************************************************************************)
(* What sets a channel's triggers off besides the clock, and how they run: *)
(* chat lines and their watchers, notifications and the bot's own events   *)
(* (core/dispatch.py, core/bot_events.py), streams that go up and down     *)
(* (core/streams.py), the triggers each finds (triggers/service.py), and   *)
(* TriggerRunner.run with its cooldowns (triggers/runner.py).              *)
(*                                                                         *)
(* A member of Task is an asyncio task or a call of BotEvents.  What runs  *)
(* in a slot is one await here: CommandRuns has its inside.                *)
(***************************************************************************)
EXTENDS Watchers, FiniteSets

CONSTANTS
  Channel, Task, MaxSlots,
  Reaction,    \* sequence of the triggers, in the order of their ids: their type, the channel or "*" for a
               \* pack's, cooldowns in ticks, the least their event must have, and whether they are never turned off
  LeastHold,   \* MIN_CHANNEL_COOLDOWN_S of bot_online, in ticks
  LineInput,   \* the lines written: their channel, chatter, token, width, and what they pass for
  Budget       \* bound: how often each thing may happen, one of several; which lines, and where the pack is at first

ASSUME TriggerRunsAssumption ==
  /\ MaxSlots \in Nat \ {0} /\ LeastHold \in Nat
  /\ IsFiniteSet(Channel) /\ IsFiniteSet(Task)
  /\ Len(Reaction) \in Nat /\ DOMAIN Reaction = 1 .. Len(Reaction)
  /\ \A x \in DOMAIN Reaction : Reaction[x].hold \in Nat /\ Reaction[x].holdUser \in Nat
  /\ "*" \notin Channel /\ \A l \in LineInput : l.width \in Nat

VARIABLES
  joined,   \* channels that are active
  armed,    \* triggers that are enabled, by their index
  packOn,   \* channels where the pack is published and its module on
  open,     \* PyramidWatcher._open, per channel
  task,     \* per task, where it is
  fresh,    \* tasks that have not begun, in the order they were spawned
  lock,     \* _watch_locks: per channel its holder, then those that wait
  inside,   \* tasks that hold a slot
  waiting,  \* tasks that wait for one, oldest first
  held,     \* CooldownTracker: per trigger, channel and chatter ("" for the channel), ticks left
  streams,  \* StreamStatus.streams
  poll,     \* StreamPoller.poll, and the channels it asked about
  greeted,  \* BotEvents._online_before
  seen,     \* history: per channel, its lines
  told,     \* history: per channel, the triggers that were run and the watcher's events they were run for
  since,    \* history: per trigger and channel, ticks since a run of it last began
  left      \* what may still happen

queueVars == <<fresh, lock, inside, waiting>>
settingVars == <<joined, armed, packOn>>
streamVars == <<streams, poll>>
runVars == <<held, told, since>>
eventsVars == <<settingVars, open, task, queueVars, runVars, streamVars, greeted, seen, left>>

Index == DOMAIN Reaction

\* channel_cooldown_s
HoldOf(x) == IF Reaction[x].type = "bot_online" /\ Reaction[x].hold < LeastHold THEN LeastHold ELSE Reaction[x].hold

Someone == {l.who : l \in LineInput} \cup {Bot, "raider"}
Holds(k) == IF k[3] = "" THEN HoldOf(k[1]) ELSE Reaction[k[1]].holdUser
Keys == {k \in Index \X Channel \X ({""} \cup Someone) : Holds(k) > 0}

Ended == [kind |-> "none", at |-> "none", ch |-> "", type |-> "", ev |-> NoEvent, size |-> 0, found |-> <<>>, todo |-> <<>>]

EventsInit ==
  /\ left \in Budget
  /\ joined = Channel /\ armed = Index /\ packOn = left.pack
  /\ open = [c \in Channel |-> NoPyramid]
  /\ task = [t \in Task |-> Ended] /\ fresh = <<>>
  /\ lock = [c \in Channel |-> <<>>] /\ inside = {} /\ waiting = <<>>
  /\ held = [k \in Keys |-> 0] /\ since = [k \in Keys |-> Holds(k)]
  /\ streams = {} /\ poll = [at |-> "idle", wanted |-> {}] /\ greeted = FALSE
  /\ seen = [c \in Channel |-> <<>>] /\ told = [c \in Channel |-> <<>>]

-----------------------------------------------------------------------------
(* TriggerService: what applies where.                                     *)

\* of_type: the enabled triggers of a type, from some home.
OfType(home, type) == {x \in armed : Reaction[x].home = home /\ Reaction[x].type = type}

\* in_channel: a channel's own triggers, then those of the pack where it is on.
Homes(c) == {c} \cup (IF c \in packOn THEN {"*"} ELSE {})

ById(S) ==
  CHOOSE s \in [1 .. Cardinality(S) -> S] :
    /\ \A x \in S : \E i \in DOMAIN s : s[i] = x
    /\ \A i, j \in DOMAIN s : i < j => s[i] < s[j]

\* listeners_matching and event_triggers: a condition of the trigger's is that the event is large enough.
Matching(home, type, size) == {x \in OfType(home, type) : Reaction[x].least <= size}
Finds(c, type, size) ==
  ById(Matching(c, type, size)) \o (IF c \in packOn THEN ById(Matching("*", type, size)) ELSE <<>>)

-----------------------------------------------------------------------------
(* Tasks.                                                                  *)

Spend(what) == left[what] > 0 /\ left' = [left EXCEPT ![what] = @ - 1]

Free == {t \in Task : task[t].kind = "none"}
Work(kind, c, type, ev, size) ==
  [kind |-> kind, at |-> "fresh", ch |-> c, type |-> type, ev |-> ev, size |-> size, found |-> <<>>, todo |-> <<>>]

\* _spawn, of each of some works in turn.
Spawned(works) ==
  LET ids == CHOOSE f \in [DOMAIN works -> Free] : \A i, j \in DOMAIN works : f[i] = f[j] => i = j
  IN /\ task' = [t \in Task |-> IF \E i \in DOMAIN works : ids[i] = t
                                THEN works[CHOOSE i \in DOMAIN works : ids[i] = t] ELSE task[t]]
     /\ fresh' = fresh \o ids
     /\ UNCHANGED <<lock, inside, waiting>>

-----------------------------------------------------------------------------
(* What happens.                                                           *)

Row(l) == [who |-> l.who, token |-> l.token, width |-> l.width]
\* A line the watcher does not see, where all before it is forgotten.
Gap == [who |-> Bot, token |-> "", width |-> 0]

\* What a line sets off besides its event: the bot's own lines, and those of other bots, of ignored chatters
\* and those automod deletes, nothing.
OfLine(l) ==
  CASE l.who = Bot \/ l.as = "dropped" -> <<>>
    [] l.who # Bot /\ l.as = "command" -> <<Work("command", l.ch, "command", NoEvent, 0)>>
    [] OTHER -> <<Work("listen", l.ch, "listener", [NoEvent EXCEPT !.user = l.who], l.width)>>

\* _message, _watch: a channel without a trigger for the watcher's events is forgotten.
ChatLine(l) ==
  LET c == l.ch
      watched == \E home \in Homes(c) : OfType(home, "pyramid") # {}
      o == IF watched THEN Observe(open[c], Len(seen[c]) + 1, Row(l)) ELSE [open |-> NoPyramid, event |-> NoEvent]
      event == IF o.event = NoEvent THEN <<>> ELSE <<Work("watch", c, "pyramid", o.event, 0)>>
  IN /\ c \in joined /\ l \in left.allow /\ Spend("lines") /\ Cardinality(Free) >= 2
     /\ open' = [open EXCEPT ![c] = o.open]
     /\ seen' = [seen EXCEPT ![c] = Append(@, IF watched THEN Row(l) ELSE Gap)]
     /\ Spawned(event \o OfLine(l))
     /\ UNCHANGED <<settingVars, runVars, streamVars, greeted>>

\* handle, of a notification: a raid of some size.
Notification(c, size) ==
  /\ c \in joined /\ Spend("notices") /\ Free # {}
  /\ Spawned(<<Work("notice", c, "raid", [NoEvent EXCEPT !.user = "raider"], size)>>)
  /\ UNCHANGED <<settingVars, open, runVars, streamVars, greeted, seen>>

\* poll asks about the channels that are active; a request that fails says nothing.
PollBegins ==
  /\ poll.at = "idle" /\ Spend("polls")
  /\ IF joined = {} THEN streams' = {} /\ poll' = poll
     ELSE poll' = [at |-> "asked", wanted |-> joined] /\ streams' = streams
  /\ UNCHANGED <<settingVars, open, task, queueVars, runVars, greeted, seen>>

Changed(live) == (live \ streams) \cup ((streams \ live) \cap poll.wanted)

\* _apply: the changes, and the tasks of those whose channel is active still.
PollEnds(live, failed) ==
  LET heard == Changed(live) \cap joined
      works == {Work("stream", c, IF c \in live THEN "stream_online" ELSE "stream_offline", NoEvent, 0) : c \in heard}
  IN /\ poll.at = "asked" /\ live \subseteq poll.wanted
     /\ poll' = [at |-> "idle", wanted |-> {}]
     /\ IF failed THEN UNCHANGED <<streams, task, queueVars>>
        ELSE /\ Cardinality(Free) >= Cardinality(heard)
             /\ streams' = live
             /\ \E order \in [1 .. Cardinality(heard) -> works] :
                  /\ \A w \in works : \E i \in DOMAIN order : order[i] = w
                  /\ Spawned(order)
     /\ UNCHANGED <<settingVars, open, runVars, greeted, seen, left>>

\* BotEvents: a call that runs the triggers of one event after another.
BotCall(todo) ==
  \E t \in Free :
    /\ t = CHOOSE u \in Free : TRUE
    /\ task' = [task EXCEPT ![t] = [Work("bot", "", "", NoEvent, 0) EXCEPT !.at = "next", !.todo = todo]]
    /\ UNCHANGED queueVars

\* online: at the start, after an update, or when Twitch has the bot back.
Online(updated) ==
  /\ Spend("onlines") /\ Free # {}
  /\ \E order \in [1 .. Cardinality(joined) -> joined] :
       /\ \A c \in joined : \E i \in DOMAIN order : order[i] = c
       /\ LET types == IF updated /\ ~greeted THEN <<"bot_updated", "bot_online">> ELSE <<"bot_online">>
              n == Len(types)
          IN BotCall([i \in 1 .. n * Len(order) |-> <<order[(i - 1) \div n + 1], types[((i - 1) % n) + 1]>>])
  /\ greeted' = TRUE
  /\ UNCHANGED <<settingVars, open, runVars, streamVars, seen>>

\* A channel is joined, or the bot has become a moderator there or stopped being one.
OneEvent(c, type) ==
  /\ Spend("asked") /\ Free # {}
  /\ type = "bot_joined" <=> c \notin joined
  /\ joined' = joined \cup {c}
  /\ BotCall(<<<<c, type>>>>)
  /\ UNCHANGED <<armed, packOn, open, runVars, streamVars, greeted, seen>>

Parted(c) ==
  /\ c \in joined /\ Spend("changes") /\ joined' = joined \ {c}
  /\ UNCHANGED <<armed, packOn, open, task, queueVars, runVars, streamVars, greeted, seen>>

\* A trigger is turned off or on, and so is the pack's module in a channel.
Turned(x) ==
  /\ ~Reaction[x].steady /\ Spend("changes")
  /\ armed' = IF x \in armed THEN armed \ {x} ELSE armed \cup {x}
  /\ UNCHANGED <<joined, packOn, open, task, queueVars, runVars, streamVars, greeted, seen>>

ModuleTurned(c) ==
  /\ Spend("changes")
  /\ packOn' = IF c \in packOn THEN packOn \ {c} ELSE packOn \cup {c}
  /\ UNCHANGED <<joined, armed, open, task, queueVars, runVars, streamVars, greeted, seen>>

-----------------------------------------------------------------------------
(* Tasks.                                                                  *)

\* asyncio's Semaphore: a slot, or behind everyone who waits for one.
AskSlot(t, to) ==
  /\ IF waiting = <<>> /\ Cardinality(inside) < MaxSlots
     THEN inside' = inside \cup {t} /\ waiting' = waiting /\ task' = [task EXCEPT ![t] = [to EXCEPT !.at = "in"]]
     ELSE inside' = inside /\ waiting' = Append(waiting, t) /\ task' = [task EXCEPT ![t] = [to EXCEPT !.at = "waits"]]
  /\ UNCHANGED lock

\* Its Lock: the next of a channel's watcher events has its turn when this one is over.
Unlocked(t, now) ==
  LET c == task[t].ch IN
  IF task[t].kind # "watch" \/ lock[c] = <<>> THEN lock' = lock /\ task' = now
  ELSE /\ lock' = [lock EXCEPT ![c] = Tail(@)]
       /\ task' = IF Len(lock[c]) > 1 THEN [now EXCEPT ![lock[c][2]].at = "looks"] ELSE now

\* The slot is given to whoever waits longest.
GiveSlot(t, to) ==
  LET now == [task EXCEPT ![t] = to] IN
  /\ IF waiting = <<>> THEN inside' = inside \ {t} /\ waiting' = waiting
     ELSE inside' = (inside \ {t}) \cup {Head(waiting)} /\ waiting' = Tail(waiting)
  /\ Unlocked(t, IF waiting = <<>> THEN now ELSE [now EXCEPT ![Head(waiting)].at = "in"])

\* Given back and asked for again.
RegainSlot(t, to) ==
  /\ IF waiting = <<>> THEN inside' = inside /\ waiting' = waiting /\ task' = [task EXCEPT ![t] = [to EXCEPT !.at = "in"]]
     ELSE /\ inside' = (inside \ {t}) \cup {Head(waiting)} /\ waiting' = Append(Tail(waiting), t)
          /\ task' = [task EXCEPT ![t] = [to EXCEPT !.at = "waits"], ![Head(waiting)].at = "in"]
  /\ UNCHANGED lock

Found(t) == Finds(task[t].ch, task[t].type, task[t].size)

\* Mutant: the events of a channel's lines are run as they come.
UnderLockNoLock(t) == lock' = lock /\ task' = [task EXCEPT ![t].at = "looks"]

\* _watch_triggers: after those of the lines before it.
UnderLock(t) ==
  LET c == task[t].ch
  IN /\ lock' = [lock EXCEPT ![c] = Append(@, t)]
     /\ task' = [task EXCEPT ![t].at = IF lock[c] = <<>> THEN "looks" ELSE "locked"]

\* The oldest task that has not begun does.  What a line or an event finds is looked up before the slot; a
\* stream's task takes one even for nothing.
Begin(t) ==
  LET to == [task[t] EXCEPT !.found = Found(t)] IN
  /\ fresh # <<>> /\ t = Head(fresh) /\ fresh' = Tail(fresh)
  /\ CASE task[t].kind = "watch" -> UnderLock(t) /\ UNCHANGED <<inside, waiting>>
       [] task[t].kind \in {"command", "stream"} -> AskSlot(t, to)
       [] OTHER ->
            IF to.found # <<>> THEN AskSlot(t, to)
            ELSE task' = [task EXCEPT ![t] = Ended] /\ UNCHANGED <<lock, inside, waiting>>

\* With the lock, the triggers are looked up.
Look(t) ==
  LET to == [task[t] EXCEPT !.found = Found(t)] IN
  /\ task[t].at = "looks" /\ UNCHANGED fresh
  /\ IF to.found # <<>> THEN AskSlot(t, to)
     ELSE Unlocked(t, [task EXCEPT ![t] = Ended]) /\ UNCHANGED <<inside, waiting>>

\* bot_event: a channel without a trigger for it takes no slot.
NextEvent(t) ==
  /\ task[t].at = "next" /\ UNCHANGED fresh
  /\ LET todo == task[t].todo IN
     IF todo = <<>> THEN task' = [task EXCEPT ![t] = Ended] /\ UNCHANGED <<lock, inside, waiting>>
     ELSE LET found == Finds(todo[1][1], todo[1][2], 0)
              to == [task[t] EXCEPT !.todo = Tail(todo), !.ch = todo[1][1], !.type = todo[1][2], !.found = found]
          IN IF found # <<>> THEN AskSlot(t, to)
             ELSE task' = [task EXCEPT ![t] = to] /\ UNCHANGED <<lock, inside, waiting>>

\* Where a task goes when it has none to run any more.
After(t) == IF task[t].kind = "bot" THEN [task[t] EXCEPT !.at = "next", !.found = <<>>] ELSE Ended

\* A trigger has been run, or passed over: a watcher's event takes a slot for each, and the others one for all.
Onward(t) ==
  LET rest == IF task[t].found = <<>> THEN <<>> ELSE Tail(task[t].found) IN
  IF rest = <<>> THEN GiveSlot(t, After(t))
  ELSE IF task[t].kind = "watch" THEN RegainSlot(t, [task[t] EXCEPT !.found = rest])
  ELSE task' = [task EXCEPT ![t].found = rest, ![t].at = "in"] /\ UNCHANGED <<lock, inside, waiting>>

KeysOf(t) == Keys \cap ({Head(task[t].found)} \X {task[t].ch} \X {"", task[t].ev.user})

\* cooling
Cooling(t) == \E k \in KeysOf(t) : held[k] > 0

\* Mutant: a type's own least cooldown is not counted.
TakenOwn(t) == [k \in Keys |-> IF k \in KeysOf(t) /\ Reaction[k[1]].hold + Reaction[k[1]].holdUser > 0 THEN Holds(k) ELSE held[k]]

\* commit: a cooldown is taken before the run.
Taken(t) == [k \in Keys |-> IF k \in KeysOf(t) THEN Holds(k) ELSE held[k]]

\* run: a trigger that is cooling down is passed over.
Turn(t) ==
  /\ task[t].at = "in" /\ UNCHANGED fresh
  /\ IF task[t].kind = "command"
     THEN task' = [task EXCEPT ![t].at = "running"] /\ UNCHANGED <<lock, inside, waiting, runVars>>
     ELSE IF task[t].found = <<>> \/ Cooling(t) THEN Onward(t) /\ UNCHANGED runVars
     ELSE /\ task' = [task EXCEPT ![t].at = "running"] /\ held' = Taken(t)
          /\ since' = [k \in Keys |-> IF k \in KeysOf(t) THEN 0 ELSE since[k]]
          /\ told' = IF task[t].kind = "watch"
                     THEN [told EXCEPT ![task[t].ch] = Append(@, <<Head(task[t].found), task[t].ev>>)] ELSE told
          /\ UNCHANGED <<lock, inside, waiting>>

\* What is raised ends the task; of the bot's own events, only that one.
Over(t, raised) ==
  /\ task[t].at = "running" /\ UNCHANGED <<fresh, runVars>>
  /\ IF raised THEN Spend("raises") /\ GiveSlot(t, After(t)) ELSE Onward(t) /\ UNCHANGED left

Steps(t) ==
  \/ (Begin(t) \/ Look(t) \/ NextEvent(t)) /\ UNCHANGED <<runVars, left>>
  \/ Turn(t) /\ UNCHANGED left
  \/ \E raised \in BOOLEAN : Over(t, raised)

TimePasses ==
  /\ held' = [k \in Keys |-> IF held[k] > 0 THEN held[k] - 1 ELSE 0]
  /\ since' = [k \in Keys |-> IF since[k] < Holds(k) THEN since[k] + 1 ELSE since[k]]
  /\ UNCHANGED <<settingVars, open, task, queueVars, told, streamVars, greeted, seen, left>>

EventsNext ==
  \/ \E l \in LineInput : ChatLine(l)
  \/ \E c \in Channel : \E size \in {0, 1} : Notification(c, size)
  \/ PollBegins
  \/ \E live \in SUBSET Channel : \E failed \in BOOLEAN : PollEnds(live, failed)
  \/ \E updated \in BOOLEAN : Online(updated)
  \/ \E c \in Channel : \E type \in {"bot_joined", "bot_modded", "bot_unmodded"} : OneEvent(c, type)
  \/ \E c \in Channel : Parted(c) \/ ModuleTurned(c)
  \/ \E x \in Index : Turned(x)
  \/ \E t \in Task : Steps(t) /\ UNCHANGED <<settingVars, open, streamVars, greeted, seen>>
  \/ TimePasses

-----------------------------------------------------------------------------
(* Properties.                                                             *)

TalesToTell(c) == {t \in Task : task[t].kind = "watch" /\ task[t].ch = c}
\* Nothing comes before it, and nothing holds it.
Unhindered(c, x) ==
  /\ Reaction[x].type = "pyramid" /\ Reaction[x].home = c /\ Reaction[x].steady /\ Reaction[x].least = 0
  /\ Holds(<<x, c, "">>) + Reaction[x].holdUser = 0
  /\ \A y \in 1 .. x - 1 : Reaction[y].type # "pyramid"

\* One of a channel's events is told at a time.
OneAtATime(c) == \A t, u \in TalesToTell(c) : task[t].at = "running" /\ task[u].at = "running" => t = u

\* What a trigger is run for tells a channel's pyramids as its lines built them, one event after another and in
\* their order, however tasks, slots and other triggers come in between; one that stays on misses none.
TalesInOrder ==
  \A c \in Channel :
    /\ OneAtATime(c)
    /\ \A i \in DOMAIN told[c] : LET e == told[c][i][2] IN
         /\ e \in Tale(seen[c], e.line)
         /\ \A j \in 1 .. i - 1 : told[c][j][1] = told[c][i][1] => told[c][j][2].line < e.line
    /\ \A x \in Index : Unhindered(c, x) /\ TalesToTell(c) = {} =>
         \A i \in DOMAIN seen[c] : Tale(seen[c], i) # {} =>
           \E j \in DOMAIN told[c] : told[c][j][1] = x /\ told[c][j][2].line = i

Starts(t, x) ==
  /\ task[t].kind # "command" /\ task[t].at = "in" /\ task'[t].at = "running"
  /\ task[t].found # <<>> /\ Head(task[t].found) = x

\* Runs of one trigger begin no closer than its cooldowns, of the channel and of the chatter, and those that say
\* the bot is back no closer than a quarter of an hour, however many lines or returns come at once.
CooledApart ==
  [][\A t \in Task, x \in Index : Starts(t, x) =>
       \A k \in KeysOf(t) :
         since[k] >= (IF k[3] = "" THEN Reaction[x].hold ELSE Reaction[x].holdUser)
         /\ (k[3] = "" /\ Reaction[x].type = "bot_online" => since[k] >= LeastHold)]_eventsVars

=============================================================================
