------------------------------- MODULE Coverage -------------------------------
(***************************************************************************)
(* What the chat log claims to have heard.  The Twitch client and its      *)
(* watchdog (twitch/client.py), the tasks that start it and start it again *)
(* (start_twitch and restart_twitch, __main__.py), the sessions and the    *)
(* queue of the chat log (chatlog/writer.py) and the gaps the backfill     *)
(* asks for (history/backfill.py), for one joined channel.                 *)
(*                                                                         *)
(* One chat line is sent in the channel at every tick, so a line is the    *)
(* time it was sent at, and the lines nobody stored or queued were missed. *)
(***************************************************************************)
EXTENDS Integers, Sequences, FiniteSets, FiniteSetsExt

CONSTANTS
  MaxTime,    \* bound: how long the system runs
  MaxRows,    \* bound: how many sessions it opens
  DeafAfter,  \* checks in a row that find the client deaf before it is started again
  MinGap,     \* MIN_GAP_MS, in ticks
  Grace,      \* GAP_GRACE_MS, in ticks; a tick is the time in which lines are flushed
  Open        \* ended_at and end_reason of a session that is not over

ASSUME CoverageAssumption ==
  /\ MaxTime \in Nat /\ MaxRows \in Nat /\ MinGap \in Nat
  /\ DeafAfter \in Nat \ {0} /\ Grace \in Nat \ {0}
  /\ Open \notin Nat \cup {"restart", "shutdown", "unclean_shutdown"}

VARIABLES
  now,      \* the time
  proc,     \* the process: down, up, or closing between the steps of its shutdown
  client,   \* TwitchClient.client and what has become of its connection
  misses,   \* the watchdog's count
  heardAt,  \* TwitchClient.heard_at
  starter,  \* where start_twitch is
  restart,  \* where restart_twitch is
  rows,     \* log_sessions
  mine,     \* ChatLogWriter._sessions: the row of the channel's session, 0 for none
  queued,   \* lines in the writer's queue
  stored,   \* lines in `messages`
  lost,     \* history: lines sent while the process was down, or queued when it crashed
  lastHeard,\* history: when the client last heard chat
  carried   \* history: the session was open before this client was started

vars == <<now, proc, client, misses, heardAt, starter, restart, rows, mine, queued, stored,
          lost, lastHeard, carried>>
clientVars == <<client, misses, heardAt>>
logVars == <<rows, mine, queued, stored>>
historyVars == <<lost, lastHeard, carried>>

Init ==
  /\ now = 0 /\ proc = "down"
  /\ client = "none" /\ misses = 0 /\ heardAt = 0
  /\ starter = "none" /\ restart = "none"
  /\ rows = <<>> /\ mine = 0 /\ queued = {} /\ stored = {}
  /\ lost = {} /\ lastHeard = 0 /\ carried = FALSE

-----------------------------------------------------------------------------
(* The chat log. *)

Row(i, at, why) == [rows[i] EXCEPT !.end = at, !.reason = why]

\* Mutant: at the time of the call.
EndSessionNow(at, why) ==
  /\ rows' = IF mine = 0 THEN rows ELSE [rows EXCEPT ![mine] = Row(mine, now, why)]
  /\ mine' = 0

\* end_session.
EndSession(at, why) ==
  /\ rows' = IF mine = 0 THEN rows ELSE [rows EXCEPT ![mine] = Row(mine, at, why)]
  /\ mine' = 0

\* Mutant: at the start that finds it.
StaleEndNow(i) == now

\* Where close_stale_sessions ends a session nobody ended: at the last line stored in
\* it, before the next session, or where it began.
StaleEnd(i) ==
  LET heard == {t \in stored : /\ t >= rows[i].start
                               /\ \A j \in DOMAIN rows : rows[j].start > rows[i].start
                                                           => t < rows[j].start}
  IN IF heard = {} THEN rows[i].start ELSE Max(heard)

\* The session before and the session after each interruption.
Interruptions == {i \in 1 .. Len(rows) - 1 : rows[i].end # Open}
Length(i) == rows[i + 1].start - rows[i].end

\* gaps_between and fill_many: the ranges asked of the history service.
Requested ==
  {<<rows[i].end - Grace, rows[i + 1].start>> :
     i \in {j \in Interruptions : Length(j) >= MinGap}}

\* The writer's queue is flushed.
Flush ==
  /\ proc # "down" /\ queued # {}
  /\ stored' = stored \cup queued /\ queued' = {}
  /\ UNCHANGED <<now, proc, starter, restart, rows, mine>>
  /\ UNCHANGED <<clientVars, historyVars>>

-----------------------------------------------------------------------------
(* start_twitch, one step from await to await. *)

\* TwitchClient.start: the client there was is stopped, and a new one logs in.
Begin ==
  /\ proc # "down" /\ starter = "begin"
  /\ starter' = "login"
  /\ client' = "login" /\ misses' = 0 /\ heardAt' = now
  /\ carried' = (mine # 0)
  /\ UNCHANGED <<now, proc, restart, lost, lastHeard>> /\ UNCHANGED logVars

LogIn ==
  /\ starter = "login"
  /\ client' = "started" /\ starter' = "subscribe"
  /\ UNCHANGED <<now, proc, misses, heardAt, restart>> /\ UNCHANGED <<logVars, historyVars>>

\* client.login() raises: start_twitch logs it and ends.  The client has no task and no
\* watchdog yet.
FailLogIn ==
  /\ starter = "login"
  /\ client' = "unwatched" /\ starter' = "none"
  /\ UNCHANGED <<now, proc, misses, heardAt, restart>> /\ UNCHANGED <<logVars, historyVars>>

\* subscribe_all: chat reaches the client, if it is still there.
Subscribe ==
  /\ starter = "subscribe"
  /\ IF client = "started"
     THEN client' = "hearing" /\ lastHeard' = now /\ starter' = "session"
     ELSE UNCHANGED <<client, lastHeard>> /\ starter' = "none"
  /\ UNCHANGED <<now, proc, misses, heardAt, restart, lost, carried>> /\ UNCHANGED logVars

\* Twitch refuses the subscription: no session, and a client that hears nothing.
FailSubscribe ==
  /\ starter = "subscribe" /\ client = "started"
  /\ client' = "deaf" /\ starter' = "none"
  /\ UNCHANGED <<now, proc, misses, heardAt, restart>> /\ UNCHANGED <<logVars, historyVars>>

\* Mutant: a second session is opened for a channel that has one.
StartSessionAgain ==
  /\ starter = "session" /\ starter' = "none"
  /\ rows' = Append(rows, [start |-> now, end |-> Open, reason |-> Open])
  /\ mine' = Len(rows) + 1
  /\ UNCHANGED <<now, proc, restart, queued, stored>> /\ UNCHANGED <<clientVars, historyVars>>

\* start_session, unless the channel has one.
StartSession ==
  /\ starter = "session" /\ starter' = "none"
  /\ IF mine = 0
     THEN /\ Len(rows) < MaxRows
          /\ rows' = Append(rows, [start |-> now, end |-> Open, reason |-> Open])
          /\ mine' = Len(rows) + 1
     ELSE UNCHANGED <<rows, mine>>
  /\ carried' = (carried /\ mine # 0)
  /\ UNCHANGED <<now, proc, restart, queued, stored, lost, lastHeard>> /\ UNCHANGED clientVars

\* /auth/callback for the bot's account: start_twitch, with the sessions as they are.
\* One start at a time: two that overlap are not modelled.
Authorize ==
  /\ proc = "up" /\ starter = "none"
  /\ starter' = "begin"
  /\ UNCHANGED <<now, proc, restart>> /\ UNCHANGED <<clientVars, logVars, historyVars>>

-----------------------------------------------------------------------------
(* The client stops hearing. *)

\* An EventSub socket closes for good, and TwitchIO says nothing.
GoDeaf ==
  /\ client = "hearing" /\ client' = "deaf"
  /\ UNCHANGED <<now, proc, misses, heardAt, starter, restart>>
  /\ UNCHANGED <<logVars, historyVars>>

\* client.start() returns or raises: _run asks for a restart.
StopByItself ==
  /\ client \in {"started", "hearing", "deaf"} /\ restart = "none"
  /\ client' = "ended" /\ restart' = "asked"
  /\ UNCHANGED <<now, proc, misses, heardAt, starter>> /\ UNCHANGED <<logVars, historyVars>>

\* A check of the watchdog.  It returns once it has asked for a restart.
Watch ==
  /\ client \in {"started", "hearing", "deaf"} /\ restart = "none"
  /\ misses < DeafAfter
  /\ IF client = "deaf"
     THEN /\ misses' = misses + 1
          /\ restart' = IF misses' = DeafAfter THEN "asked" ELSE "none"
          /\ UNCHANGED heardAt
     ELSE misses' = 0 /\ heardAt' = now /\ UNCHANGED restart
  /\ UNCHANGED <<now, proc, client, starter>> /\ UNCHANGED <<logVars, historyVars>>

\* restart_twitch: the sessions end when the client last heard chat.
EndForRestart ==
  /\ restart = "asked" /\ restart' = "sleeping"
  /\ EndSession(heardAt, "restart")
  /\ UNCHANGED <<now, proc, starter, queued, stored>> /\ UNCHANGED <<clientVars, historyVars>>

\* Its backoff is over: start_twitch.
Restart ==
  /\ restart = "sleeping" /\ starter = "none"
  /\ restart' = "none" /\ starter' = "begin"
  /\ UNCHANGED <<now, proc>> /\ UNCHANGED <<clientVars, logVars, historyVars>>

-----------------------------------------------------------------------------
(* The process. *)

\* A start: the sessions the last process left open are closed first.
Boot ==
  /\ proc = "down"
  /\ proc' = "up" /\ starter' = "begin"
  /\ rows' = [i \in DOMAIN rows |->
                IF rows[i].end = Open THEN Row(i, StaleEnd(i), "unclean_shutdown") ELSE rows[i]]
  /\ UNCHANGED <<now, restart, mine, queued, stored>> /\ UNCHANGED <<clientVars, historyVars>>

\* Memory is gone.
Gone ==
  /\ proc' = "down" /\ client' = "none" /\ starter' = "none" /\ restart' = "none"
  /\ misses' = 0 /\ heardAt' = 0 /\ mine' = 0 /\ queued' = {}
  /\ lastHeard' = 0 /\ carried' = FALSE

\* A shutdown ends the sessions, stops the client, and drains the writer's queue.
Close ==
  /\ proc = "up" /\ proc' = "closing"
  /\ EndSession(now, "shutdown")
  /\ UNCHANGED <<now, starter, restart, queued, stored>> /\ UNCHANGED <<clientVars, historyVars>>

Exit ==
  /\ proc = "closing"
  /\ stored' = stored \cup queued
  /\ Gone
  /\ UNCHANGED <<now, rows, lost>>

\* Killed, or crashed.
Crash ==
  /\ proc # "down"
  /\ lost' = lost \cup queued
  /\ Gone
  /\ UNCHANGED <<now, rows, stored>>

\* Time passes, and a line is sent.  A restart that was asked for begins at once, and
\* lines are flushed within a tick.
Tick ==
  /\ now < MaxTime /\ now' = now + 1
  /\ restart # "asked" /\ queued \subseteq {now}
  /\ queued' = IF client = "hearing" THEN queued \cup {now'} ELSE queued
  /\ lastHeard' = IF client = "hearing" THEN now' ELSE lastHeard
  /\ lost' = IF proc = "down" THEN lost \cup {now'} ELSE lost
  /\ UNCHANGED <<proc, starter, restart, rows, mine, stored, carried>> /\ UNCHANGED clientVars

Starting == Begin \/ LogIn \/ FailLogIn \/ Subscribe \/ FailSubscribe \/ StartSession
Restarting == StopByItself \/ Watch \/ EndForRestart \/ Restart
Next ==
  \/ Starting \/ Restarting \/ Authorize \/ GoDeaf
  \/ Flush \/ Boot \/ Close \/ Exit \/ Crash \/ Tick

Spec == Init /\ [][Next]_vars

\* Tasks are resumed, the watchdog checks, and Twitch does not refuse forever a client
\* that keeps asking.
FairSpec ==
  /\ Spec
  /\ WF_vars(Starting) /\ WF_vars(Watch) /\ WF_vars(EndForRestart) /\ WF_vars(Restart)
  /\ SF_vars(LogIn) /\ SF_vars(Subscribe /\ client = "started")

-----------------------------------------------------------------------------
(* Properties. *)

Time == 0 .. MaxTime

\* Every variable has its type.
TypeOK ==
  /\ now \in Time /\ heardAt \in Time /\ lastHeard \in Time
  /\ proc \in {"down", "up", "closing"}
  /\ client \in {"none", "login", "unwatched", "started", "hearing", "deaf", "ended"}
  /\ misses \in 0 .. DeafAfter
  /\ starter \in {"none", "begin", "login", "subscribe", "session"}
  /\ restart \in {"none", "asked", "sleeping"}
  /\ rows \in Seq([start : Time, end : Time \cup {Open},
                   reason : {Open, "restart", "shutdown", "unclean_shutdown"}])
  /\ mine \in 0 .. Len(rows)
  /\ queued \subseteq Time /\ stored \subseteq Time /\ lost \subseteq Time
  /\ carried \in BOOLEAN

\* While the bot runs, the one session without an end is the one the writer will end:
\* whatever crashed, restarted or overlapped, no session is left open for good.
OpenIsMine == proc # "down" => {i \in DOMAIN rows : rows[i].end = Open} = {mine} \ {0}

\* A line sent while the process was down, or still queued when it crashed, is asked
\* for as soon as there is a session before it and one after it, unless the
\* interruption is too short to ask for (ADR-0008).
LostLinesRequested ==
  \A t \in lost :
    (\E i, j \in DOMAIN rows : rows[i].start < t /\ t <= rows[j].start) =>
      \/ \E range \in Requested : range[1] <= t /\ t <= range[2]
      \/ \E i \in Interruptions :
           Length(i) < MinGap /\ rows[i].end <= t + Grace /\ t <= rows[i + 1].start

\* A session that ends because the client does ends no later than chat was last heard,
\* so what was missed after it is in the gap behind it.
RestartEndsInTime ==
  [][mine # 0 /\ mine' = 0 /\ rows'[mine].reason = "restart" /\ ~carried
       => rows'[mine].end <= lastHeard]_vars

=============================================================================
