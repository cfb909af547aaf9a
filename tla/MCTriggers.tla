---------------------------- MODULE MCTriggers ----------------------------
EXTENDS Triggers, TLC

CONSTANTS t1, t2, c1, c2, c3

MCEvery == (t1 :> 8) @@ (t2 :> 8)
MCJitter == (t1 :> 0) @@ (t2 :> 1)
MCNeeded == (t1 :> 0) @@ (t2 :> 1) @@ (c1 :> 0) @@ (c2 :> 0) @@ (c3 :> 0)

\* Thursday 31 December, 23:59, and the minute after it.
MCLocal ==
  (0 :> [minute |-> 59, hour |-> 23, day |-> 31, month |-> 12, weekday |-> 4]) @@
  (1 :> [minute |-> 0, hour |-> 0, day |-> 1, month |-> 1, weekday |-> 5])

\* `*/15 0-6/2 13 * fri`, of the days either is enough; `0 0 * jan,jul *`; and `0 18 * * fri-7`, which
\* counts backwards.
MCWritten ==
  LET any == {Star} IN
  (c1 :> [minute |-> {[Star EXCEPT !.step = 15]}, hour |-> {Chunk(0, 6, 2)}, day |-> {One(13)}, month |-> any,
          weekday |-> {One(5)}]) @@
  (c2 :> [minute |-> {One(0)}, hour |-> {One(0)}, day |-> any, month |-> {One(1), One(7)}, weekday |-> any]) @@
  (c3 :> [minute |-> {One(0)}, hour |-> {One(18)}, day |-> any, month |-> any, weekday |-> {Chunk(5, 7, 1)}])

-----------------------------------------------------------------------------

MCChannel == {"north", "south"}

Is(type, home) == [type |-> type, home |-> home, hold |-> 0, holdUser |-> 0, least |-> 0, steady |-> TRUE]

\* Two channels' triggers for pyramids and one of a pack's, listeners and the rest, with cooldowns and without.
MCReaction ==
  <<Is("pyramid", "north"),
    [Is("pyramid", "south") EXCEPT !.steady = FALSE],
    [Is("pyramid", "*") EXCEPT !.holdUser = 1],
    [Is("listener", "north") EXCEPT !.hold = 1, !.least = 1],
    [Is("listener", "north") EXCEPT !.holdUser = 1],
    [Is("raid", "north") EXCEPT !.least = 1],
    Is("stream_online", "north"), Is("stream_offline", "south"),
    Is("bot_online", "north"), [Is("bot_online", "*") EXCEPT !.steady = FALSE],
    Is("bot_updated", "south"), Is("bot_joined", "south"), Is("bot_modded", "north")>>

Says(c, who, width, as) == [ch |-> c, who |-> who, token |-> "LUL", width |-> width, as |-> as]
Nothing == [clock |-> FALSE, pack |-> {}, allow |-> {},
            lines |-> 0, notices |-> 0, polls |-> 0, onlines |-> 0, asked |-> 0, changes |-> 0, raises |-> 0]
Tower == {Says("north", "ann", w, "dropped") : w \in 1 .. 3}
         \cup {Says("north", "bob", 1, "dropped"), Says("north", "bot", 0, "chat")}
Tokens == {Says("north", "ann", w, "dropped") : w \in 1 .. 2}
          \cup {[Says("north", "ann", 2, "dropped") EXCEPT !.token = "Kappa"], Says("north", "bob", 0, "command")}
Chatting == {Says("north", "bob", 1, "chat"), Says("north", "ann", 0, "chat"), Says("north", "bob", 0, "command")}
South == {Says("south", "ann", w, "dropped") : w \in 1 .. 2}
MCLineInput == Tower \cup Tokens \cup Chatting \cup South

MCBudget ==
  {[Nothing EXCEPT !.clock = TRUE],
   [Nothing EXCEPT !.allow = Tower, !.lines = 5],
   [Nothing EXCEPT !.allow = Tokens, !.lines = 4, !.raises = 1, !.pack = {"north"}],
   [Nothing EXCEPT !.allow = South, !.lines = 5, !.changes = 1],
   [Nothing EXCEPT !.allow = Chatting, !.lines = 2, !.notices = 1],
   [Nothing EXCEPT !.polls = 2, !.changes = 1, !.notices = 1],
   [Nothing EXCEPT !.onlines = 2, !.asked = 1],
   [Nothing EXCEPT !.onlines = 1, !.asked = 1, !.raises = 1, !.pack = MCChannel]}
=============================================================================
