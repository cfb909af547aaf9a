------------------------------ MODULE Watchers ------------------------------
(***************************************************************************)
(* PyramidWatcher (watchers/pyramid.py): what it makes of a channel's      *)
(* lines, one at a time, and the same said of all of them at once.         *)
(* A line is who wrote it, and the token it repeats `width` times; width 0 *)
(* is a line that is not one token repeated.  An event names its pyramid   *)
(* by the line of its first row.                                           *)
(***************************************************************************)
EXTENDS Integers, Sequences

CONSTANT Bot   \* who the bot's own lines are of

NoPyramid == [id |-> 0, builder |-> Bot, token |-> "", width |-> 0, peak |-> 0, falling |-> FALSE]
NoEvent == [line |-> 0, id |-> 0, phase |-> "none", width |-> 0, user |-> Bot]

\* _event: the run's chatter is the builder, and on `broken` the breaker.
Event(p, n, phase, width, user) == [line |-> n, id |-> p.id, phase |-> phase, width |-> width, user |-> user]

\* _start: the bot never builds one.
Started(n, l) ==
  IF l.width = 1 /\ l.who # Bot
  THEN [id |-> n, builder |-> l.who, token |-> l.token, width |-> 1, peak |-> 1, falling |-> FALSE]
  ELSE NoPyramid

\* observe: the pyramid p of the channel, and its n-th line.
Observe(p, n, l) ==
  LET same == p # NoPyramid /\ l.who = p.builder /\ l.width > 0 /\ l.token = p.token
      rises == same /\ ~p.falling /\ l.width = p.width + 1
      falls == same /\ p.peak >= 2 /\ l.width = p.width - 1
      up == [p EXCEPT !.width = l.width, !.peak = l.width]
      down == [p EXCEPT !.width = l.width, !.falling = TRUE]
  IN CASE rises -> [open |-> up, event |-> Event(p, n, "up", l.width, p.builder)]
       [] falls /\ l.width = 1 -> [open |-> NoPyramid, event |-> Event(p, n, "complete", 1, p.builder)]
       [] falls /\ l.width > 1 -> [open |-> down, event |-> Event(p, n, "down", l.width, p.builder)]
       [] OTHER -> [open |-> Started(n, l),
                    event |-> IF p.peak >= 2 THEN Event(p, n, "broken", p.width, l.who) ELSE NoEvent]

-----------------------------------------------------------------------------
(* The same, of all the lines.                                             *)

\* Lines j to i are one chatter's rows of one token, up to a peak and then down from it.
Stands(lines, j, peak, i) ==
  \A k \in j .. i :
    /\ lines[k].who = lines[j].who /\ lines[k].token = lines[j].token
    /\ lines[k].width > 0
    /\ lines[k].width = IF k <= peak THEN k - j + 1 ELSE peak - j + 1 - (k - peak)
    /\ k > peak => peak > j
Rows(lines, j, i) == \E peak \in j .. i : Stands(lines, j, peak, i)

\* The lines pyramids begin at: every row of one that is not the last row of another.
AreFirsts(lines, first) ==
  \A j \in 1 .. Len(lines) :
    j \in first <=> /\ lines[j].width = 1 /\ lines[j].who # Bot
                    /\ \A k \in first : k < j => ~Rows(lines, k, j)
Firsts(lines) == CHOOSE first \in SUBSET (1 .. Len(lines)) : AreFirsts(lines, first)

Unfinished(lines, j, i) == Rows(lines, j, i) /\ (i = j \/ lines[i].width > 1)

\* What there is to tell of line i.
Tale(lines, i) ==
  LET part == {j \in Firsts(lines) : j < i /\ Rows(lines, j, i)}
      ruined == {j \in Firsts(lines) : j < i - 1 /\ Unfinished(lines, j, i - 1) /\ ~Rows(lines, j, i)}
      what(j) == IF lines[i].width = 1 THEN "complete"
                 ELSE IF lines[i].width > lines[i - 1].width THEN "up" ELSE "down"
  IN {[line |-> i, id |-> j, phase |-> what(j), width |-> lines[i].width, user |-> lines[j].who] : j \in part}
     \cup {[line |-> i, id |-> j, phase |-> "broken", width |-> lines[i - 1].width, user |-> lines[i].who]
           : j \in ruined}

=============================================================================
