----------------------------- MODULE Schedules -----------------------------
(***************************************************************************)
(* Cron schedules (triggers/cron.py).  A schedule is five fields, and a    *)
(* field the chunks of its list: `*`, a value or a range, each with a      *)
(* step.  Names such as `fri` are their numbers.                           *)
(***************************************************************************)
EXTENDS Integers, FiniteSets

Low == [minute |-> 0, hour |-> 0, day |-> 1, month |-> 1, weekday |-> 0]
High == [minute |-> 59, hour |-> 23, day |-> 31, month |-> 12, weekday |-> 6]

Star == [all |-> TRUE, first |-> 0, last |-> 0, step |-> 1]
Chunk(first, last, step) == [all |-> FALSE, first |-> first, last |-> last, step |-> step]
One(value) == Chunk(value, value, 1)

\* _value: both 0 and 7 mean Sunday.
Value(field, v) == IF field = "weekday" /\ v = 7 THEN 0 ELSE v

First(field, chunk) == IF chunk.all THEN Low[field] ELSE Value(field, chunk.first)
Final(field, chunk) == IF chunk.all THEN High[field] ELSE Value(field, chunk.last)

\* _field: the values it names; what is past Saturday starts again on Sunday.
Values(field, chunks) ==
  LET named(c) == {v \in First(field, c) .. Final(field, c) : (v - First(field, c)) % c.step = 0}
      found == UNION {named(c) : c \in chunks}
  IN IF field = "weekday" THEN {v % 7 : v \in found} ELSE found

\* What is refused: a step of nothing, a range that counts backwards, a value the field has not.
RefusedField(field, chunks) ==
  \/ \E c \in chunks : c.step < 1 \/ Final(field, c) < First(field, c)
  \/ ~(Values(field, chunks) \subseteq Low[field] .. High[field])

RefusedCron(fields) == \E field \in DOMAIN Low : RefusedField(field, fields[field])

\* parse_cron, of one that is not refused.
ParseCron(fields) ==
  [named |-> [field \in DOMAIN Low |-> Values(field, fields[field])],
   day |-> fields.day # {Star},
   weekday |-> fields.weekday # {Star}]

\* Cron.matches: with both days given, either is enough.
MatchesAt(cron, when) ==
  LET ok(field) == when[field] \in cron.named[field]
  IN /\ ok("minute") /\ ok("hour") /\ ok("month")
     /\ IF cron.day /\ cron.weekday THEN ok("day") \/ ok("weekday") ELSE ok("day") /\ ok("weekday")

=============================================================================
