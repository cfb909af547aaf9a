--------------------------- MODULE MCCommandRuns ----------------------------
(* Two lines of one chatter over two slots.  `roll` has a cooldown for the   *)
(* role, `join` one for the chatter; the lines have stages that act, write,  *)
(* join (and then hold one slot while they ask for another) and fall back,   *)
(* and a callback answers a refusal.                                         *)
EXTENDS CommandRuns

CONSTANTS r1, r2, ann, everyone

MCUserOf == [r \in Run |-> ann]
MCTierOf == [r \in Run |-> everyone]
\* A cooldown for the role on `roll`, and one for the chatter on `join`.
MCRule == [c \in Cmd |-> IF c = "roll" THEN [tier |-> 2, user |-> 0]
                         ELSE IF c = "join" THEN [tier |-> 0, user |-> 1] ELSE [tier |-> 0, user |-> 0]]

S(c, k, o) == [cmd |-> c, kind |-> k, on |-> o]

\* One rolls, then joins; the other rolls and writes, and joins when that fails.
MCLineOf == [r \in Run |->
  IF r = r1 THEN <<S("roll", "act", "and"), S("join", "join", "and")>>
  ELSE <<S("roll", "write", "and"), S("join", "join", "or")>>]

MCCallbackLine == <<S("echo", "plain", "and")>>
MCCallbacks == {<<"roll", "on_cooldown">>, <<"join", "on_denied">>}
=============================================================================
