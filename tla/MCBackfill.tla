----------------------------- MODULE MCBackfill -----------------------------
(* Backfill: a gap of two messages, the later of which is heard live when the bot is back, *)
(* and a clearing at the same time on the next page.                                       *)
EXTENDS Backfill

CONSTANTS m1, m2, ann, bob

MCUserOf == (m1 :> ann) @@ (m2 :> bob)
MCSentAt == (m1 :> 3) @@ (m2 :> 2)
Said(m) == [kind |-> "message", msg |-> m]
MCLive == {Said(m1), [kind |-> "delete", msg |-> m1, at |-> 3]}
MCArchive == <<Said(m2), Said(m1), [kind |-> "clear", user |-> bob, at |-> 3]>>
MCGap == {[from |-> 2, to |-> 3]}
=============================================================================
