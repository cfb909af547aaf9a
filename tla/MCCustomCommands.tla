--------------------------- MODULE MCCustomCommands ---------------------------
(* Alice moderates and is the bot's admin, Bob only chats.  Each theme has its own first tables and calls. *)
EXTENDS CustomCommands

CONSTANTS alice, bob, hit, deal, say, bot, c1, c2, c3, c4, p1, p2, here

Alike == Permutations(Call)

Plain(n) == [name |-> n, own |-> FALSE]
Mine(n) == [name |-> n, own |-> TRUE]

Empty == <<>>
Hits == <<Plain(say), Plain(hit)>>
Deals == <<Plain(deal), Mine(hit)>>

MCBody == {Empty, Hits, Deals}
MCAccepted(b) == b # Deals

With(t, c, u, n, b) == [Created(t, [cmd |-> c, user |-> u, name |-> n, body |-> b]) EXCEPT !.cmd[c].shared = TRUE]
WithPack(t, k, u, n) == [t EXCEPT !.pack[k] = NewPack(u, n)]

MCFirstTables(th) ==
  LET Blank ==
        [cmd |-> [c \in Command |-> None], body |-> [c \in Command |-> <<>>],
         link |-> [l \in User \X Name |-> None], pub |-> [p \in Scope \X Name |-> None],
         pack |-> [k \in Pack |-> None], member |-> [m \in Pack \X Command |-> None], offer |-> {}, grant |-> {}]
      \* hit, published everywhere with a body that the filter has come to refuse.
      One == Publish(With(Blank, c1, alice, hit, Deals), [scope |-> Global, name |-> hit, cmd |-> c1])
      \* hit also in a pack; deal, which calls it, is published nowhere.
      Packed == MemberAdded(WithPack(With(One, c2, alice, deal, Hits), p1, alice, deal), [pack |-> p1, cmd |-> c1])
      \* deal and its helper hit in a pack that is offered here; another hit is Bob's.  say is
      \* in a system pack.
      Bodies == With(With(With(Blank, c1, alice, deal, Hits), c2, alice, hit, Deals), c3, bob, hit, Hits)
      Helped == MemberAdded(MemberAdded(WithPack(Bodies, p1, alice, deal), [pack |-> p1, cmd |-> c1]),
                            [pack |-> p1, cmd |-> c2])
  IN CASE th \in {"edits", "trees", "shares"} -> One
       [] th \in {"offers", "packs"} -> Packed
       [] th \in {"members", "runs"} ->
            [Helped EXCEPT !.member[p1, c2].internal = TRUE, !.offer = {<<here, p1>>},
                           !.cmd[c4] = NewRow(bot, say), !.body[c4] = 1 :> Empty, !.member[p2, c4] = NewMember,
                           !.pack[p2] = [NewPack(bot, say) EXCEPT !.system = TRUE]]

MCAsks(th) ==
  CASE th = "edits" -> {"edit", "revert", "delete"}
    [] th = "trees" -> {"edit", "run"}
    [] th = "shares" -> {"create", "params", "link", "unlink", "delete"}
    [] th = "offers" -> {"publish", "status", "unpublish", "grant", "delete", "publish_pack", "unpublish_pack"}
    [] th = "packs" -> {"pack", "delete_pack", "publish_pack", "member", "share"}
    [] th = "members" -> {"members", "delete"}
    [] th = "runs" -> {"run", "edit", "publish"}

MCMaxCalls(th) == IF th \in {"runs", "members"} THEN 2 ELSE 3
=============================================================================
