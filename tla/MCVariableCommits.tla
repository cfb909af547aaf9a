-------------------------- MODULE MCVariableCommits --------------------------
(* A moderator and a viewer each type one of a few lines while a page writes *)
(* one variable and an admin changes a limit, over a list, a counter, two    *)
(* maps and a chatter's own number, with little room left.                   *)
EXTENDS VariableCommits

CONSTANTS mod, sub, page, none

Chan(name) == [ns |-> "channel", chatter |-> none, name |-> name]
Mine(r, name) == [ns |-> "channel.chatter", chatter |-> r, name |-> name]
Own(r, name) == [ns |-> "chatter", chatter |-> r, name |-> name]

MCKey == {Chan("queue"), Chan("current"), Chan("stats"), Chan("customecho"), Mine(sub, "points"),
          Own(sub, "place"), Own(page, "place")}

MCStart == [key \in MCKey |->
  IF key = Chan("queue") THEN List(<<Text("old")>>)
  ELSE IF key = Mine(sub, "points") THEN Number(5)
  ELSE IF key = Chan("stats") THEN Map("wins" :> Number(1)) ELSE Missing]

St(do, kind, ns, name, path, value) ==
  [do |-> do, kind |-> kind, ns |-> ns, name |-> name, path |-> path, value |-> value,
   user |-> none]

Push == St("store", "append", "channel", "queue", <<>>, Missing)
Keep == St("store", "set", "channel", "current", <<>>, Missing)
Won == St("incr", "incr", "channel", "stats", <<Named("wins")>>, Number(1))
Pop == St("pop", "pop", "channel", "queue", <<>>, Number(-1))
Points == St("get", "get", "channel.chatter", "points", <<>>, Missing)
Place == St("set", "set", "chatter", "place", <<>>, Text("lisbon"))
NoWins == St("del", "delete", "channel", "stats", <<Named("wins")>>, Missing)
NoPoints == [St("del", "delete", "channel.chatter", "points", <<>>, Missing) EXCEPT !.user = sub]
Echo == St("echo", "set", "channel", "customecho", <<Named("uptime")>>, Text("wording"))
NoEcho == St("echo", "delete", "channel", "customecho", <<Named("uptime")>>, Missing)
ListMine == St("list", "list", "channel.chatter", "any", <<>>, Missing)
Usage == St("usage", "usage", "channel", "any", <<>>, Missing)
Top == St("top", "top", "channel.chatter", "points", <<>>, Number(1))
KeepMine == St("store", "set", "chatter", "place", <<>>, Missing)

Page(ns, kind, name, path, value, do) == <<St(do, kind, ns, name, path, value)>>
NoQueue == Page("channel", "delete", "queue", <<>>, Missing, "channel page")
StatsIsFive == Page("channel", "set", "stats", <<>>, Number(5), "channel page")
TheirPoints == <<[St("chatter page", "delete", "channel.chatter", "points", <<>>, Missing) EXCEPT !.user = sub]>>
MyPlace == Page("chatter", "set", "place", <<>>, Text("porto"), "my page")
TheirWords == Page("channel", "set", "customecho", <<Named("uptime")>>, Text("theirs"), "echo page")

Together(m, s, p) == [r \in {mod, sub, page} |-> IF r = mod THEN m ELSE IF r = sub THEN s ELSE p]
MCLines == {
  Together(<<Pop, Keep>>, <<Push>>, NoQueue),
  Together(<<Push, Won>>, <<Pop>>, StatsIsFive),
  Together(<<Push, Won>>, <<Push>>, TheirWords),
  Together(<<Echo, NoEcho>>, <<Usage, Place>>, TheirWords),
  Together(<<Echo>>, <<Points, NoWins>>, StatsIsFive),
  Together(<<NoPoints>>, <<ListMine, KeepMine>>, MyPlace),
  Together(<<NoPoints>>, <<Top, Push>>, TheirPoints)}

MCWho == [r \in {mod, sub, page} |->
  [invoker |-> r, publisher |-> none, actor |-> IF r = sub THEN "own_cc" ELSE "typed",
   reaches |-> TRUE, admin |-> r # sub, manages |-> TRUE, grants |-> {}]]

MCFirst == [r \in {mod, sub, page} |-> Text(ToString(r))]
MCDefaults == [quota |-> 7, cap |-> 4, items |-> 2, names |-> 3]
MCSettings == {[of |-> none, field |-> "cap", to |-> 2], [of |-> none, field |-> "items", to |-> 1],
               [of |-> "default", field |-> "quota", to |-> 5]}
MCPatches == {<<[of |-> "default", field |-> "items", to |-> 1], [of |-> "default", field |-> "quota", to |-> -1]>>}
=============================================================================
