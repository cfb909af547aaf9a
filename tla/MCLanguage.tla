------------------------------ MODULE MCLanguage -------------------------------
EXTENDS Language
MCValue == [w \in {"1", "0", "m", "xs"} |->
  CASE w = "1" -> Int_(1) [] w = "0" -> Int_(0) [] w = "m" -> Missing [] w = "xs" -> List(2)]
MCRawCommands == [w \in {"say", "cc"} |-> IF w = "say" THEN 0 ELSE More]
MCSubsts == [w \in {"{!b}"} |-> "b"]
MCRefs == [w \in {"{_}", "{_2}"} |-> IF w = "{_}" THEN 0 ELSE 2]
MCBodies == [w \in {"c", "e", "deep", "loop"} |->
  CASE w = "c" -> <<"a", "&&", "b">>
    [] w = "e" -> <<"ifelse", "v", "(", "d", ")", "||", "c">>
    [] w = "deep" -> <<"e">>
    [] w = "loop" -> <<"a", "|", "loop">>]
=============================================================================
