------------------------------- MODULE Language --------------------------------
(***************************************************************************)
(* Lines as they are typed, token by token: parsed at every token, checked  *)
(* when they are sent, and run while handlers answer one after the other.   *)
(***************************************************************************)
EXTENDS Evaluation

CONSTANTS
  Tokens,     \* what a line of commands is made of
  ExprTokens, \* what follows an expression's first token
  Common,     \* the tokens that count once towards the bound of a line; the others count twice
  MaxLine,    \* bound: tokens of a line of commands
  MaxExpr,    \* bound: tokens of a line that is one expression
  Answers     \* what a command can answer

VARIABLES
  line,       \* the tokens so far
  sent,       \* preflight let it pass
  tree,       \* the line as it was parsed when it was sent
  found,      \* what preflight found in it
  answers,    \* what the commands answered so far
  result      \* what the evaluation has come to with them

vars == <<line, sent, tree, found, answers, result>>

Init ==
  /\ line = <<>> /\ sent = FALSE /\ tree = NoNode /\ found = {}
  /\ answers = <<>> /\ result = Out(Nothing, Start(<<>>))

OfExpression == line # <<>> /\ line[1] \in Sums \cup ExprCommands

\* Bound: a command has one word at most, which is no command's name, and so has a condition.
Sparse(token) ==
  LET last == Last(line) IN
  \/ line = <<>> \/ OfExpression
  \/ token \in LineOps
  \/ token \in Names /\ last \in LineOps \cup DOMAIN RawCommands
  \/ token \notin Names \cup Targets /\ last \in Names \cup LineOps
  \/ token \in Targets /\ last \in LineOps \cup {"ifelse"} \cup DOMAIN RawCommands

Size(l) == IF l # <<>> /\ l[1] \in Sums \cup ExprCommands THEN Len(l) + MaxLine - MaxExpr
           ELSE Len(l) + Cardinality({i \in DOMAIN l : l[i] \notin Common})

Offered == IF line = <<>> THEN Tokens \cup Sums ELSE IF OfExpression THEN ExprTokens ELSE Tokens

\* A line that is wrong before its end is not typed on.
Type ==
  /\ ~sent
  /\ \E token \in {t \in Offered : Sparse(t)} :
       /\ line' = Append(line, token) /\ Size(line') <= MaxLine
       /\ LET Typed(p) == p.error = "" \/ p.at >= Len(line') IN Typed(Parse(line'))
  /\ UNCHANGED <<sent, tree, found, answers, result>>

\* Engine.run, once the line is parsed: what preflight says no to does not run.
Passes(p, checked) ==
  /\ p.error = "" /\ checked.error = ""
  /\ sent' = TRUE /\ tree' = p.node /\ found' = checked.found
  /\ result' = Run(p.node, checked.found, <<>>)

\* Engine.run
Send ==
  /\ ~sent /\ line # <<>>
  /\ LET Look(p) == Passes(p, Preflight(p.node)) IN Look(Parse(line))
  /\ UNCHANGED <<line, answers>>

\* What a command can answer when it is asked: a custom command and an expression have answers of their own,
\* unless a cooldown refuses them.  Bound: a value is false only where a condition may ask.
Possible(name) ==
  {a \in Answers : /\ a = "no" => "ifelse" \in ToSet(line)
                   /\ name \in DOMAIN Bodies \cup ExprCommands => a \in {"ok", "cold"}}

Answer ==
  /\ sent /\ result.r.is = "wait"
  /\ \E a \in Possible(result.s.asks) : answers' = Append(answers, a)
  /\ result' = Run(tree, found, answers')
  /\ UNCHANGED <<line, sent, tree, found>>

Next == Type \/ Send \/ Answer

Spec == Init /\ [][Next]_vars

----------------------------------------------------------------------------
(* The grammar of docs/command-language-spec.md, by which derivations a     *)
(* line has instead of which alternative is tried first.                    *)

Before(l, k) == SubSeq(l, 1, k - 1)
After(l, k) == SubSeq(l, k + 1, Len(l))
Inside(l) == SubSeq(l, 2, Len(l) - 1)

RECURSIVE ExprTrees(_, _), LineTrees(_, _)

\* What an expression can be read as at a level: 0 is `??`, 1 to 6 the binary operators, 7 the sign, 8 an atom
ExprTrees(level, l) ==
  LET Split(op, k, w, left, right, Build(_, _)) ==
        IF (w = 1 /\ l[k] = op) \/ (w = 2 /\ SubSeq(l, k, k + 1) = <<"not", "in">>)
        THEN {Build(x, y) : x \in ExprTrees(left, Before(l, k)), y \in ExprTrees(right, After(l, k + w - 1))} ELSE {}
      Grouped(op) == UNION {Split(op, k, 1, level, level + 1, LAMBDA x, y : Tree2(op, x, y)) : k \in 2 .. Len(l) - 1}
      Chains(op) == UNION {Split(op, k, IF op = "not in" THEN 2 ELSE 1, 4, 5, LAMBDA x, y :
                             IF x.op = "compare" THEN Chained(Append(x.ops, op), Append(x.terms, y))
                             ELSE Chained(<<op>>, <<x, y>>)) : k \in 2 .. Len(l) - 1} IN
  IF l = <<>> THEN {} ELSE
  CASE level = 0 -> ExprTrees(1, l) \cup
         UNION {Split("??", k, 1, 1, 0, LAMBDA x, y : Tree2("??", x, y)) : k \in 2 .. Len(l) - 1}
    [] level \in {1, 2, 5, 6} -> ExprTrees(level + 1, l) \cup UNION {Grouped(op) : op \in BinaryOps[level]}
    [] level = 3 -> ExprTrees(4, l) \cup (IF l[1] = "not" THEN {Tree1("not", x) : x \in ExprTrees(3, Tail(l))} ELSE {})
    [] level = 4 -> ExprTrees(5, l) \cup UNION {Chains(op) : op \in CompareOps}
    [] level = 7 -> ExprTrees(8, l) \cup (IF l[1] = "-" THEN {Negated(x) : x \in ExprTrees(7, Tail(l))} ELSE {})
    [] level = 8 ->
         (IF Len(l) = 1 /\ l[1] \in DOMAIN Value THEN {Lit(Value[l[1]])} ELSE {})
         \cup (IF l[1] = "(e" /\ Last(l) = "e)" /\ Len(l) > 2 THEN ExprTrees(0, Inside(l)) ELSE {})
         \cup (IF Last(l) = ":len" THEN {Tree1("len", x) : x \in ExprTrees(8, Front(l))} ELSE {})
         \cup (IF Last(l) = "]" THEN
                 {Tree2("index", xy[1], xy[2]) : xy \in
                    UNION {ExprTrees(8, Before(l, k)) \X ExprTrees(0, SubSeq(l, k + 1, Len(l) - 1)) :
                           k \in {k \in 2 .. Len(l) - 1 : l[k] = "["}}}
               ELSE {})

\* What a line can be read as: "line" joins pipelines, "pipe" joins stages, "stage" may store its "primary"
LineTrees(symbol, l) ==
  LET Joined(ops, here, next) ==
        UNION {{Node2(l[k], x, y) : x \in LineTrees(here, Before(l, k)), y \in LineTrees(next, After(l, k))} :
               k \in {k \in 2 .. Len(l) - 1 : l[k] \in ops}}
      words == Tail(l)
      Called(name) ==
        IF name \in ExprCommands THEN {Call(name, <<>>, <<>>, x) : x \in IF words = <<>> THEN {NoTree} ELSE ExprTrees(0, words)}
        ELSE IF RawFrom(name, words) \in {NoRaw, More} /\ ToSet(words) \cap LineOps = {} THEN {Call(name, words, <<>>, NoTree)}
        ELSE {} IN
  IF l = <<>> THEN {} ELSE
  CASE symbol = "line" -> LineTrees("pipe", l) \cup Joined(LogicOps, "line", "pipe")
    [] symbol = "pipe" -> LineTrees("stage", l) \cup Joined({"|"}, "pipe", "stage")
    [] symbol = "stage" -> LineTrees("primary", l) \cup
         (IF Len(l) > 2 /\ l[Len(l) - 1] \in StoreOps /\ Last(l) \in Targets
          THEN {Store(l[Len(l) - 1], x, Last(l)) : x \in LineTrees("primary", SubSeq(l, 1, Len(l) - 2))} ELSE {})
    [] symbol = "group" -> IF l[1] = "(" /\ Last(l) = ")" /\ Len(l) > 2
                           THEN {Group(x) : x \in LineTrees("line", Inside(l))} ELSE {}
    [] symbol = "primary" -> LineTrees("group", l) \cup
         (IF l[1] = "ifelse" THEN
            IF Len(l) < 3 \/ l[2] \in LineOps THEN {}
            ELSE {IfElse(l[2], x, NoNode) : x \in LineTrees("group", After(l, 2))} \cup
                 UNION {{IfElse(l[2], x, y) : x \in LineTrees("group", SubSeq(l, 3, k)), y \in LineTrees("group", After(l, k))} :
                        k \in 3 .. Len(l) - 1}
          ELSE IF l[1] \in Names THEN Called(l[1]) ELSE {})

LinesAreTheGrammar ==
  line # <<>> /\ line[1] \notin Sums /\ LineBody(line).error # "E_EXPR_TOO_DEEP"
  => LineTrees("line", line) \cup (IF RawTail(line) = NoNode THEN {} ELSE {RawTail(line)})
     = IF LineBody(line).error = "" THEN {LineBody(line).node} ELSE {}

\* An expression's levels nest as the precedence table of the language says, and group as it says.
ExpressionsAreTheGrammar ==
  LET p == Expression(line, 1, 0) IN
  OfExpression /\ line[1] \in Sums /\ p.error # "E_EXPR_TOO_DEEP"
  => ExprTrees(0, line) = IF Good(p) /\ p.at > Len(line) THEN {p.tree} ELSE {}

\* Appendix C: a line parses exactly when the grammar derives it, and then to its only derivation, so that no
\* alternative the parser takes first hides another or swallows a sentence; a raw tail takes its whole line.
\* The same of its expressions.
AcceptsTheGrammar == LinesAreTheGrammar /\ ExpressionsAreTheGrammar

----------------------------------------------------------------------------
(* What runs.                                                               *)

Log == result.s.log
\* The commands of the line itself, and not of a body or a `{!name}`, that came to an end
EndedCalls == SelectSeq(Log, LAMBDA e : e.what = "end" /\ e.scope = "" /\ e.index > 0)
EndOf(i) == CHOOSE e \in ToSet(EndedCalls) : e.index = i

Flat == ToSet(line) \cap {"(", "ifelse"} = {} /\ RawTail(line) = NoNode /\ ~OfExpression
Joints == SelectSeq(line, LAMBDA w : w \in LogicOps \cup {"|"})

\* A line without groups runs as it reads, from left to right: a command after `|` when the one before it ran
\* and succeeded, one after `&&` or `||` by what the last command that ran came to.
LeftToRight ==
  LET done == {e.index : e \in ToSet(EndedCalls)}
      LastBefore(i) == CHOOSE j \in done : j < i /\ \A k \in done : k < i => k <= j
      good(i) == Ok(EndOf(i).r)
      Due(i) == i = 1 \/ LET j == LastBefore(i)
                             op == Joints[i - 1] IN
                         CASE op = "|" -> j = i - 1 /\ good(j)
                           [] op = "&&" -> good(j)
                           [] op = "||" -> ~good(j) IN
  sent /\ Flat =>
    /\ \A i \in done : Due(i)
    /\ result.r.is # "wait" => \A i \in 1 .. Len(Joints) + 1 : Due(i) => i \in done

\* What runs is what preflight looked at: every command that is reached was resolved and not refused, in bodies
\* too, no more of them than MAX_INVOCATIONS, and none of the line's that takes no input is given some.
PreflightCovers ==
  LET ran == SelectSeq(Log, LAMBDA e : e.what = "run") IN
  sent =>
    /\ Len(ran) <= MaxInvocations
    /\ \A e \in ToSet(ran) :
         /\ \E f \in found : f.scope = e.scope /\ f.index = e.index /\ ~f.refused
         /\ e.scope = "" /\ e.name \in NoInput => e.stdin = Nothing

\* `_` is what the command before came to, through groups, stores and branches, and commands run in their order.
PreviousIsLast ==
  LET ends(k) == SelectSeq(SubSeq(Log, 1, k), LAMBDA e : e.what = "end" /\ e.scope = "" /\ e.index >= 0) IN
  sent => \A k \in DOMAIN Log : Log[k].what = "run" /\ Log[k].scope = "" /\ Log[k].index > 0 =>
            /\ Log[k].prev = IF ends(k) = <<>> THEN Nothing ELSE Last(ends(k)).r
            /\ \A e \in ToSet(ends(k)) : e.index < Log[k].index

\* A line runs as it reads: its commands in their order, each when what is before it has come to what its joint
\* asks for, and each told what the one before it came to.
RunsAsRead == LeftToRight /\ PreviousIsLast
=============================================================================
