-------------------------------- MODULE Grammar --------------------------------
(***************************************************************************)
(* The command line of lang/parser.py: groups, pipes, `&&` and `||`, stores,*)
(* `ifelse`, raw tails and the commands that take an expression.  A line is *)
(* a sequence of tokens with blanks between them; `{!name}` is one word.    *)
(***************************************************************************)
EXTENDS Expressions, SequencesExt, FiniteSets

CONSTANTS
  Names,          \* words that a command can be called by
  ExprCommands,   \* the ones that take an expression: `calc`, `check`
  Targets,        \* words that name a variable
  Dynamic,        \* words with a placeholder in front: never a command's name
  Substs,         \* words `{!name}` -> the name
  RawCommands     \* commands with a raw tail -> the words before it; `More` when a first word decides

\* raw_tail_from: the words before the raw tail, or NoRaw; More while the words so far do not tell.
NoRaw == 99
More == 98
RawFrom(name, lead) ==
  CASE name \notin DOMAIN RawCommands -> NoRaw
    [] name \in DOMAIN RawCommands /\ RawCommands[name] # More -> RawCommands[name]
    [] name \in DOMAIN RawCommands /\ RawCommands[name] = More ->
         IF lead = <<>> THEN More ELSE IF lead[1] \in Targets THEN 1 ELSE NoRaw

LogicOps == {"&&", "||"}
StoreOps == {"->", "-->"}
LineOps == LogicOps \cup StoreOps \cup {"|", "(", ")", ";"}

Call(name, args, raw, expr) == [t |-> "call", name |-> name, args |-> args, raw |-> raw, expr |-> expr, index |-> 0]
Node2(t, l, r) == [t |-> t, l |-> l, r |-> r]
Group(n) == [t |-> "group", n |-> n]
Store(op, n, target) == [t |-> op, n |-> n, target |-> target]
NoNode == [t |-> "none"]
IfElse(cond, yes, no) == [t |-> "ifelse", cond |-> cond, yes |-> yes, no |-> no]

Read(node, at) == [node |-> node, at |-> at, error |-> ""]
Bad(error, at) == [node |-> NoNode, at |-> at, error |-> error]
With(p, Go(_)) == IF p.error # "" THEN p ELSE Go(p)

----------------------------------------------------------------------------
OperatorError(op, at) ==
  Bad(CASE op = ";" -> "E_RESERVED_OPERATOR"
        [] op \in LineOps \ {";"} -> "E_UNEXPECTED_OPERATOR"
        [] op \notin LineOps -> "E_INTERNAL", at)

\* The words from a place on, up to the next operator or to a number of them
RECURSIVE WordsTo(_, _, _)
WordsTo(line, at, most) ==
  IF at > Len(line) \/ most = 0 \/ line[at] \in LineOps THEN <<>>
  ELSE <<line[at]>> \o WordsTo(line, at + 1, most - 1)

NameError(word) == IF word \in Dynamic \cup DOMAIN Substs THEN "E_DYNAMIC_NAME" ELSE "E_BAD_NAME"

EndsAt(line, at) == at > Len(line) \/ Token(line, at) \in LineOps

\* expr_args: nothing, or an expression that ends with the line or before an operator
ExprCall(line, at, name) ==
  LET Of(p) == CASE p.error # "" -> Bad(p.error, p.at)
                 [] p.error = "" /\ p.tree = NoTree -> Bad("E_EXPR_SYNTAX", at)
                 [] Good(p) /\ ~EndsAt(line, p.at) -> Bad("E_EXPR_SYNTAX", p.at)
                 [] Good(p) /\ EndsAt(line, p.at) -> Read(Call(name, <<>>, <<>>, p.tree), p.at)
  IN IF EndsAt(line, at) THEN Read(Call(name, <<>>, <<>>, NoTree), at) ELSE Of(Expression(line, at, 0))

Invocation(line, at) ==
  LET name == line[at]
      args == WordsTo(line, at + 1, Len(line)) IN
  CASE name \notin Names -> Bad(NameError(name), at)
    [] name \in ExprCommands -> ExprCall(line, at + 1, name)
    [] name \in Names \ ExprCommands -> IF RawFrom(name, args) \notin {NoRaw, More} THEN Bad("E_RAW_TAIL_POSITION", at)
                                        ELSE Read(Call(name, args, <<>>, NoTree), at + 1 + Len(args))

StoreTarget(line, at) ==
  CASE at > Len(line) -> "E_MISSING_OPERAND"
    [] at <= Len(line) /\ Token(line, at) \in LineOps -> "E_UNEXPECTED_OPERATOR"
    [] at <= Len(line) /\ Token(line, at) \notin LineOps \cup Targets -> "E_BAD_VARREF"
    [] at <= Len(line) /\ Token(line, at) \in Targets -> ""

RECURSIVE Logical(_, _), MoreLogical(_, _), Pipeline(_, _), MorePipe(_, _), Stage(_, _), GroupAt(_, _), IfElseAt(_, _)

Missed(line, at) == at > Len(line)

Logical(line, at) == MoreLogical(line, Pipeline(line, at))

MoreLogical(line, left) ==
  LET op == Token(line, left.at)
      at == left.at + 1 IN
  IF left.error = "" /\ op \in LogicOps
  THEN MoreLogical(line, IF Missed(line, at) THEN Bad("E_MISSING_OPERAND", at)
                         ELSE With(Pipeline(line, at), LAMBDA p : Read(Node2(op, left.node, p.node), p.at)))
  ELSE left

Pipeline(line, at) == MorePipe(line, Stage(line, at))

\* Mutant: a pipe's right side is a pipeline.
MorePipeToRight(line, left) ==
  LET at == left.at + 1 IN
  IF left.error = "" /\ Token(line, left.at) = "|"
  THEN IF Missed(line, at) THEN Bad("E_MISSING_OPERAND", at)
       ELSE With(Pipeline(line, at), LAMBDA p : Read(Node2("|", left.node, p.node), p.at))
  ELSE left
MorePipe(line, left) ==
  LET at == left.at + 1 IN
  IF left.error = "" /\ Token(line, left.at) = "|"
  THEN MorePipe(line, IF Missed(line, at) THEN Bad("E_MISSING_OPERAND", at)
                      ELSE With(Stage(line, at), LAMBDA p : Read(Node2("|", left.node, p.node), p.at)))
  ELSE left

\* A primary and where its result is stored, if it is
Stage(line, at) ==
  LET word == Token(line, at)
      primary == CASE word = "(" -> GroupAt(line, at)
                   [] word \in LineOps \ {"("} -> OperatorError(word, at)
                   [] word = "ifelse" -> IfElseAt(line, at)
                   [] word \notin LineOps \cup {"ifelse"} -> Invocation(line, at)
      Stored(p) == IF Token(line, p.at) \notin StoreOps THEN p
                   ELSE IF StoreTarget(line, p.at + 1) # "" THEN Bad(StoreTarget(line, p.at + 1), p.at + 1)
                   ELSE Read(Store(line[p.at], p.node, line[p.at + 1]), p.at + 2)
  IN With(primary, Stored)

GroupAt(line, at) ==
  LET Closing(p) == CASE Missed(line, p.at) -> Bad("E_UNBALANCED_GROUP", p.at)
                      [] ~Missed(line, p.at) /\ Token(line, p.at) = ")" -> Read(Group(p.node), p.at + 1)
                      [] ~Missed(line, p.at) /\ Token(line, p.at) # ")" -> OperatorError(line[p.at], p.at)
  IN IF Missed(line, at + 1) THEN Bad("E_MISSING_OPERAND", at + 1) ELSE With(Logical(line, at + 1), Closing)

IfElseAt(line, at) ==
  LET cond == Token(line, at + 1)
      Else(yes) == IF Token(line, yes.at) # "(" THEN Read(IfElse(cond, yes.node, NoNode), yes.at)
                   ELSE With(GroupAt(line, yes.at), LAMBDA no : Read(IfElse(cond, yes.node, no.node), no.at)) IN
  CASE Missed(line, at + 1) \/ (cond \notin LineOps /\ Missed(line, at + 2)) -> Bad("E_MISSING_OPERAND", Len(line) + 1)
    [] ~Missed(line, at + 1) /\ cond \in LineOps -> Bad("E_EXPR_SYNTAX", at + 1)
    [] cond \notin LineOps /\ ~Missed(line, at + 2) /\ Token(line, at + 2) # "(" -> Bad("E_EXPR_SYNTAX", at + 2)
    [] cond \notin LineOps /\ ~Missed(line, at + 2) /\ Token(line, at + 2) = "(" -> With(GroupAt(line, at + 2), Else)

\* raw_tail_invocation: the words before the raw tail, and everything after them as it was typed
RECURSIVE LeadWords(_, _, _)
LeadWords(line, name, lead) ==
  LET r == RawFrom(name, lead)
      next == Token(line, Len(lead) + 2) IN
  IF (r = More \/ (r < More /\ Len(lead) < r)) /\ next \notin LineOps \cup {""} THEN LeadWords(line, name, Append(lead, next))
  ELSE lead

RawTail(line) ==
  LET lead == LeadWords(line, line[1], <<>>) IN
  IF line[1] \in Names /\ RawFrom(line[1], lead) \notin {NoRaw, More}
  THEN Call(line[1], lead, SubSeq(line, Len(lead) + 2, Len(line)), NoTree)
  ELSE NoNode

\* End: what is left over of a line
End(line, p) ==
  CASE Missed(line, p.at) -> p
    [] ~Missed(line, p.at) /\ Token(line, p.at) = ")" -> Bad("E_UNBALANCED_GROUP", p.at)
    [] ~Missed(line, p.at) /\ Token(line, p.at) # ")" -> OperatorError(line[p.at], p.at)

LineBody(line) ==
  IF RawTail(line) # NoNode THEN Read(RawTail(line), Len(line) + 1)
  ELSE With(Logical(line, 1), LAMBDA p : End(line, p))

----------------------------------------------------------------------------
\* _number_invocations: 1, 2, ... in the order of the line; a `{!name}` has a number of its own, below 0.
RECURSIVE Numbered(_, _)
Numbered(n, from) ==
  LET Both(Build(_, _), x, y) ==
        LET l == Numbered(x, from)
            r == Numbered(y, l.next) IN [node |-> Build(l.node, r.node), next |-> r.next]
      One(Build(_), x) == LET l == Numbered(x, from) IN [node |-> Build(l.node), next |-> l.next] IN
  CASE n.t = "call" -> [node |-> [n EXCEPT !.index = from], next |-> from + 1]
    [] n.t = "none" -> [node |-> n, next |-> from]
    [] n.t = "group" -> One(Group, n.n)
    [] n.t = "ifelse" -> Both(LAMBDA x, y : IfElse(n.cond, x, y), n.yes, n.no)
    [] n.t \in StoreOps -> One(LAMBDA x : Store(n.t, x, n.target), n.n)
    [] n.t \in LogicOps \cup {"|"} -> Both(LAMBDA x, y : Node2(n.t, x, y), n.l, n.r)

\* A line that starts with a number or a sign is `calc`'s expression, if it has an operator that is left.
ExprLine(line) ==
  LET Sum(p) == IF Good(p) /\ Missed(line, p.at) /\ p.tree.op \notin {"lit", "len", "index"}
                THEN Read(Call("calc", <<>>, <<>>, p.tree), p.at)
                ELSE Bad("not a command", p.at)
  IN Sum(Expression(line, 1, 0))

Sums == {"-"} \cup {w \in DOMAIN Value : Value[w].kind = "int"}

\* parse: the numbered tree of a line, or the error it has
Parse(line) ==
  With(IF line[1] \in Sums THEN ExprLine(line) ELSE LineBody(line),
       LAMBDA p : Read(Numbered(p.node, 1).node, p.at))
=============================================================================
