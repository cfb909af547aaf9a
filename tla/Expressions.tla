------------------------------ MODULE Expressions ------------------------------
(***************************************************************************)
(* The expressions of `calc`, `check` and placeholders: the descent of      *)
(* lang/parser.py from `??` to an atom, and what an expression is worth by  *)
(* runtime/ops.py and Executor.evaluate.  A line is a sequence of tokens;   *)
(* the characters of a token, text, maps and fractions are left out.  "(e"  *)
(* and "e)" are parentheses written against an expression, which with       *)
(* blanks around them would be a group's.                                   *)
(***************************************************************************)
EXTENDS Integers, Sequences

CONSTANTS
  Value,    \* a number's or a name's token -> its value: Missing for a name with nothing behind it
  MaxInt,   \* MAX_INT: results past it overflow
  MaxDepth  \* MAX_EXPR_DEPTH: how deep `not`, `-`, `(` and `[` nest

Int_(n) == [kind |-> "int", n |-> n]
Bool(b) == [kind |-> "bool", n |-> IF b THEN 1 ELSE 0]
List(n) == [kind |-> "list", n |-> n]        \* a list of n items, its items 1 .. n
Missing == [kind |-> "missing", n |-> 0]
Fault(code) == [kind |-> code, n |-> 0]
IsFault(v) == v.kind \notin {"int", "bool", "list", "missing"}

----------------------------------------------------------------------------
(* A parse is a tree, the place of the token after it and an error's code;  *)
(* NoTree without an error says that nothing starts here.                   *)

NoTree == [op |-> "none"]
Lit(v) == [op |-> "lit", value |-> v]
Tree1(op, x) == [op |-> op, x |-> x]
Tree2(op, x, y) == [op |-> op, x |-> x, y |-> y]
Chained(ops, terms) == [op |-> "compare", ops |-> ops, terms |-> terms]

Parsed(tree, at) == [tree |-> tree, at |-> at, error |-> ""]
Failed(error, at) == [tree |-> NoTree, at |-> at, error |-> error]
Good(p) == p.error = "" /\ p.tree # NoTree

Token(line, at) == IF at \in 1 .. Len(line) THEN line[at] ELSE ""

\* What follows an operator must be there.
Need(p, at) == IF p.error = "" /\ p.tree = NoTree THEN Failed("E_EXPR_SYNTAX", at) ELSE p

\* Another tree made of p's; p itself when it failed or found nothing
Then(p, Build(_)) == IF Good(p) THEN Parsed(Build(p.tree), p.at) ELSE p

\* The binary operators that group to the left, loosest first
BinaryOps == <<{"or"}, {"and"}, {}, {}, {"+", "-"}, {"*", "//", "%"}>>
CompareOps == {"==", "<", "in", "not in"}

\* The comparison operator at a place, "" for none: `not in` takes two tokens, `not` alone is none.
CompareAt(line, at) ==
  IF Token(line, at) = "not" /\ Token(line, at + 1) = "in" THEN [op |-> "not in", next |-> at + 2]
  ELSE [op |-> IF Token(line, at) \in CompareOps THEN line[at] ELSE "", next |-> at + 1]

\* The innermost sign of a number is the number's own.
Negated(x) == IF x.op = "lit" /\ x.value.kind = "int" THEN Lit(Int_(-x.value.n)) ELSE Tree1("neg", x)

RECURSIVE Expression(_, _, _), AtLevel(_, _, _, _), Rest(_, _, _, _), Chain(_, _, _, _),
          Unary(_, _, _), Postfix(_, _, _), Closed(_, _, _, _)

\* `??` takes everything to its right.
Expression(line, at, depth) ==
  LET Coalesced(left) ==
        IF Good(left) /\ Token(line, left.at) = "??"
        THEN Then(Need(Expression(line, left.at + 1, depth), left.at), LAMBDA y : Tree2("??", left.tree, y))
        ELSE left
  IN Coalesced(AtLevel(line, at, depth, 1))

\* or_expr, and_expr, not_expr, comparison, sum, product and unary, by their level
AtLevel(line, at, depth, level) ==
  CASE level = 3 /\ Token(line, at) = "not" ->
         IF depth = MaxDepth THEN Failed("E_EXPR_TOO_DEEP", at)
         ELSE Then(Need(AtLevel(line, at + 1, depth + 1, 3), at), LAMBDA x : Tree1("not", x))
    [] level = 3 /\ Token(line, at) # "not" -> AtLevel(line, at, depth, 4)
    [] level = 4 -> Chain(line, AtLevel(line, at, depth, 5), depth, Chained(<<>>, <<>>))
    [] level = 7 -> Unary(line, at, depth)
    [] level \in {1, 2, 5, 6} -> Rest(line, AtLevel(line, at, depth, level + 1), depth, level)

Rest(line, left, depth, level) ==
  IF Good(left) /\ Token(line, left.at) \in BinaryOps[level]
  THEN LET right == Need(AtLevel(line, left.at + 1, depth, level + 1), left.at)
       IN Rest(line, Then(right, LAMBDA y : Tree2(line[left.at], left.tree, y)), depth, level)
  ELSE left

\* `a < b == c` is one comparison of three terms; `so` holds the ones before p.
Chain(line, p, depth, so) ==
  LET found == CompareAt(line, p.at)
      terms == Append(so.terms, p.tree) IN
  IF ~Good(p) THEN p
  ELSE IF found.op # ""
  THEN Chain(line, Need(AtLevel(line, found.next, depth, 5), p.at), depth, Chained(Append(so.ops, found.op), terms))
  ELSE Parsed(IF so.ops = <<>> THEN p.tree ELSE Chained(so.ops, terms), p.at)

Unary(line, at, depth) ==
  IF Token(line, at) # "-" THEN
    CASE Token(line, at) = "(e" -> Postfix(line, Closed(line, at, depth, "e)"), depth)
      [] Token(line, at) \in DOMAIN Value -> Postfix(line, Parsed(Lit(Value[line[at]]), at + 1), depth)
      [] OTHER -> Parsed(NoTree, at)
  ELSE IF depth = MaxDepth THEN Failed("E_EXPR_TOO_DEEP", at)
  ELSE Then(Need(Unary(line, at + 1, depth + 1), at), Negated)

Postfix(line, p, depth) ==
  CASE Good(p) /\ Token(line, p.at) = ":len" -> Postfix(line, Parsed(Tree1("len", p.tree), p.at + 1), depth)
    [] Good(p) /\ Token(line, p.at) = "[" ->
         Postfix(line, Then(Closed(line, p.at, depth, "]"), LAMBDA y : Tree2("index", p.tree, y)), depth)
    [] OTHER -> p

\* An expression between the bracket at a place and the one that closes it
Closed(line, at, depth, close) ==
  LET Until(inner) ==
        CASE ~Good(inner) -> inner
          [] Good(inner) /\ Token(line, inner.at) = close -> Parsed(inner.tree, inner.at + 1)
          [] Good(inner) /\ Token(line, inner.at) # close -> Failed("E_EXPR_SYNTAX", inner.at)
  IN IF depth = MaxDepth THEN Failed("E_EXPR_TOO_DEEP", at)
     ELSE Until(Need(Expression(line, at + 1, depth + 1), at))

----------------------------------------------------------------------------
(* ops.py: a bool is no number, and everything but numbers, lists and bools *)
(* is left out, so that an operand is of the wrong type or it is not.       *)

Truthy(v) == v.n # 0

Checked(n) == IF n > MaxInt \/ n < -MaxInt THEN Fault("E_OVERFLOW") ELSE Int_(n)

\* Python's // and % round towards minus infinity.
FloorDiv(a, b) == IF b > 0 THEN a \div b ELSE (-a) \div (-b)

Binary(op, a, b) ==
  CASE op = "+" /\ a.kind = "list" /\ b.kind = "list" -> List(a.n + b.n)
    [] {a.kind, b.kind} # {"int"} /\ ~(op = "+" /\ {a.kind, b.kind} = {"list"}) -> Fault("E_TYPE")
    [] {a.kind, b.kind} = {"int"} /\ op = "+" -> Checked(a.n + b.n)
    [] {a.kind, b.kind} = {"int"} /\ op = "-" -> Checked(a.n - b.n)
    [] {a.kind, b.kind} = {"int"} /\ op = "*" -> Checked(a.n * b.n)
    [] {a.kind, b.kind} = {"int"} /\ op \in {"//", "%"} /\ b.n = 0 -> Fault("E_DIV_ZERO")
    [] {a.kind, b.kind} = {"int"} /\ op = "//" /\ b.n # 0 -> Checked(FloorDiv(a.n, b.n))
    [] {a.kind, b.kind} = {"int"} /\ op = "%" /\ b.n # 0 -> Checked(a.n - b.n * FloorDiv(a.n, b.n))

\* Bools are ordered as the texts "false" and "true", and a number's text comes before theirs.
Rank(v) == IF v.kind = "bool" THEN MaxInt + 1 + v.n ELSE v.n

Holds(op, a, b) ==
  CASE op = "==" -> Bool(a = b)
    [] op = "<" /\ "list" \in {a.kind, b.kind} -> Fault("E_TYPE")
    [] op = "<" /\ "list" \notin {a.kind, b.kind} -> Bool(Rank(a) < Rank(b))
    [] op \in {"in", "not in"} /\ b.kind # "list" -> Fault("E_TYPE")
    [] op \in {"in", "not in"} /\ b.kind = "list" ->
         Bool((op = "in") <=> (a.kind = "int" /\ a.n \in 1 .. b.n))

\* x[key]: from the end when negative; a key that is itself missing ends the expression.
IndexOf(x, key) ==
  CASE x.kind = "missing" -> Missing
    [] x.kind = "list" /\ key.kind # "int" -> Fault("E_TYPE")
    [] x.kind = "list" /\ key.kind = "int" ->
         IF key.n \in 0 .. x.n - 1 THEN Int_(key.n + 1) ELSE IF key.n \in -x.n .. -1 THEN Int_(x.n + key.n + 1) ELSE Missing
    [] x.kind \notin {"missing", "list"} -> Fault("E_TYPE")

LengthOf(x) ==
  CASE x.kind = "missing" -> Missing
    [] x.kind = "list" -> Int_(x.n)
    [] x.kind \notin {"missing", "list"} -> Fault("E_TYPE")

RECURSIVE Worth(_), Compared(_, _, _)

\* Executor.evaluate: operands from left to right; a fault ends it, and so does a value that is missing.
Worth(tree) ==
  LET Of1(Apply(_)) == LET x == Worth(tree.x) IN IF IsFault(x) \/ x = Missing THEN x ELSE Apply(x)
      Both(Apply(_, _)) == LET a == Worth(tree.x)
                               b == Worth(tree.y)
                           IN IF IsFault(a) THEN a ELSE IF IsFault(b) THEN b ELSE Apply(a, b)
      Short(Stop(_)) == LET x == Worth(tree.x) IN IF IsFault(x) \/ Stop(x) THEN x ELSE Worth(tree.y) IN
  CASE tree.op = "lit" -> tree.value
    [] tree.op = "not" -> Of1(LAMBDA x : Bool(~Truthy(x)))
    [] tree.op = "neg" -> Of1(LAMBDA x : IF x.kind = "int" THEN Checked(-x.n) ELSE Fault("E_TYPE"))
    [] tree.op = "len" -> Of1(LengthOf)
    [] tree.op = "index" ->
         Both(LAMBDA a, b : IF b = Missing THEN Fault("E_MISSING_VALUE") ELSE IndexOf(a, b))
    [] tree.op = "??" -> Short(LAMBDA x : x # Missing)
    [] tree.op = "and" -> Short(LAMBDA x : x = Missing \/ ~Truthy(x))
    [] tree.op = "or" -> Short(LAMBDA x : x = Missing \/ Truthy(x))
    [] tree.op = "compare" -> LET first == Worth(tree.terms[1]) IN
         IF IsFault(first) \/ first = Missing THEN first ELSE Compared(tree, first, 1)
    [] tree.op \in {"+", "-", "*", "//", "%"} -> Both(LAMBDA a, b : IF Missing \in {a, b} THEN Missing ELSE Binary(tree.op, a, b))

\* The i-th comparison of a chain, whose left side is worth a
Compared(tree, a, i) ==
  LET b    == Worth(tree.terms[i + 1])
      here == Holds(tree.ops[i], a, b) IN
  CASE IsFault(b) \/ b = Missing -> b
    [] ~(IsFault(b) \/ b = Missing) ->
         IF here # Bool(TRUE) \/ i = Len(tree.ops) THEN here ELSE Compared(tree, b, i + 1)
=============================================================================
