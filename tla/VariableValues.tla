--------------------------- MODULE VariableValues ---------------------------
(***************************************************************************)
(* What a variable holds and what one write does to it: apply_op,          *)
(* pop_item, check_value_cap (runtime/variables.py) and the reading of a   *)
(* path (ops.index).  A value is a number, a text, or a list or a map of   *)
(* values; writes fail with the code the source names, as a value.         *)
(*                                                                         *)
(* Sizes are counted in scalars, containers and keys instead of bytes.     *)
(***************************************************************************)
EXTENDS Integers, Sequences, FiniteSets, SequencesExt

Missing == [type |-> "missing"]
Number(n) == [type |-> "number", number |-> n]
Text(t) == [type |-> "text", text |-> t]
List(items) == [type |-> "list", items |-> items]
Map(of) == [type |-> "map", of |-> of]
EmptyMap == Map([k \in {} |-> Missing])
Failure(code) == [type |-> "failure", code |-> code]

IsMissing(v) == v.type = "missing"
Failed(v) == v.type = "failure"

\* A step of a path: a map takes its name, a list the number it is.
Named(name) == [name |-> name, whole |-> FALSE, at |-> 0]
At(i) == [name |-> ToString(i), whole |-> TRUE, at |-> i]

\* json_size of what is stored: a value and whatever is in it, level by level, with the keys of its maps.
Parts(v) ==
  CASE v.type = "list" -> v.items
    [] v.type = "map" -> LET names == SetToSeq(DOMAIN v.of) IN [i \in DOMAIN names |-> v.of[names[i]]]
    [] OTHER -> <<>>
SizeAlone(v) == 1 + IF v.type = "map" THEN Cardinality(DOMAIN v.of) ELSE 0
Size(v) ==
  LET level[n \in Nat] ==
        IF n = 0 THEN <<v>> ELSE LET above == level[n - 1] IN FlattenSeq([i \in DOMAIN above |-> Parts(above[i])])
      from[n \in Nat] ==
        LET values == level[n]
        IN IF values = <<>> THEN 0 ELSE FoldLeft(LAMBDA sum, u : sum + SizeAlone(u), from[n + 1], values)
  IN IF IsMissing(v) THEN 0 ELSE from[0]

-----------------------------------------------------------------------------
(* One write.  [kind, key, path, value]: value is the one to set or append, *)
(* the number to add, or the index to pop.                                  *)

\* _position: an index from the front, or negative from the end.
Inside(step, items) == -Len(items) <= step.at /\ step.at < Len(items)
Position(step, items) == step.at + 1 + IF step.at < 0 THEN Len(items) ELSE 0
PositionError(step, items) ==
  IF ~step.whole THEN Failure("E_NOT_A_MAP")
  ELSE IF ~Inside(step, items) THEN Failure("E_INDEX") ELSE Missing

Without(items, i) == SubSeq(items, 1, i - 1) \o SubSeq(items, i + 1, Len(items))

\* What a step leads to, or what stands for it in a map that has no such name.
Under(container, step, otherwise) ==
  CASE container.type = "map" -> IF step.name \in DOMAIN container.of THEN container.of[step.name] ELSE otherwise
    [] container.type = "list" -> IF Failed(PositionError(step, container.items))
                                  THEN PositionError(step, container.items)
                                  ELSE container.items[Position(step, container.items)]
    [] OTHER -> Failure(IF IsMissing(container) THEN "E_KEY" ELSE "E_NOT_A_MAP")

\* The container with `new` there instead, or with nothing.
Putting(container, step, new) ==
  IF container.type = "map"
  THEN IF IsMissing(new) THEN Map([k \in DOMAIN container.of \ {step.name} |-> container.of[k]])
       ELSE Map(step.name :> new @@ container.of)
  ELSE LET i == Position(step, container.items)
       IN List(IF IsMissing(new) THEN Without(container.items, i) ELSE [container.items EXCEPT ![i] = new])

\* A list may have no limit, for the properties; the code's are natural numbers.
NoLimits == [items |-> -1]
Full(items, limits) == limits.items \in 0..Len(items)

AppendTo(current, item, limits) ==
  IF IsMissing(current) THEN List(<<item>>)
  ELSE IF current.type # "list" THEN Failure("E_NOT_A_LIST")
  ELSE IF Full(current.items, limits) THEN Failure("E_LIST_FULL")
  ELSE List(Append(current.items, item))

PopFrom(current, index) ==
  IF IsMissing(current) THEN Failure("E_KEY")
  ELSE IF current.type # "list" THEN Failure("E_NOT_A_LIST")
  ELSE IF current.items = <<>> THEN Failure("E_EMPTY")
  ELSE IF ~Inside(At(index), current.items) THEN Failure("E_INDEX")
  ELSE List(Without(current.items, Position(At(index), current.items)))

AddTo(current, amount) ==
  IF IsMissing(current) THEN Number(amount)
  ELSE IF current.type # "number" THEN Failure("E_NOT_A_NUMBER")
  ELSE Number(current.number + amount)

ApplyLeaf(current, op, limits) ==
  CASE op.kind = "set" -> op.value
    [] op.kind = "delete" -> Missing
    [] op.kind = "append" -> AppendTo(current, op.value, limits)
    [] op.kind = "pop" -> PopFrom(current, op.value.number)
    [] op.kind = "incr" -> AddTo(current, op.value.number)

Creates(op) == op.kind \notin {"delete", "pop"}

\* What each step of a path leads to, in turn; what a write creates is missing, or a map if the path goes on.
Walk(root, op) ==
  LET way[i \in 0..Len(op.path)] ==
        LET absent == IF ~Creates(op) THEN Failure("E_KEY") ELSE IF i < Len(op.path) THEN EmptyMap ELSE Missing
        IN IF i = 0 THEN root
           ELSE IF Failed(way[i - 1]) THEN way[i - 1] ELSE Under(way[i - 1], op.path[i], absent)
  IN way

\* What the first container of a way becomes with another value at its end.
Rebuilt(way, path, value) ==
  LET new[i \in 0..Len(path)] ==
        IF i = Len(path) THEN value ELSE Putting(way[i], path[i + 1], new[i + 1])
  IN new[0]

\* _apply_at: what the container becomes.
ApplyAt(container, op, limits) ==
  LET way == Walk(container, op)
      end == way[Len(op.path)]
      leaf == IF Failed(end) THEN end ELSE ApplyLeaf(end, op, limits)
  IN IF Failed(leaf) THEN leaf ELSE Rebuilt(way, op.path, leaf)

\* apply_op.
ApplyOp(current, op, limits) ==
  IF op.path = <<>> THEN ApplyLeaf(current, op, limits)
  ELSE IF IsMissing(current) /\ ~Creates(op) THEN Failure("E_KEY")
  ELSE ApplyAt(IF IsMissing(current) THEN EmptyMap ELSE current, op, limits)

\* _at: what a path points at, everything on the way being there.
Within(v, path) ==
  FoldLeft(LAMBDA u, step : IF Failed(u) THEN u ELSE Under(u, step, Failure("E_KEY")), v, path)

\* pop_item: the item a pop would remove, or what the pop would fail with.
PopItem(current, op) ==
  LET list == Within(current, op.path) IN
  IF Failed(list) THEN list
  ELSE IF Failed(PopFrom(list, op.value.number)) THEN PopFrom(list, op.value.number)
  ELSE list.items[Position(At(op.value.number), list.items)]

\* ops.index along a path: what is not there is missing.
Index(v, step) ==
  IF IsMissing(v) \/ (v.type = "list" /\ step.whole /\ ~Inside(step, v.items)) THEN Missing
  ELSE IF v.type = "map" \/ (v.type = "list" /\ step.whole) THEN Under(v, step, Missing)
  ELSE Failure("E_TYPE")
Read(v, path) == FoldLeft(LAMBDA u, step : IF Failed(u) THEN u ELSE Index(u, step), v, path)
=============================================================================
