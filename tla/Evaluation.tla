------------------------------ MODULE Evaluation -------------------------------
(***************************************************************************)
(* What becomes of a parsed line: runtime/preflight.py looks at everything  *)
(* it could run, bodies of custom commands included, before anything runs,  *)
(* and runtime/executor.py evaluates it.  What handlers answer, and whether *)
(* a cooldown refuses them, comes from a list of answers, one per command   *)
(* that is asked; an evaluation that runs out of them waits.                *)
(***************************************************************************)
EXTENDS Grammar

CONSTANTS
  Handlers,       \* the commands of modules that a name can resolve to
  Bodies,         \* custom commands: name -> the tokens of the body
  Denied,         \* commands the invoker may not run
  ReadOnly,       \* variables the invoker may not write
  NoInput,        \* commands with InputMode.NONE
  Refs,           \* words `{_}` -> 0 and `{_N}` -> N
  MaxInvocations, \* MAX_INVOCATIONS
  MaxBodies,      \* MAX_CC_DEPTH
  MaxSubsts       \* MAX_SUBST_DEPTH

BodyTree == [name \in DOMAIN Bodies |-> Parse(Bodies[name]).node]

RECURSIVE FirstCalls(_), StdinReceivers(_)

\* first_invocations: the calls that can run first; an `ifelse` starts with either branch.
FirstCalls(n) ==
  CASE n.t = "none" -> {}
    [] n.t = "call" -> {n.index}
    [] n.t \in LogicOps \cup {"|"} -> FirstCalls(n.l)
    [] n.t \in StoreOps \cup {"group"} -> FirstCalls(n.n)
    [] n.t = "ifelse" -> FirstCalls(n.yes) \cup FirstCalls(n.no)

\* stdin_receivers
StdinReceivers(n) ==
  CASE n.t \in {"none", "call"} -> {}
    [] n.t = "|" -> FirstCalls(n.r) \cup StdinReceivers(n.l) \cup StdinReceivers(n.r)
    [] n.t \in LogicOps -> StdinReceivers(n.l) \cup StdinReceivers(n.r)
    [] n.t \in StoreOps \cup {"group"} -> StdinReceivers(n.n)
    [] n.t = "ifelse" -> StdinReceivers(n.yes) \cup StdinReceivers(n.no)

\* A `{!name}` among a call's words, with an index no other call of its scope has
Inner(index, i, word) == [Call(Substs[word], <<>>, <<>>, NoTree) EXCEPT !.index = -(10 * index + i)]
CondIndex(n) == CHOOSE i \in FirstCalls(n.yes) : \A j \in FirstCalls(n.yes) : i <= j

----------------------------------------------------------------------------
(* preflight: `count` of invocations, what was `found` in each scope (the   *)
(* line's, "", or a custom command's), the `costs` of bodies seen before,   *)
(* and the first problem.                                                   *)

Unseen == -1
Clear == [count |-> 0, found |-> {}, costs |-> [name \in DOMAIN Bodies |-> Unseen], error |-> ""]
Fails(p, error) == [p EXCEPT !.error = error]
And(p, Check(_)) == IF p.error # "" THEN p ELSE Check(p)
Count(p, n) == IF p.count + n > MaxInvocations THEN Fails(p, "E_TOO_MANY") ELSE [p EXCEPT !.count = @ + n]

\* check_exprs: `{_N}` of a call that has not run before the one that holds it
References(p, words, holder) ==
  IF \E w \in ToSet(words) : w \in DOMAIN Refs /\ Refs[w] >= holder THEN Fails(p, "E_BAD_REFERENCE") ELSE p

Found(p, here, index, refused) ==
  [p EXCEPT !.found = {f \in @ : f.scope # here.scope \/ f.index # index}
                        \cup {[scope |-> here.scope, index |-> index, refused |-> refused]}]

RECURSIVE CheckCall(_, _, _, _), CheckWords(_, _, _, _, _, _), CheckBody(_, _, _), Walk(_, _, _)

\* here: the scope, who receives stdin in it, the commands whose bodies it is in, whether a condition decides,
\* and the bodies there are
CheckCall(p, call, here, holder) ==
  LET name == call.name
      Custom(q) == IF name \in DOMAIN Bodies THEN CheckBody(q, name, here) ELSE q
      Allowed(q) == IF name \in NoInput /\ call.index \in here.receivers THEN Fails(q, "E_INPUT_NOT_ACCEPTED")
                    ELSE And(And(References(q, call.args, holder),
                                 LAMBDA r : CheckWords(r, call.args, 1, call.index, here, holder)), Custom)
      Resolve(q) == CASE name \notin Handlers \cup DOMAIN Bodies -> Fails(q, "UNKNOWN")
                      [] name \in Denied /\ ~here.branch -> Fails(q, "DENIED")
                      [] name \in Denied /\ here.branch -> References(Found(q, here, call.index, TRUE), call.args, holder)
                      [] name \in (Handlers \cup DOMAIN Bodies) \ Denied -> Allowed(Found(q, here, call.index, FALSE))
  IN And(Count(p, 1), Resolve)

\* The `{!name}` among the words from the i-th on
CheckWords(p, words, i, index, here, holder) ==
  IF i > Len(words) \/ p.error # "" THEN p
  ELSE CheckWords(IF words[i] \in DOMAIN Substs THEN CheckCall(p, Inner(index, i, words[i]), here, holder) ELSE p,
                  words, i + 1, index, here, holder)

\* Mutant: a body that was counted is not counted again.
CheckBodyOnce(p, name, here) ==
  LET body   == here.bodies[name]
      inside == [here EXCEPT !.scope = name, !.receivers = StdinReceivers(body), !.stack = @ \cup {name}] IN
  CASE name \in here.stack -> Fails(p, "E_CC_CYCLE")
    [] name \notin here.stack /\ Cardinality(here.stack) + 1 > MaxBodies -> Fails(p, "E_CC_DEPTH")
    [] name \notin here.stack /\ Cardinality(here.stack) + 1 <= MaxBodies ->
         IF p.costs[name] # Unseen THEN p ELSE [Walk(p, body, inside) EXCEPT !.costs[name] = 1]
\* check_body: a body is looked at once, where it is first met, and counted wherever it is met again.
CheckBody(p, name, here) ==
  LET body   == here.bodies[name]
      inside == [here EXCEPT !.scope = name, !.receivers = StdinReceivers(body), !.stack = @ \cup {name}]
      Costed(walked) == [walked EXCEPT !.costs[name] = walked.count - p.count] IN
  CASE name \in here.stack -> Fails(p, "E_CC_CYCLE")
    [] name \notin here.stack /\ Cardinality(here.stack) + 1 > MaxBodies -> Fails(p, "E_CC_DEPTH")
    [] name \notin here.stack /\ Cardinality(here.stack) + 1 <= MaxBodies ->
         IF p.costs[name] # Unseen THEN Count(p, p.costs[name])
         ELSE Costed(Walk(p, body, inside))

\* Only one of the branches runs: an `ifelse` counts as its larger one.
Walk(p, n, here) ==
  LET inBranch == [here EXCEPT !.branch = TRUE]
      Branches(q) ==
        LET yes == Walk(q, n.yes, inBranch)
            no  == Walk([yes EXCEPT !.count = q.count], n.no, inBranch)
            larger == IF yes.count > no.count THEN yes.count ELSE no.count
        IN IF yes.error # "" THEN yes ELSE [no EXCEPT !.count = larger] IN
  CASE n.t = "none" -> p
    [] n.t = "call" -> CheckCall(p, n, here, n.index)
    [] n.t \in LogicOps \cup {"|"} -> And(Walk(p, n.l, here), LAMBDA q : Walk(q, n.r, here))
    [] n.t = "group" -> Walk(p, n.n, here)
    [] n.t \in StoreOps -> And(Walk(p, n.n, here), LAMBDA q : IF n.target \in ReadOnly THEN Fails(q, "DENIED") ELSE q)
    [] n.t = "ifelse" ->
         LET first == CondIndex(n)
             cond  == References(p, <<n.cond>>, first)
             before == [here EXCEPT !.receivers = {}, !.branch = FALSE]
         IN And(And(cond, LAMBDA q : CheckWords(q, <<n.cond>>, 1, 100 + first, before, first)), Branches)

Preflight(node) ==
  Walk(Clear, node, [scope |-> "", receivers |-> StdinReceivers(node), stack |-> {}, branch |-> FALSE,
                    bodies |-> BodyTree])

----------------------------------------------------------------------------
(* Executor._eval: `s` is what an evaluation carries along: the answers it  *)
(* has left, the results of its scope, and the log of what was done.        *)

Nothing == [is |-> "none", from |-> 0]                \* no result: the first stage's `_` and stdin
Success(from) == [is |-> "ok", from |-> from]         \* its value is true
Empty == [is |-> "empty", from |-> 0]                 \* it succeeds without a value
Failure(from) == [is |-> "fail", from |-> from]
Waits == [is |-> "wait", from |-> 0]
Ok(r) == r.is \in {"ok", "no", "empty"}            \* "no": its value is false

\* Whether the left side's result is the result of both
Stops(op, r) == r.is = "wait" \/ IF op = "||" THEN Ok(r) ELSE ~Ok(r)

\* Mutant: only a pipe has a result before it.
PassedByPipes(op, r) == IF op = "|" THEN [prev |-> r, stdin |-> r] ELSE [prev |-> Nothing, stdin |-> Nothing]
\* What the right side has as `_` and as its input
Passed(op, r) == [prev |-> r, stdin |-> IF op = "|" THEN r ELSE Nothing]

Out(r, s) == [r |-> r, s |-> s]
Logged(s, entry) == [s EXCEPT !.log = Append(@, entry)]
Ran(sc, call, prev, stdin) == [what |-> "run", scope |-> sc, index |-> call.index, name |-> call.name, prev |-> prev, stdin |-> stdin]
Ends(sc, index, r) == [what |-> "end", scope |-> sc, index |-> index, r |-> r]

\* The value of the result a `{_N}` or `{_}` stands for: of a call that ran, or of the one before.  What a
\* failure has to say is a value like any other.
ResultRef(s, word, prev) ==
  LET r == IF Refs[word] = 0 THEN prev ELSE IF Refs[word] \in DOMAIN s.results THEN s.results[Refs[word]] ELSE Nothing IN
  CASE r.is \in {"none", "empty"} -> Nothing
    [] r.is = "fail" -> Success(r.from)
    [] r.is \in {"ok", "no"} -> r

Keep(s, index, r) == [s EXCEPT !.results = [i \in DOMAIN @ \cup {index} |-> IF i = index THEN r ELSE @[i]]]

RECURSIVE Eval(_, _, _, _, _), Invoke(_, _, _, _, _), Expand(_, _, _, _, _, _)

\* The words from the i-th on, each worth a result: a word is text, and what is missing or fails ends it.
Expand(s, words, i, index, sc, prev) ==
  LET Subst(word) == IF sc.substs < MaxSubsts
                     THEN Invoke(s, Inner(index, i, word), [sc EXCEPT !.substs = @ + 1], prev, Nothing)
                     ELSE Out(Failure(index), s)
      WordOf(word) == CASE word \in DOMAIN Refs -> Out(ResultRef(s, word, prev), s)
                        [] word \in DOMAIN Substs -> Subst(word)
                        [] word \notin DOMAIN Refs \cup DOMAIN Substs -> Out(Success(index), s)
      On(value) == CASE value.r.is \in {"none", "empty", "fail"} -> Out(Failure(index), value.s)
                     [] value.r.is = "wait" -> Out(Waits, value.s)
                     [] value.r.is \in {"ok", "no"} ->
                          IF i = Len(words) THEN value ELSE Expand(value.s, words, i + 1, index, sc, prev)
  IN IF i > Len(words) THEN Out(Success(index), s) ELSE On(WordOf(words[i]))

\* _invoke: refused, on cooldown, its arguments or its expression, and then the handler or the body
Invoke(s, call, sc, prev, stdin) ==
  LET refused == \E f \in sc.found : f.scope = sc.scope /\ f.index = call.index /\ f.refused
      Done(r, t) == Out(r, Logged(t, Ends(sc.scope, call.index, r)))
      Calculated(value, t) == Out(IF value = Missing \/ IsFault(value) THEN Failure(call.index) ELSE Success(call.index), t)
      Arguments(t) == IF call.name \in ExprCommands
                      THEN Calculated(IF call.expr = NoTree THEN Missing ELSE Worth(call.expr), t)
                      ELSE Expand(t, call.args, 1, call.index, sc, prev)
      Returns(r, t) == Done(r, Keep(t, call.index, r))
      Returned(body, results) ==
        IF body.r.is = "wait" THEN body
        ELSE Returns([body.r EXCEPT !.from = call.index], [body.s EXCEPT !.results = results])
      Runs(t) == IF call.name \notin DOMAIN Bodies THEN Returns([is |-> Head(s.answers), from |-> call.index], t)
                 ELSE Returned(Eval([t EXCEPT !.results = <<>>], sc.bodies[call.name],
                                    [sc EXCEPT !.scope = call.name], stdin, stdin), t.results)
      Given(words) == CASE words.r.is = "wait" -> words
                        [] words.r.is = "fail" -> Done(Failure(call.index), words.s)
                        [] Ok(words.r) -> Runs(Logged(words.s, Ran(sc.scope, call, prev, stdin)))
      Answered(answer, t) == IF answer = "cold" THEN Done(Failure(call.index), t) ELSE Given(Arguments(t)) IN
  CASE refused -> Done(Failure(call.index), s)
    [] ~refused /\ s.answers = <<>> -> Out(Waits, [s EXCEPT !.asks = call.name])
    [] ~refused /\ s.answers # <<>> -> Answered(Head(s.answers), [s EXCEPT !.answers = Tail(@)])

Eval(s, n, sc, prev, stdin) ==
  LET Joined(left) == IF Stops(n.t, left.r) THEN left
                      ELSE LET p == Passed(n.t, left.r) IN Eval(left.s, n.r, sc, p.prev, p.stdin)
      Stored(inner) ==
        IF ~Ok(inner.r) THEN inner
        ELSE Out(inner.r, Logged(inner.s, [what |-> "store", scope |-> sc.scope, index |-> inner.r.from, target |-> n.target]))
      Ended(r, t) == Out(r, Logged(t, Ends(sc.scope, 0, r)))
      Branch(branch, t) == IF branch = NoNode THEN Ended(Empty, t) ELSE Eval(t, branch, sc, prev, stdin)
      Decided(cond) == CASE cond.r.is = "wait" -> cond
                         [] cond.r.is = "fail" -> Ended(Failure(0), cond.s)
                         [] Ok(cond.r) -> Branch(IF cond.r.is = "ok" THEN n.yes ELSE n.no, cond.s) IN
  CASE n.t = "call" -> Invoke(s, n, sc, prev, stdin)
    [] n.t = "group" -> Eval(s, n.n, sc, prev, stdin)
    [] n.t \in LogicOps \cup {"|"} -> Joined(Eval(s, n.l, sc, prev, stdin))
    [] n.t \in StoreOps -> Stored(Eval(s, n.n, sc, prev, stdin))
    [] n.t = "ifelse" -> Decided(Expand(s, <<n.cond>>, 1, 100 + CondIndex(n), sc, prev))

Start(answers) == [answers |-> answers, results |-> <<>>, log |-> <<>>, asks |-> ""]

\* A line that preflight let pass, as far as the answers take it
Run(node, found, answers) ==
  Eval(Start(answers), node, [scope |-> "", found |-> found, substs |-> 0, bodies |-> BodyTree], Nothing, Nothing)
=============================================================================
