----------------------------- MODULE CommandRuns -----------------------------
(***************************************************************************)
(* Command runs: what a chat line that is a command goes through, from     *)
(* Dispatcher._run (core/dispatch.py) over CommandRuntime.run              *)
(* (runtime/engine.py) and Executor._invoke (runtime/executor.py) to the   *)
(* reply.  The members of Run are the tasks Dispatcher._spawn starts, all  *)
(* in one channel; they share the slots semaphore, the cooldown buckets    *)
(* and the callback rate limit, and interleave at their awaits.            *)
(*                                                                         *)
(* A line is a sequence of stages joined by `&&` and `||`, which the       *)
(* parser reads from left to right.  A ticket is one acquisition of the    *)
(* semaphore: a run holds one, and a `join` stage asks for a second one    *)
(* when Dispatcher.bot_event runs the channel's bot_joined triggers while  *)
(* the command that joined is still waiting for it.                        *)
(***************************************************************************)
EXTENDS Integers, Sequences, FiniteSets

CONSTANTS
  Run,           \* the commands typed
  User, Tier,    \* chatters, and the roles cooldown rules are for
  UserOf,        \* who typed each line
  TierOf,        \* the role whose rule applies to that chatter
  Cmd,           \* command names
  Rule,          \* per command: the tier and user cooldown, in ticks
  LineOf,        \* the stages of each line
  CallbackLine,  \* the stages of the configured callbacks
  Callbacks,     \* the <<command, kind>> pairs that have a callback
  CallbackGap,   \* CALLBACK_RATE_LIMIT_S, in ticks
  MaxSlots       \* max_concurrent_runs

Kind == {"plain", "write", "act", "join"}
Stage == [cmd : Cmd, kind : Kind, on : {"and", "or"}]
CallbackKind == {"on_cooldown", "on_denied"}

ASSUME CommandRunsAssumption ==
  /\ UserOf \in [Run -> User] /\ TierOf \in [Run -> Tier] /\ User \cap Tier = {}
  /\ Rule \in [Cmd -> [tier : Nat, user : Nat]]
  /\ \A r \in Run : LineOf[r] \in Seq(Stage) /\ LineOf[r] # <<>>
  /\ CallbackLine \in Seq(Stage) /\ CallbackLine # <<>>
  /\ Callbacks \subseteq Cmd \X CallbackKind
  /\ CallbackGap \in Nat
  /\ MaxSlots \in Nat \ {0} /\ IsFiniteSet(Run)

VARIABLES
  pc,         \* where each run is
  phase,      \* "line", or "callback" once _settle runs the configured callback
  at,         \* the stage a run is at
  code,       \* the result so far
  by,         \* the stage that result is of
  dirty,      \* ctx.variables has buffered writes
  invalid,    \* is_cancelled(), as moderation would answer it
  wrote,      \* commit stored writes of the run
  replied,    \* what became of the reply
  holders,    \* tickets that hold a slot
  waitq,      \* tickets that wait for one, oldest first
  cooling,    \* per command and chatter or role: ticks until the bucket is clear
  since,      \* the same: ticks since a stage of it last started (capped)
  muted,      \* per callback key: ticks until callback_expr answers again
  quiet       \* the same: ticks since a callback last ran (capped)

slotVars == <<holders, waitq>>
coolVars == <<cooling, since>>
muteVars == <<muted, quiet>>
runVars == <<phase, at, code, by, dirty>>
vars == <<pc, runVars, invalid, wrote, replied, slotVars, coolVars, muteVars>>

Who == User \cup Tier
CallbackKeys == User \X Cmd \X CallbackKind
Ticket == Run \X {"run", "event"}
Code == {"ok", "fail", "cooldown", "denied", "unknown", "timeout", "cancelled"}
\* Inside `asyncio.timeout(stage_timeout)`.
InStage == {"handling", "nestwait", "nested"}
\* Inside `asyncio.timeout(expr_timeout)`, at an await.
Evaluating == {"stage", "expanding"} \cup InStage
Location == {"new", "queued", "checking", "committing", "settling", "replying", "done"} \cup Evaluating

\* The cooldown of a command for the bucket of a role or of a chatter.
RuleOf(c, w) == IF w \in Tier THEN Rule[c].tier ELSE Rule[c].user

Init ==
  /\ pc = [r \in Run |-> "new"]
  /\ phase = [r \in Run |-> "line"]
  /\ at = [r \in Run |-> 1]
  /\ code = [r \in Run |-> "ok"]
  /\ by = [r \in Run |-> 1]
  /\ dirty = [r \in Run |-> FALSE]
  /\ invalid = [r \in Run |-> FALSE]
  /\ wrote = [r \in Run |-> FALSE]
  /\ replied = [r \in Run |-> "none"]
  /\ holders = {}
  /\ waitq = <<>>
  /\ cooling = [c \in Cmd |-> [w \in Who |-> 0]]
  /\ since = [c \in Cmd |-> [w \in Who |-> RuleOf(c, w)]]
  /\ muted = [k \in CallbackKeys |-> 0]
  /\ quiet = [k \in CallbackKeys |-> CallbackGap]

-----------------------------------------------------------------------------
(* The slots: asyncio.Semaphore(max_concurrent_runs), first come first     *)
(* served.                                                                 *)

HasRoom == waitq = <<>> /\ Cardinality(holders) < MaxSlots

\* `async with self._slots`: in at once, or behind everyone already waiting.
Ask(t, r, inside, outside) ==
  IF HasRoom
  THEN holders' = holders \cup {t} /\ waitq' = waitq /\ pc' = [pc EXCEPT ![r] = inside]
  ELSE holders' = holders /\ waitq' = Append(waitq, t) /\ pc' = [pc EXCEPT ![r] = outside]

\* Where a run goes on when its ticket gets a slot.
Inside(t) == IF t[2] = "run" THEN "checking" ELSE "nested"

\* Mutant: the slot is free again, and nobody who waits is told.
GiveBackUntold(t, r, to) ==
  holders' = holders \ {t} /\ waitq' = waitq /\ pc' = [pc EXCEPT ![r] = to]

\* The block is left: the slot goes to the ticket that waits longest.
GiveBack(t, r, to) ==
  IF waitq = <<>>
  THEN holders' = holders \ {t} /\ waitq' = waitq /\ pc' = [pc EXCEPT ![r] = to]
  ELSE LET next == Head(waitq)
       IN /\ holders' = (holders \ {t}) \cup {next}
          /\ waitq' = Tail(waitq)
          /\ pc' = [pc EXCEPT ![r] = to, ![next[1]] = Inside(next)]

\* A queue without its i-th ticket.
Without(q, i) == [j \in 1 .. Len(q) - 1 |-> IF j < i THEN q[j] ELSE q[j + 1]]

\* A task that is cancelled in the queue leaves it.
Leave(t, r, to) ==
  /\ \E i \in DOMAIN waitq : waitq[i] = t /\ waitq' = Without(waitq, i)
  /\ holders' = holders
  /\ pc' = [pc EXCEPT ![r] = to]

\* The run moves on without touching the slots.
Go(r, to) == pc' = [pc EXCEPT ![r] = to] /\ UNCHANGED slotVars

\* Whatever a stage holds or waits for is given up when its block is left.
LeaveStage(r, to) ==
  CASE pc[r] = "nested" -> GiveBack(<<r, "event">>, r, to)
    [] pc[r] = "nestwait" -> Leave(<<r, "event">>, r, to)
    [] OTHER -> Go(r, to)

-----------------------------------------------------------------------------
(* The policy: cooldowns and callbacks. *)

Line(r) == IF phase[r] = "line" THEN LineOf[r] ELSE CallbackLine
This(r) == Line(r)[at[r]]
Buckets(r) == {UserOf[r], TierOf[r]}

\* _waiting: whether the role's bucket and the chatter's are both clear.
Ready(r, c) == \A w \in Buckets(r) : cooling[c][w] = 0

\* CooldownTracker.commit: both buckets start again; a zero rule leaves its bucket.
Cool(r, c) ==
  /\ cooling' = [cooling EXCEPT ![c] =
       [w \in Who |-> IF w \in Buckets(r) /\ RuleOf(c, w) > 0 THEN RuleOf(c, w) ELSE @[w]]]
  /\ since' = [since EXCEPT ![c] = [w \in Who |-> IF w \in Buckets(r) THEN 0 ELSE @[w]]]

\* Mutant: what the look before the arguments said is taken for granted.
ClaimUnseen(r, c) == TRUE

\* claim_cooldown looks again, with no await before the handler.
MayClaim(r, c) == Ready(r, c)

CallbackKey(r) ==
  <<UserOf[r], Line(r)[by[r]].cmd, IF code[r] = "cooldown" THEN "on_cooldown" ELSE "on_denied">>

\* Mutant: a callback that is configured is always answered.
CallbackUnlimited(k) == <<k[2], k[3]>> \in Callbacks

\* callback_expr: one is configured, and its key was not answered lately.
CallbackReady(k) == <<k[2], k[3]>> \in Callbacks /\ muted[k] = 0

-----------------------------------------------------------------------------
(* One run. *)

\* The first stage after this one that a result with this code reaches.
NextStage(r, c) ==
  LET on == IF c = "ok" THEN "and" ELSE "or"
      reached == {i \in at[r] + 1 .. Len(Line(r)) : Line(r)[i].on = on}
  IN IF reached = {} THEN Len(Line(r)) + 1
     ELSE CHOOSE i \in reached : \A j \in reached : i <= j

\* The stage's Result is c, and evaluation goes on behind it or is over.
Result(r, c) ==
  /\ code' = [code EXCEPT ![r] = c]
  /\ by' = [by EXCEPT ![r] = at[r]]
  /\ at' = [at EXCEPT ![r] = NextStage(r, c)]
  /\ UNCHANGED phase

After(r, c) == IF NextStage(r, c) > Len(Line(r)) THEN "committing" ELSE "stage"

\* RunCancelled or the expression's TimeoutError: the write buffer is discarded.
GiveUp(r, c) ==
  /\ code' = [code EXCEPT ![r] = c]
  /\ dirty' = [dirty EXCEPT ![r] = FALSE]
  /\ UNCHANGED <<phase, at, by, invalid, wrote, replied, coolVars, muteVars>>

\* A command is typed: _spawn, and the task asks for its slot.
Arrive(r) ==
  /\ pc[r] = "new"
  /\ Ask(<<r, "run">>, r, "checking", "queued")
  /\ UNCHANGED <<runVars, invalid, wrote, replied, coolVars, muteVars>>

\* resolver_for and preflight let the line run.
Permit(r) ==
  /\ pc[r] = "checking"
  /\ Go(r, "stage")
  /\ UNCHANGED <<runVars, invalid, wrote, replied, coolVars, muteVars>>

\* Preflight refuses one of its commands, and nothing runs.
Refuse(r) ==
  /\ pc[r] = "checking"
  /\ \E c \in {"denied", "unknown", "fail"}, i \in 1 .. Len(Line(r)) :
       code' = [code EXCEPT ![r] = c] /\ by' = [by EXCEPT ![r] = i]
  /\ Go(r, "settling")
  /\ UNCHANGED <<phase, at, dirty, invalid, wrote, replied, coolVars, muteVars>>

\* _invoke up to the arguments: moderated away, or on cooldown, or on to them.
Look(r) ==
  /\ pc[r] = "stage"
  /\ IF invalid[r]
     THEN Go(r, "settling") /\ GiveUp(r, "cancelled")
     ELSE IF Ready(r, This(r).cmd)
          THEN Go(r, "expanding")
               /\ UNCHANGED <<runVars, invalid, wrote, replied, coolVars, muteVars>>
          ELSE Go(r, After(r, "cooldown")) /\ Result(r, "cooldown")
               /\ UNCHANGED <<dirty, invalid, wrote, replied, coolVars, muteVars>>

\* The arguments do not expand, or do not fit the command's parameters.
BadArguments(r) ==
  /\ pc[r] = "expanding"
  /\ Go(r, After(r, "fail")) /\ Result(r, "fail")
  /\ UNCHANGED <<dirty, invalid, wrote, replied, coolVars, muteVars>>

\* Mutant: the moderation index is asked before the arguments only.
StartUnasked(r) ==
  /\ pc[r] = "expanding"
  /\ IF MayClaim(r, This(r).cmd)
     THEN Cool(r, This(r).cmd) /\ Go(r, "handling")
          /\ UNCHANGED <<runVars, invalid, wrote, replied, muteVars>>
     ELSE Go(r, After(r, "cooldown")) /\ Result(r, "cooldown")
          /\ UNCHANGED <<dirty, invalid, wrote, replied, coolVars, muteVars>>

\* The arguments are there: the cooldown is claimed and the handler runs, after
\* one more look at the moderation index if it acts on Twitch.
Start(r) ==
  /\ pc[r] = "expanding"
  /\ IF ~MayClaim(r, This(r).cmd)
     THEN Go(r, After(r, "cooldown")) /\ Result(r, "cooldown")
          /\ UNCHANGED <<dirty, invalid, wrote, replied, coolVars, muteVars>>
     ELSE /\ Cool(r, This(r).cmd)
          /\ UNCHANGED <<phase, at, by, invalid, wrote, replied, muteVars>>
          /\ IF This(r).kind = "act" /\ invalid[r]
             THEN /\ Go(r, "settling")
                  /\ code' = [code EXCEPT ![r] = "cancelled"]
                  /\ dirty' = [dirty EXCEPT ![r] = FALSE]
             ELSE Go(r, "handling") /\ UNCHANGED <<code, dirty>>

\* The join's bot_joined triggers ask for a slot of their own.
AskForEvent(r) ==
  /\ pc[r] = "handling" /\ This(r).kind = "join"
  /\ Ask(<<r, "event">>, r, "nested", "nestwait")
  /\ UNCHANGED <<runVars, invalid, wrote, replied, coolVars, muteVars>>

\* The handler returns or raises; a `write` has buffered its WriteOp if it is ok.
Return(r) ==
  /\ pc[r] \in {"handling", "nested"}
  /\ \E c \in {"ok", "fail"} :
       /\ LeaveStage(r, After(r, c)) /\ Result(r, c)
       /\ dirty' = [dirty EXCEPT ![r] = @ \/ (c = "ok" /\ This(r).kind = "write")]
  /\ UNCHANGED <<invalid, wrote, replied, coolVars, muteVars>>

\* Mutant: what runs under a slot of its own is not the stage's to cancel.
StageTimeoutUnlessNested(r) ==
  /\ pc[r] = "handling"
  /\ LeaveStage(r, After(r, "timeout")) /\ Result(r, "timeout")
  /\ UNCHANGED <<dirty, invalid, wrote, replied, coolVars, muteVars>>

\* STAGE_TIMEOUT_S is over: the handler is cancelled wherever it waits.
StageTimeout(r) ==
  /\ pc[r] \in InStage
  /\ LeaveStage(r, After(r, "timeout")) /\ Result(r, "timeout")
  /\ \/ UNCHANGED dirty
     \/ This(r).kind = "write" /\ dirty' = [dirty EXCEPT ![r] = TRUE]
  /\ UNCHANGED <<invalid, wrote, replied, coolVars, muteVars>>

\* EXPR_TIMEOUT_S is over.
ExprTimeout(r) ==
  /\ pc[r] \in {"expanding"} \cup InStage
  /\ LeaveStage(r, "settling") /\ GiveUp(r, "timeout")

\* The write buffer is committed, or a VariableError keeps all of it out.
Commit(r) ==
  /\ pc[r] = "committing"
  /\ Go(r, "settling")
  /\ dirty' = [dirty EXCEPT ![r] = FALSE]
  /\ \/ wrote' = [wrote EXCEPT ![r] = @ \/ dirty[r]] /\ UNCHANGED code
     \/ dirty[r] /\ code' = [code EXCEPT ![r] = "fail"] /\ UNCHANGED wrote
  /\ UNCHANGED <<phase, at, by, invalid, replied, coolVars, muteVars>>

\* _settle for a refusal: the configured callback runs in the place of a reply.
RunCallback(r) ==
  /\ pc[r] = "settling" /\ phase[r] = "line" /\ code[r] \in {"cooldown", "denied"}
  /\ LET k == CallbackKey(r)
     IN /\ CallbackReady(k)
        /\ muted' = [muted EXCEPT ![k] = CallbackGap]
        /\ quiet' = [quiet EXCEPT ![k] = 0]
  /\ phase' = [phase EXCEPT ![r] = "callback"]
  /\ at' = [at EXCEPT ![r] = 1]
  /\ by' = [by EXCEPT ![r] = 1]
  /\ code' = [code EXCEPT ![r] = "ok"]
  /\ Go(r, "checking")
  /\ UNCHANGED <<dirty, invalid, wrote, replied, coolVars>>

\* decide_output: what may be said, if the Result has a message and errors are not quiet.
Says(r) == \/ code[r] \in {"ok", "fail", "timeout"}
           \/ code[r] = "unknown" /\ (by[r] # 1 \/ phase[r] = "callback")

\* The run is logged and its reply goes to the outbox.
SendReply(r) ==
  /\ pc[r] = "settling" /\ Says(r)
  /\ Go(r, "replying")
  /\ UNCHANGED <<runVars, invalid, wrote, replied, coolVars, muteVars>>

\* There is nothing to say.
EndSilently(r) ==
  /\ pc[r] = "settling"
  /\ phase[r] = "line" /\ code[r] \in {"cooldown", "denied"} => ~CallbackReady(CallbackKey(r))
  /\ GiveBack(<<r, "run">>, r, "done")
  /\ UNCHANGED <<runVars, invalid, wrote, replied, coolVars, muteVars>>

\* The outbox asks moderation once more and sends, and the task ends.
Reply(r) ==
  /\ pc[r] = "replying"
  /\ replied' = [replied EXCEPT ![r] = IF invalid[r] THEN "moderated" ELSE "sent"]
  /\ GiveBack(<<r, "run">>, r, "done")
  /\ UNCHANGED <<runVars, invalid, wrote, coolVars, muteVars>>

\* Anything else that is raised, a database that is gone for one, ends the task.
Crash(r) ==
  /\ pc[r] \in {"checking", "committing"}
  /\ dirty' = [dirty EXCEPT ![r] = FALSE]
  /\ GiveBack(<<r, "run">>, r, "done")
  /\ UNCHANGED <<phase, at, code, by, invalid, wrote, replied, coolVars, muteVars>>

-----------------------------------------------------------------------------
(* The world around the runs. *)

\* A moderator deletes the message, or times its author out, or clears the chat.
Moderate(r) ==
  /\ pc[r] # "done" /\ ~invalid[r]
  /\ invalid' = [invalid EXCEPT ![r] = TRUE]
  /\ UNCHANGED <<pc, runVars, wrote, replied, slotVars, coolVars, muteVars>>

\* What is left of a wait, and how long ago something was, one tick later.
Down(n) == IF n > 0 THEN n - 1 ELSE 0
UpTo(n, top) == IF n < top THEN n + 1 ELSE n

\* Time passes.
Tick ==
  /\ cooling' = [c \in Cmd |-> [w \in Who |-> Down(cooling[c][w])]]
  /\ since' = [c \in Cmd |-> [w \in Who |-> UpTo(since[c][w], RuleOf(c, w))]]
  /\ muted' = [k \in CallbackKeys |-> Down(muted[k])]
  /\ quiet' = [k \in CallbackKeys |-> UpTo(quiet[k], CallbackGap)]
  /\ UNCHANGED <<pc, runVars, invalid, wrote, replied, slotVars>>

\* The event loop, the database and Helix get on with a run.
Progress(r) ==
  \/ Permit(r) \/ Refuse(r) \/ Look(r) \/ BadArguments(r) \/ Start(r) \/ Commit(r)
  \/ RunCallback(r) \/ SendReply(r) \/ EndSilently(r) \/ Reply(r) \/ Crash(r)

RunStep(r) ==
  \/ Arrive(r) \/ Progress(r) \/ AskForEvent(r) \/ Return(r)
  \/ StageTimeout(r) \/ ExprTimeout(r)

Next == (\E r \in Run : RunStep(r) \/ Moderate(r)) \/ Tick

Spec == Init /\ [][Next]_vars

(* The event loop resumes a run whose await is over, the database and Helix *)
(* answer (both have their own timeouts), and a handler may hang, but       *)
(* asyncio.timeout ends its stage.  The expression's timeout is not needed. *)
FairSpec == Spec /\ \A r \in Run : WF_vars(Progress(r)) /\ WF_vars(StageTimeout(r))

-----------------------------------------------------------------------------
(* Properties. *)

\* Every variable has its type.
TypeOK ==
  /\ pc \in [Run -> Location]
  /\ phase \in [Run -> {"line", "callback"}]
  /\ at \in [Run -> Nat] /\ by \in [Run -> Nat]
  /\ code \in [Run -> Code]
  /\ dirty \in [Run -> BOOLEAN] /\ invalid \in [Run -> BOOLEAN] /\ wrote \in [Run -> BOOLEAN]
  /\ replied \in [Run -> {"none", "sent", "moderated"}]
  /\ holders \subseteq Ticket /\ waitq \in Seq(Ticket)
  /\ cooling \in [Cmd -> [Who -> Nat]] /\ since \in [Cmd -> [Who -> Nat]]
  /\ muted \in [CallbackKeys -> Nat] /\ quiet \in [CallbackKeys -> Nat]

\* Whether a run at p is inside a slots block with its ticket of kind k, or waits at one.
Seats(k, p) == IF k = "run" THEN p \notin {"new", "queued", "done"} ELSE p = "nested"
Waits(k, p) == IF k = "run" THEN p = "queued" ELSE p = "nestwait"
Seated == {t \in Ticket : Seats(t[2], pc[t[1]])}
Waiting == {t \in Ticket : Waits(t[2], pc[t[1]])}

\* Exactly the runs inside a slots block hold a slot, never more than there are,
\* and a free slot is never left while somebody waits, whatever order runs end,
\* time out and cancel in (Dispatcher._slots).
SlotDiscipline ==
  /\ holders = Seated
  /\ {waitq[i] : i \in DOMAIN waitq} = Waiting
  /\ \A i, j \in DOMAIN waitq : waitq[i] = waitq[j] => i = j
  /\ Cardinality(holders) <= MaxSlots
  /\ waitq # <<>> => Cardinality(holders) = MaxSlots

\* Two starts of a command from the same bucket are at least its cooldown apart,
\* however long the arguments of either took to expand (ADR-0006, _invoke).
CooldownHonoured ==
  [][\A r \in Run :
       pc[r] = "expanding" /\ pc'[r] = "handling" =>
         \A w \in Buckets(r) : since[This(r).cmd][w] >= RuleOf(This(r).cmd, w)]_vars

\* A command that acts on Twitch does not start once its message was moderated
\* away, at any time up to the expansion of its arguments (architecture 4.3).
NoActAfterModeration ==
  [][\A r \in Run :
       pc[r] = "expanding" /\ pc'[r] = "handling" /\ This(r).kind = "act" => ~invalid[r]]_vars

\* The callback of one chatter, command and refusal answers at most once in
\* CALLBACK_RATE_LIMIT_S, also when several of their lines are refused at once.
CallbacksSpaced ==
  [][\A k \in CallbackKeys : quiet'[k] < quiet[k] => quiet[k] >= CallbackGap]_vars

\* Every command that was typed is over some time, also when each one that holds
\* a slot is a join that waits for another (Dispatcher.bot_event inside _run).
EveryRunEnds == \A r \in Run : (pc[r] # "new") ~> (pc[r] = "done")
=============================================================================
