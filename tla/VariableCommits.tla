--------------------------- MODULE VariableCommits ---------------------------
(***************************************************************************)
(* Variables: `!var`, the stores of a command line (`-> channel.x`,        *)
(* `--> channel.x`), customecho and the variable pages of the web; the     *)
(* buffer of a run (VariableSession, runtime/variables.py), who may write  *)
(* (variables/access.py), the limits of an owner and their commands, and   *)
(* the commit (PostgresVariableStore.commit, variables/store.py) over the  *)
(* one connection all of the process shares (storage/db.py).               *)
(*                                                                         *)
(* A run is a line of chat, its stages one after another, each failing     *)
(* stage ending it, or a web request, which buffers nothing and commits    *)
(* its one write.  There is one channel.                                   *)
(***************************************************************************)
EXTENDS VariableValues

CONSTANTS
  Run,        \* the runs
  Lines,      \* what the runs may be asked at once: per run, a sequence of stages
  Who,        \* per run: [invoker, publisher, actor, reaches, admin, manages, grants]
  First,      \* per run: the result a store of its first stage stores
  Key,        \* the variables: [ns, chatter, name]
  Start,      \* what is stored at first
  Nobody,     \* no invoker, or a variable that is no chatter's
  Defaults,   \* the default row of variable_limits
  Settings,   \* the changes of limits that are asked for: [of, field, to]
  Patches,    \* what the limits page may send: sequences of them
  MaxSettings \* bound: how many are asked for

Namespace == {"chatter", "channel", "channel.chatter", "publisher"}
Field == {"quota", "cap", "items", "names"}

\* The quota owner of a key: its namespace's first segment and key1.
Owner(key) == IF key.ns \in {"channel", "channel.chatter"} THEN Nobody ELSE key.chatter
Owners == {Owner(key) : key \in Key}
Space(key) == <<key.ns, key.chatter>>

\* An override that says nothing: the default applies.
Unset == -1

ASSUME VariableCommitsAssumption ==
  /\ \A key \in Key : key.ns \in Namespace
  /\ DOMAIN Start = Key /\ DOMAIN Defaults = Field
  /\ \A f \in Field : Defaults[f] \in Nat

VARIABLES
  pc,       \* where each run is
  line,     \* what it was asked
  at,       \* the stage it is at, then the op its commit is at
  result,   \* the value of its last stage
  overlay,  \* VariableSession._overlay
  seen,     \* VariableSession._limits: an owner's limits, as first read
  ops,      \* VariableSession.ops
  outcome,  \* what became of the run's writes
  db,       \* what is stored
  work,     \* what a statement on the connection sees, in a transaction or not
  lockq,    \* write_lock(conn): its holder, then who waits
  limits,   \* variable_limits: the default row and an override per owner
  patch,    \* what the limits page has still to set
  settings  \* how many limits were set

session == <<line, result, overlay, seen>>
vars == <<pc, session, at, ops, outcome, db, work, lockq, limits, patch, settings>>

\* Nothing in the overlay of a run.
Unwritten == [type |-> "unwritten"]

\* limits_for: field by field the owner's override where it has one.
LimitsOf(o) ==
  [f \in Field |-> IF limits[o][f] # Unset THEN limits[o][f] ELSE limits["default"][f]]

MinOf(a, b) == IF a < b THEN a ELSE b

Total(v, keys) == FoldSet(LAMBDA key, sum : sum + Size(v[key]), 0, keys)
Used(v, o) == Total(v, {key \in Key : Owner(key) = o})

Init ==
  /\ pc = [r \in Run |-> "evaluating"]
  /\ line \in Lines
  /\ at = [r \in Run |-> 1]
  /\ result = First
  /\ overlay = [r \in Run |-> [key \in Key |-> Unwritten]]
  /\ seen = [r \in Run |-> [o \in {} |-> Defaults]]
  /\ ops = [r \in Run |-> <<>>]
  /\ outcome = [r \in Run |-> "none"]
  /\ db = Start /\ work = db
  /\ lockq = <<>>
  /\ limits = [o \in Owners \cup {"default"} |->
                 IF o = "default" THEN Defaults ELSE [f \in Field |-> Unset]]
  /\ patch = <<>> /\ settings = 0

-----------------------------------------------------------------------------
(* Who may write what. *)

\* key_for: the key in this run; a chatter's needs a chatter.
Addressed(r, s) ==
  /\ s.ns \in {"chatter", "channel.chatter"} => Who[r].invoker # Nobody
  /\ s.ns = "publisher" => Who[r].publisher # Nobody
KeyFor(r, s) == [ns |-> s.ns, name |-> s.name,
                 chatter |-> IF s.ns = "channel" THEN Nobody
                             ELSE IF s.ns = "publisher" THEN Who[r].publisher ELSE Who[r].invoker]

\* can_write: what an actor may write in each namespace.
CanWrite(r, s) ==
  LET who == Who[r]
      granted == who.actor = "foreign_pub" /\ <<s.ns, s.name>> \in who.grants
      own == who.actor \in {"typed", "own_cc", "trigger"}
  IN CASE s.ns = "publisher" -> who.actor \in {"own_cc", "foreign_link", "foreign_pub"}
       [] s.ns = "chatter" -> who.actor \in {"typed", "own_cc"}
       [] s.ns = "channel" -> (own /\ who.reaches) \/ granted
       [] s.ns = "channel.chatter" -> own \/ granted

Stores(r) == SelectSeq(line[r], LAMBDA s : s.do = "store")

\* Preflight: a line that stores where it may not is refused before it starts.
Allowed(r) == \A i \in DOMAIN Stores(r) : Addressed(r, Stores(r)[i]) /\ CanWrite(r, Stores(r)[i])

\* `!var del <variable> <user>`: one's own, or with the channel's var_admin_role.
MayDelete(r, s, chatter) ==
  IF chatter = Who[r].invoker THEN CanWrite(r, s)
  ELSE Who[r].admin /\ s.ns = "channel.chatter"

-----------------------------------------------------------------------------
(* Evaluation: reads see the run's own writes, then what the connection    *)
(* sees, which inside another run's transaction is not committed yet.      *)

\* VariableSession.get.
Value(r, key) == IF overlay[r][key] # Unwritten THEN overlay[r][key] ELSE work[key]

\* VariableSession.limits: read once per run and owner.
Limits(r, o) == IF o \in DOMAIN seen[r] THEN seen[r][o] ELSE LimitsOf(o)

\* A new name in a space with all the names it may have.
TooManyNames(r, key) ==
  LET names == {k \in Key : /\ Space(k) = Space(key)
                            /\ \/ ~IsMissing(work[k])
                               \/ overlay[r][k].type \notin {"unwritten", "missing"}}
  IN IsMissing(Value(r, key)) /\ key \notin names
     /\ Cardinality(names) >= Limits(r, Owner(key)).names

\* VariableSession.buffer: applied to what the run sees, within the limits it knows.
Buffer(r, op, then) ==
  LET new == ApplyOp(Value(r, op.key), op, Limits(r, Owner(op.key))) IN
  /\ ~Failed(new)
  /\ ~IsMissing(new) => /\ Size(new) <= Limits(r, Owner(op.key)).cap
                        /\ ~TooManyNames(r, op.key)
  /\ overlay' = [overlay EXCEPT ![r][op.key] = new]
  /\ seen' = [seen EXCEPT ![r] = Owner(op.key) :> Limits(r, Owner(op.key)) @@ @]
  /\ ops' = [ops EXCEPT ![r] = Append(@, op)]
  /\ at' = [at EXCEPT ![r] = @ + 1]
  /\ result' = [result EXCEPT ![r] = IF then = "item" THEN @ ELSE IF then = "stored" THEN Read(new, op.path)
                                     ELSE Text(then)]

Op(kind, key, s) == [kind |-> kind, key |-> key, path |-> s.path, value |-> s.value]

Stage(r) == line[r][at[r]]
Evaluating(r, do) ==
  pc[r] = "evaluating" /\ at[r] <= Len(line[r]) /\ Stage(r).do = do /\ Allowed(r)

\* `-> channel.x` and `--> channel.x` store the value of the stage before.
StoreResult(r) ==
  /\ Evaluating(r, "store")
  /\ LET s == Stage(r)
     IN Buffer(r, [kind |-> s.kind, key |-> KeyFor(r, s), path |-> s.path, value |-> result[r]], "item")
  /\ UNCHANGED <<pc, line, outcome, db, work, lockq, limits, patch, settings>>

\* `!var get`.
VarGet(r) ==
  /\ Evaluating(r, "get") /\ Addressed(r, Stage(r))
  /\ LET found == Read(Value(r, KeyFor(r, Stage(r))), Stage(r).path)
     IN /\ ~Failed(found) /\ ~IsMissing(found)
        /\ result' = [result EXCEPT ![r] = found]
  /\ at' = [at EXCEPT ![r] = @ + 1]
  /\ UNCHANGED <<pc, line, overlay, seen, ops, outcome, db, work, lockq, limits, patch, settings>>

\* `!var list` of a space and `!var usage` of its owner read what the connection sees,
\* not the run's own writes; what they answer can be stored like any value.
VarList(r) ==
  /\ Evaluating(r, "list") /\ Addressed(r, Stage(r))
  /\ LET space == Space(KeyFor(r, Stage(r)))
         entries == {key \in Key : Space(key) = space /\ ~IsMissing(work[key])}
         Entry(name) == CHOOSE key \in entries : key.name = name
     IN result' = [result EXCEPT ![r] = Map([name \in {key.name : key \in entries} |-> work[Entry(name)]])]
  /\ at' = [at EXCEPT ![r] = @ + 1]
  /\ UNCHANGED <<pc, line, overlay, seen, ops, outcome, db, work, lockq, limits, patch, settings>>

VarUsage(r) ==
  /\ Evaluating(r, "usage") /\ Addressed(r, Stage(r))
  /\ LET o == Owner(KeyFor(r, Stage(r)))
     IN result' = [result EXCEPT ![r] = Map("used" :> Number(Used(work, o)) @@ "quota" :> Number(LimitsOf(o).quota))]
  /\ at' = [at EXCEPT ![r] = @ + 1]
  /\ UNCHANGED <<pc, line, overlay, seen, ops, outcome, db, work, lockq, limits, patch, settings>>

\* `!var top`: the chatters' numbers, the highest first, at most as many as asked for.
VarTop(r) ==
  /\ Evaluating(r, "top") /\ Who[r].invoker # Nobody
  /\ LET s == Stage(r)
         rows == {key \in Key : key.ns = s.ns /\ key.name = s.name /\ work[key].type = "number"}
         ranked == SetToSortSeq(rows, LAMBDA a, b : work[a].number > work[b].number)
         Shown(i) == Map("rank" :> Number(i) @@ "value" :> work[ranked[i]])
     IN /\ s.ns = "channel.chatter"
        /\ result' = [result EXCEPT ![r] = List([i \in 1..MinOf(s.value.number, Len(ranked)) |-> Shown(i)])]
  /\ at' = [at EXCEPT ![r] = @ + 1]
  /\ UNCHANGED <<pc, line, overlay, seen, ops, outcome, db, work, lockq, limits, patch, settings>>

\* `!var set` and `!var incr`.
VarSet(r) ==
  /\ \/ Evaluating(r, "set")
     \/ Evaluating(r, "incr")
  /\ CanWrite(r, Stage(r)) /\ Addressed(r, Stage(r))
  /\ Buffer(r, Op(Stage(r).do, KeyFor(r, Stage(r)), Stage(r)), "stored")
  /\ UNCHANGED <<pc, line, outcome, db, work, lockq, limits, patch, settings>>

\* `!var pop` reads the item it will return...
VarPop(r) ==
  /\ Evaluating(r, "pop")
  /\ CanWrite(r, Stage(r)) /\ Addressed(r, Stage(r))
  /\ LET key == KeyFor(r, Stage(r))
         item == PopItem(Value(r, key), Op("pop", key, Stage(r)))
     IN ~Failed(item) /\ result' = [result EXCEPT ![r] = item]
  /\ pc' = [pc EXCEPT ![r] = "popping"]
  /\ UNCHANGED <<at, line, overlay, seen, ops, outcome, db, work, lockq, limits, patch, settings>>

\* ...and buffers the pop, which reads the list again; the op says only which index.
BufferPop(r) ==
  /\ pc[r] = "popping"
  /\ Buffer(r, Op("pop", KeyFor(r, Stage(r)), Stage(r)), "item")
  /\ pc' = [pc EXCEPT ![r] = "evaluating"]
  /\ UNCHANGED <<line, outcome, db, work, lockq, limits, patch, settings>>

\* `!var del`, of one's own or of another user's.
VarDel(r) ==
  /\ Evaluating(r, "del")
  /\ LET s == Stage(r)
         key == IF s.user = Nobody THEN KeyFor(r, s) ELSE [KeyFor(r, s) EXCEPT !.chatter = s.user]
     IN /\ IF s.user = Nobody THEN Addressed(r, s) /\ CanWrite(r, s) ELSE MayDelete(r, s, s.user)
        /\ ~IsMissing(Value(r, key))
        /\ Buffer(r, Op("delete", key, s), "deleted")
  /\ UNCHANGED <<pc, line, outcome, db, work, lockq, limits, patch, settings>>

\* `!customecho set` and `clear`: a key of channel.customecho, which is a map.
CustomEcho(r) ==
  /\ Evaluating(r, "echo")
  /\ LET s == Stage(r)
         key == KeyFor(r, s)
         stored == Value(r, key)
     IN /\ IF s.kind = "set" THEN IsMissing(stored) \/ stored.type = "map"
           ELSE stored.type = "map" /\ s.path[1].name \in DOMAIN stored.of
        /\ Buffer(r, Op(s.kind, key, s), "said")
  /\ UNCHANGED <<pc, line, outcome, db, work, lockq, limits, patch, settings>>

\* To the connection's write lock.
Queue(r) ==
  /\ pc' = [pc EXCEPT ![r] = IF lockq = <<>> THEN "applying" ELSE "waiting"]
  /\ lockq' = Append(lockq, r)

(* The pages: who may make the write, and what it must find there. *)

\* customecho: a moderator's, a key of a map.
EchoPage(r, s, stored) ==
  /\ s.do = "echo page" /\ Who[r].manages
  /\ IF s.kind = "set" THEN IsMissing(stored) \/ stored.type = "map"
     ELSE stored.type = "map" /\ s.path[1].name \in DOMAIN stored.of

\* The channel's variables: for whoever reaches channel_var_write_role.
ChannelPage(r, s, stored) ==
  /\ s.do = "channel page" /\ Who[r].reaches
  /\ s.kind = "delete" => ~IsMissing(stored)

\* A chatter's value in the channel: the chatter's, or anyone's with var_admin_role.
ChatterPage(r, s, stored) ==
  /\ s.do = "chatter page" /\ (s.user = Who[r].invoker \/ Who[r].admin)
  /\ ~IsMissing(stored)

\* One's own variables.
MyPage(r, s, stored) ==
  /\ s.do = "my page" /\ (s.kind = "delete" => ~IsMissing(stored))

\* A page's write: checked against what is read now, then committed alone.
WebWrite(r) ==
  /\ pc[r] = "evaluating" /\ at[r] = 1 /\ Len(line[r]) = 1
  /\ LET s == line[r][1]
         key == IF s.user = Nobody THEN KeyFor(r, s) ELSE [KeyFor(r, s) EXCEPT !.chatter = s.user]
     IN /\ \/ EchoPage(r, s, work[key])
           \/ ChannelPage(r, s, work[key])
           \/ ChatterPage(r, s, work[key])
           \/ MyPage(r, s, work[key])
        /\ ops' = [ops EXCEPT ![r] = <<Op(s.kind, key, s)>>]
  /\ Queue(r)
  /\ UNCHANGED <<session, at, outcome, db, work, limits, patch, settings>>

\* The evaluation is over, at its end or at a stage that fails (or is on cooldown,
\* or times out): what is buffered is committed whatever the code.
EndEvaluation(r) ==
  /\ pc[r] \in {"evaluating", "popping"}
  /\ at' = [at EXCEPT ![r] = 1]
  /\ \/ /\ ops[r] = <<>>
        /\ pc' = [pc EXCEPT ![r] = "done"]
        /\ outcome' = [outcome EXCEPT ![r] = "empty"]
        /\ UNCHANGED lockq
     \/ /\ ops[r] # <<>>
        /\ Queue(r)
        /\ UNCHANGED outcome
  /\ UNCHANGED <<session, ops, db, work, limits, patch, settings>>

\* Moderation or the expression's timeout: VariableSession.discard.
Discard(r) ==
  /\ pc[r] \in {"evaluating", "popping"}
  /\ pc' = [pc EXCEPT ![r] = "done"]
  /\ outcome' = [outcome EXCEPT ![r] = "discarded"]
  /\ UNCHANGED <<session, at, ops, db, work, lockq, limits, patch, settings>>

-----------------------------------------------------------------------------
(* Commit: one transaction, op by op, under the connection's write lock. *)

\* The transaction is over and the lock goes to who waits longest.
Release(r) ==
  /\ lockq' = Tail(lockq)
  /\ pc' = [q \in Run |-> IF q = r THEN "done"
                          ELSE IF Len(lockq) > 1 /\ q = lockq[2] THEN "applying" ELSE pc[q]]

\* What the next op makes of the value that is there now, under the limits there are now.
Applying(r) == pc[r] = "applying" /\ at[r] <= Len(ops[r])

\* Mutant: the commit trusts the limits its run read when it buffered.
StoredUnderSeen(r) ==
  LET op == ops[r][at[r]]
      new == ApplyOp(work[op.key], op, Limits(r, Owner(op.key)))
  IN IF Size(new) > Limits(r, Owner(op.key)).cap THEN Failure("E_VALUE_TOO_BIG") ELSE new

Stored(r) ==
  LET op == ops[r][at[r]]
      new == ApplyOp(work[op.key], op, LimitsOf(Owner(op.key)))
  IN IF ~Failed(new) /\ Size(new) > LimitsOf(Owner(op.key)).cap THEN Failure("E_VALUE_TOO_BIG") ELSE new

\* Mutant: no transaction, so each statement is stored as it is run.
ApplyAutocommit(r) ==
  /\ Applying(r) /\ ~Failed(Stored(r))
  /\ work' = [work EXCEPT ![ops[r][at[r]].key] = Stored(r)] /\ db' = work'
  /\ at' = [at EXCEPT ![r] = @ + 1]
  /\ UNCHANGED <<pc, session, ops, outcome, lockq, limits, patch, settings>>

\* One op of the commit.
ApplyNext(r) ==
  /\ Applying(r) /\ ~Failed(Stored(r))
  /\ work' = [work EXCEPT ![ops[r][at[r]].key] = Stored(r)]
  /\ at' = [at EXCEPT ![r] = @ + 1]
  /\ UNCHANGED <<pc, session, ops, outcome, db, lockq, limits, patch, settings>>

\* check_quota, of what the whole commit adds up to per owner.
OverQuota == \E o \in Owners : Used(work, o) > Used(db, o) /\ Used(work, o) > LimitsOf(o).quota

\* The commit raises a VariableError where it is.
OverLimit(r) == IF at[r] <= Len(ops[r]) THEN Failed(Stored(r)) ELSE OverQuota

\* Every op was applied and the owners are within their quotas.
Commit(r) ==
  /\ pc[r] = "applying" /\ at[r] > Len(ops[r]) /\ ~OverQuota
  /\ db' = work
  /\ outcome' = [outcome EXCEPT ![r] = "stored"]
  /\ Release(r)
  /\ UNCHANGED <<session, at, ops, work, limits, patch, settings>>

\* A limit refuses the commit, or the database fails under it: rolled back.
RollBack(r) ==
  /\ pc[r] = "applying"
  /\ work' = db
  /\ outcome' = [outcome EXCEPT ![r] = IF OverLimit(r) THEN "refused" ELSE "failed"]
  /\ Release(r)
  /\ UNCHANGED <<session, at, ops, db, limits, patch, settings>>

\* set_limit, a transaction of its own; an override of nothing is the default again.
SetLimit(s) ==
  /\ lockq = <<>>
  /\ limits' = [limits EXCEPT ![s.of][s.field] = s.to]

\* `!admin quota|valuecap|listitems|names`; the default cannot be reset, only changed.
LimitCommand ==
  /\ settings < MaxSettings /\ settings' = settings + 1
  /\ \E s \in Settings : (s.of = "default" => s.to # Unset) /\ SetLimit(s)
  /\ UNCHANGED <<pc, session, at, ops, outcome, db, work, lockq, patch>>

\* The limits page sends several fields of one row...
LimitPage ==
  /\ settings < MaxSettings /\ patch = <<>> /\ settings' = settings + 1
  /\ patch' \in Patches
  /\ UNCHANGED <<pc, session, at, ops, outcome, db, work, lockq, limits>>

\* ...which are set one by one; a null for the default stops it where it is.
LimitField ==
  /\ patch # <<>>
  /\ LET s == Head(patch) IN
     IF s.of = "default" /\ s.to = Unset THEN patch' = <<>> /\ UNCHANGED limits
     ELSE SetLimit(s) /\ patch' = Tail(patch)
  /\ UNCHANGED <<pc, session, at, ops, outcome, db, work, lockq, settings>>

\* The process dies: runs, buffers and the open transaction are gone.
Crash ==
  /\ \E r \in Run : pc[r] # "done"
  /\ pc' = [r \in Run |-> "done"]
  /\ outcome' = [r \in Run |-> IF pc[r] = "done" THEN outcome[r] ELSE "lost"]
  /\ work' = db /\ lockq' = <<>> /\ patch' = <<>>
  /\ UNCHANGED <<session, at, ops, db, limits, settings>>

Next ==
  \/ \E r \in Run :
       \/ StoreResult(r) \/ VarGet(r) \/ VarList(r) \/ VarUsage(r) \/ VarTop(r) \/ VarSet(r) \/ VarPop(r) \/ BufferPop(r) \/ VarDel(r)
       \/ CustomEcho(r) \/ WebWrite(r) \/ EndEvaluation(r) \/ Discard(r)
       \/ ApplyNext(r) \/ Commit(r) \/ RollBack(r)
  \/ LimitCommand \/ LimitPage \/ LimitField
  \/ Crash

Spec == Init /\ [][Next]_vars

-----------------------------------------------------------------------------
(* Properties. *)

\* What a list of ops makes of what is stored: all of them in order, whatever the limits.
Made(v, os) ==
  LET after[i \in 0..Len(os)] ==
        IF i = 0 THEN v ELSE [after[i - 1] EXCEPT ![os[i].key] = ApplyOp(@, os[i], NoLimits)]
  IN after
Applied(v, os, w) == w = Made(v, os)[Len(os)]

\* A run's writes are stored all at once, in order and on top of what is there, or
\* not at all, over concurrent commits, failures and crashes (ADR-0010).
Atomic == INSTANCE AtomicStore WITH Initial <- Start
CommitsAreAtomic == Atomic!Spec

\* No commit adds to an owner over its quota...
QuotaKept == \A o \in Owners : ~(Used(db', o) > Used(db, o) /\ Used(db', o) > LimitsOf(o).quota)
\* ...or leaves a value it changed over the cap...
CapKept == \A key \in Key : db'[key] # db[key] => ~(Size(db'[key]) > LimitsOf(Owner(key)).cap)
\* ...or makes a list longer than the limit.
ListsKept ==
  \A key \in Key : (db[key].type = "list" /\ db'[key].type = "list") =>
    (Len(db'[key].items) > Len(db[key].items) => Len(db'[key].items) <= LimitsOf(Owner(key)).items)

\* Whatever is stored fits its owner's limits as they are at that moment, whoever else
\* commits or changes them since the run read them.
WithinLimits == [][QuotaKept /\ CapKept /\ ListsKept]_db

=============================================================================
