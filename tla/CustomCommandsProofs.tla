------------------------ MODULE CustomCommandsProofs ------------------------
(***************************************************************************)
(* What holds of custom commands for any users, names, commands, bodies    *)
(* and calls: whatever edits, reverts and rollbacks come in between, no    *)
(* version that is stored is ever written again, the tree that is kept for *)
(* a version is that version's, and what is listed is what runs.           *)
(***************************************************************************)
EXTENDS CustomCommands, FiniteSetTheorems, SequenceTheorems, TLAPS

Ops == {"create", "edit", "delete", "share", "describe", "params", "link", "unlink", "publish", "status",
        "unpublish", "touch", "grant", "revoke", "pack", "add", "remove", "internal", "role",
        "publish_pack", "unpublish_pack", "delete_pack"}

-----------------------------------------------------------------------------
(* The tables. *)

\* What is current of a command is stored.
Whole(t) ==
  /\ {"cmd", "body"} \subseteq DOMAIN t /\ DOMAIN t.cmd = Command /\ DOMAIN t.body = Command
  /\ \A c \in Command : t.cmd[c] # None =>
       "current" \in DOMAIN t.cmd[c] /\ t.cmd[c].current \in DOMAIN t.body[c] \cap Nat

\* No command has this id.
Fresh(t, c) == c \in Command => t.cmd[c] = None /\ DOMAIN t.body[c] = {}

\* What EditsKept says of the tables before and after.
Keeps(t, n) == \A c \in Command :
  /\ \A v \in DOMAIN t.body[c] : v \in DOMAIN n.body[c] /\ n.body[c][v] = t.body[c][v]
  /\ t.cmd[c] # None =>
       /\ n.cmd[c].current \in DOMAIN n.body[c]
       /\ DOMAIN t.body[c] = 1..t.cmd[c].current => n.cmd[c].current >= t.cmd[c].current

\* What a write says of versions and publications.
Right(w) ==
  /\ w.op = "edit" => w.version \in Nat
  /\ w.op = "publish" => w.cmd \in Command
  /\ w.op = "status" => w.scope \in Channel /\ w.status \in {"active", "disabled"}

\* A write that can come to be done: it makes a command only under an id nothing has.
Fit(t, w) == w.op \in Ops /\ (w.op = "create" => Fresh(t, w.cmd)) /\ Right(w)

LEMMA KeepsItself == ASSUME NEW t, Whole(t) PROVE Keeps(t, t)
BY DEF Whole, Keeps

\* Tables whose commands and versions are the same.
LEMMA SameKeeps ==
  ASSUME NEW t, NEW n, Whole(t), {"cmd", "body"} \subseteq DOMAIN n, n.cmd = t.cmd, n.body = t.body
  PROVE  Whole(n) /\ Keeps(t, n) /\ \A c : Fresh(t, c) => Fresh(n, c)
BY DEF Whole, Keeps, Fresh

\* Tables where one row has changed, but not its version.
LEMMA RowKeeps ==
  ASSUME NEW t, NEW n, NEW c, NEW row, Whole(t), {"cmd", "body"} \subseteq DOMAIN n,
         n.cmd = [t.cmd EXCEPT ![c] = row], n.body = t.body,
         t.cmd[c] # None,
         "current" \in DOMAIN t.cmd[c] => "current" \in DOMAIN row /\ row.current = t.cmd[c].current
  PROVE  Whole(n) /\ Keeps(t, n) /\ \A d : Fresh(t, d) => Fresh(n, d)
<1>1. DOMAIN n.cmd = Command /\ \A d \in Command : n.cmd[d] = IF d = c THEN row ELSE t.cmd[d]
  BY DEF Whole
<1>2. Whole(n)
  <2>1. ASSUME NEW d \in Command, n.cmd[d] # None
        PROVE "current" \in DOMAIN n.cmd[d] /\ n.cmd[d].current \in DOMAIN n.body[d] \cap Nat
    <3>1. CASE d = c
      BY <1>1, <3>1 DEF Whole
    <3>2. CASE d # c
      BY <1>1, <2>1, <3>2 DEF Whole
    <3> QED
      BY <3>1, <3>2
  <2>2. DOMAIN n.body = Command
    BY DEF Whole
  <2> QED
    BY <1>1, <2>1, <2>2 DEF Whole
<1>3. Keeps(t, n)
  BY <1>1 DEF Whole, Keeps
<1>4. ASSUME NEW d, Fresh(t, d) PROVE Fresh(n, d)
  BY <1>1, <1>4 DEF Fresh
<1> QED
  BY <1>2, <1>3, <1>4

LEMMA CreateKeeps ==
  ASSUME NEW t, NEW w, Whole(t), Fresh(t, w.cmd)
  PROVE  /\ Whole(Created(t, w)) /\ Keeps(t, Created(t, w))
         /\ \A d : Fresh(t, d) /\ d # w.cmd => Fresh(Created(t, w), d)
<1> DEFINE n == Created(t, w)
           row == NewRow(w.user, w.name)
<1>1. /\ DOMAIN n = DOMAIN t
      /\ n.cmd = [t.cmd EXCEPT ![w.cmd] = row] /\ n.body = [t.body EXCEPT ![w.cmd] = <<w.body>>]
  BY DEF Created, Whole
<1>2. "current" \in DOMAIN row /\ row.current = 1
  BY DEF NewRow
<1>3. DOMAIN <<w.body>> = {1}
  OBVIOUS
<1> HIDE DEF n, row
<1>4. \A d \in Command : /\ n.cmd[d] = IF d = w.cmd THEN row ELSE t.cmd[d]
                         /\ n.body[d] = IF d = w.cmd THEN <<w.body>> ELSE t.body[d]
  BY <1>1 DEF Whole
<1>5. DOMAIN n.cmd = Command /\ DOMAIN n.body = Command
  BY <1>1 DEF Whole
<1>6. Whole(n)
  <2>1. ASSUME NEW d \in Command, n.cmd[d] # None
        PROVE "current" \in DOMAIN n.cmd[d] /\ n.cmd[d].current \in DOMAIN n.body[d] \cap Nat
    <3>1. CASE d = w.cmd
      BY <1>2, <1>3, <1>4, <3>1
    <3>2. CASE d # w.cmd
      BY <1>4, <2>1, <3>2 DEF Whole
    <3> QED
      BY <3>1, <3>2
  <2>2. {"cmd", "body"} \subseteq DOMAIN n
    BY <1>1 DEF Whole
  <2> QED
    BY <1>5, <2>1, <2>2 DEF Whole
<1>7. Keeps(t, n)
  <2> SUFFICES ASSUME NEW d \in Command
               PROVE  /\ \A v \in DOMAIN t.body[d] : v \in DOMAIN n.body[d] /\ n.body[d][v] = t.body[d][v]
                      /\ t.cmd[d] # None =>
                           /\ n.cmd[d].current \in DOMAIN n.body[d]
                           /\ DOMAIN t.body[d] = 1..t.cmd[d].current => n.cmd[d].current >= t.cmd[d].current
    BY DEF Keeps
  <2>1. CASE d = w.cmd
    BY <2>1 DEF Fresh
  <2>2. CASE d # w.cmd
    BY <1>4, <2>2 DEF Whole
  <2> QED
    BY <2>1, <2>2
<1>8. ASSUME NEW d, Fresh(t, d), d # w.cmd PROVE Fresh(n, d)
  BY <1>4, <1>8 DEF Fresh
<1> QED
  BY <1>6, <1>7, <1>8 DEF n

\* A new version is stored under a number that nothing has.
LEMMA EditKeeps ==
  ASSUME NEW t, NEW w, Whole(t), w.version \in Nat, t.cmd[w.cmd] # None, w.version + 1 \notin DOMAIN t.body[w.cmd]
  PROVE  /\ Whole(Edited(t, w)) /\ Keeps(t, Edited(t, w))
         /\ \A d : Fresh(t, d) => Fresh(Edited(t, w), d)
<1> DEFINE n == Edited(t, w)
           row == [t.cmd[w.cmd] EXCEPT !.current = w.version + 1]
           bodies == t.body[w.cmd]
           now == [v \in DOMAIN bodies \cup {w.version + 1} |-> IF v = w.version + 1 THEN w.body ELSE bodies[v]]
<1>1. DOMAIN n = DOMAIN t /\ n.cmd = [t.cmd EXCEPT ![w.cmd] = row] /\ n.body = [t.body EXCEPT ![w.cmd] = now]
  BY DEF Edited, Whole
<1>2. "current" \in DOMAIN t.cmd[w.cmd] => "current" \in DOMAIN row /\ row.current = w.version + 1
  OBVIOUS
<1>3. /\ DOMAIN now = DOMAIN bodies \cup {w.version + 1}
      /\ \A v \in DOMAIN bodies : now[v] = bodies[v]
  OBVIOUS
<1> HIDE DEF n, row, now
<1>4. \A d \in Command : /\ n.cmd[d] = IF d = w.cmd THEN row ELSE t.cmd[d]
                         /\ n.body[d] = IF d = w.cmd THEN now ELSE t.body[d]
  BY <1>1 DEF Whole
<1>5. DOMAIN n.cmd = Command /\ DOMAIN n.body = Command
  BY <1>1 DEF Whole
<1>6. Whole(n)
  <2>1. ASSUME NEW d \in Command, n.cmd[d] # None
        PROVE "current" \in DOMAIN n.cmd[d] /\ n.cmd[d].current \in DOMAIN n.body[d] \cap Nat
    <3>1. CASE d = w.cmd
      <4>1. "current" \in DOMAIN t.cmd[w.cmd]
        BY <3>1 DEF Whole
      <4> QED
        BY <1>2, <1>3, <1>4, <3>1, <4>1
    <3>2. CASE d # w.cmd
      BY <1>4, <2>1, <3>2 DEF Whole
    <3> QED
      BY <3>1, <3>2
  <2>2. {"cmd", "body"} \subseteq DOMAIN n
    BY <1>1 DEF Whole
  <2> QED
    BY <1>5, <2>1, <2>2 DEF Whole
<1>7. Keeps(t, n)
  <2> SUFFICES ASSUME NEW d \in Command
               PROVE  /\ \A v \in DOMAIN t.body[d] : v \in DOMAIN n.body[d] /\ n.body[d][v] = t.body[d][v]
                      /\ t.cmd[d] # None =>
                           /\ n.cmd[d].current \in DOMAIN n.body[d]
                           /\ DOMAIN t.body[d] = 1..t.cmd[d].current => n.cmd[d].current >= t.cmd[d].current
    BY DEF Keeps
  <2>1. CASE d = w.cmd
    <3>1. "current" \in DOMAIN t.cmd[w.cmd] /\ t.cmd[w.cmd].current \in Nat
      BY <2>1 DEF Whole
    <3>2. n.body[d] = now /\ n.cmd[d].current = w.version + 1
      BY <1>2, <1>4, <2>1, <3>1
    <3>3. DOMAIN t.body[d] = 1..t.cmd[d].current => w.version + 1 > t.cmd[d].current
      BY <2>1, <3>1
    <3> QED
      BY <1>3, <2>1, <3>1, <3>2, <3>3
  <2>2. CASE d # w.cmd
    BY <1>4, <2>2 DEF Whole
  <2> QED
    BY <2>1, <2>2
<1>8. ASSUME NEW d, Fresh(t, d) PROVE Fresh(n, d)
  BY <1>4, <1>8 DEF Fresh
<1> QED
  BY <1>6, <1>7, <1>8 DEF n

\* What any write makes of the tables keeps what they hold.
LEMMA AfterKeeps ==
  ASSUME NEW t, NEW w, Whole(t), Fit(t, w), Applies(t, w)
  PROVE  /\ Whole(After(t, w)) /\ Keeps(t, After(t, w))
         /\ \A d : Fresh(t, d) /\ (w.op = "create" => d # w.cmd) => Fresh(After(t, w), d)
<1>1. CASE w.op = "create"
  BY <1>1, CreateKeeps DEF After, Fit
<1>2. CASE w.op = "edit"
  <2>1. t.cmd[w.cmd] # None /\ w.version + 1 \notin DOMAIN t.body[w.cmd]
    BY <1>2 DEF Applies, Clashes, Vanished
  <2> QED
    BY <1>2, <2>1, EditKeeps DEF After, Fit, Right
<1>3. CASE w.op \in {"delete", "share", "describe", "params"}
  <2> DEFINE n == After(t, w)
             old == t.cmd[w.cmd]
             row == CASE w.op = "delete" -> [old EXCEPT !.active = FALSE]
                      [] w.op = "share" -> [old EXCEPT !.shared = w.on]
                      [] w.op = "describe" -> [old EXCEPT !.described = TRUE]
                      [] w.op = "params" -> [old EXCEPT !.params = w.params]
  <2>1. old # None
    BY <1>3 DEF Applies, Misses
  <2>2. "current" \in DOMAIN old => "current" \in DOMAIN row /\ row.current = old.current
    BY <1>3
  <2>3. {"cmd", "body"} \subseteq DOMAIN n /\ n.cmd = [t.cmd EXCEPT ![w.cmd] = row] /\ n.body = t.body
    <3>1. CASE w.op = "delete"
      BY <3>1 DEF After, Deleted, Whole
    <3>2. CASE w.op = "share"
      BY <3>2 DEF After, Whole
    <3>3. CASE w.op = "describe"
      BY <3>3 DEF After, Whole
    <3>4. CASE w.op = "params"
      BY <3>4 DEF After, Whole
    <3> QED
      BY <1>3, <3>1, <3>2, <3>3, <3>4
  <2> HIDE DEF n, row
  <2>4. Whole(n) /\ Keeps(t, n) /\ \A d : Fresh(t, d) => Fresh(n, d)
    BY <2>1, <2>2, <2>3, RowKeeps
  <2> QED
    BY <2>4 DEF n
<1>4. CASE w.op \notin {"create", "edit", "delete", "share", "describe", "params"}
  <2> DEFINE n == After(t, w)
  <2>1. {"cmd", "body"} \subseteq DOMAIN n /\ n.cmd = t.cmd /\ n.body = t.body
    <3>1. CASE w.op \in {"link", "unlink", "publish", "status", "unpublish", "touch", "grant", "revoke"}
      BY <3>1 DEF After, Publish, Unpublished, Whole
    <3>2. CASE w.op \in {"pack", "add", "remove", "internal", "role", "publish_pack", "unpublish_pack", "delete_pack"}
      BY <3>2 DEF After, MemberAdded, PackUnpublished, Whole
    <3> QED
      BY <1>4, <3>1, <3>2 DEF Fit, Ops
  <2> HIDE DEF n
  <2>2. Whole(n) /\ Keeps(t, n) /\ \A d : Fresh(t, d) => Fresh(n, d)
    BY <2>1, SameKeeps
  <2> QED
    BY <2>2 DEF n
<1> QED
  BY <1>1, <1>2, <1>3, <1>4

-----------------------------------------------------------------------------
(* The calls. *)

Writing == {"asked", "reading", "open", "reloading"}
Lookups == {"note", "add", "remove", "internal", "role"}

IsSeq(s) == s \in Seq({s[i] : i \in DOMAIN s})

\* The writes of a call: only its first makes a command, under an id that was drawn.
Writes(todo, ids) ==
  /\ IsSeq(todo)
  /\ \A i \in DOMAIN todo :
       /\ todo[i].op \in Ops
       /\ todo[i].op = "create" => i = 1 /\ todo[i].cmd \in ids
       /\ Right(todo[i])

MayFollow(more) == more # Nothing => "ask" \in DOMAIN more /\ more.ask \in Lookups

CallFits(c, ids) ==
  /\ "at" \in DOMAIN c
  /\ c.at \in Writing =>
       /\ c = [at |-> c.at, todo |-> c.todo, more |-> c.more, loads |-> c.loads]
       /\ Writes(c.todo, ids) /\ MayFollow(c.more)
       /\ IF c.at = "reading" THEN c.more # Nothing ELSE c.todo # <<>>
  /\ c.at \in {"loading", "fetched"} => "row" \in DOMAIN c

\* A call that has drawn an id and has not stored the command.
Creating(c) == c.at = "asked" /\ c.todo[1].op = "create"

\* No two commands are made under one id, what is current is stored, and the transaction
\* that is open has overwritten nothing.
KeptInv ==
  /\ Whole(db) /\ Whole(work) /\ Keeps(db, work)
  /\ open = None => work = db
  /\ DOMAIN call = Call /\ \A h \in Call : CallFits(call[h], used)
  /\ \A c \in Command : c \notin used => Fresh(db, c) /\ Fresh(work, c)
  /\ \A h \in Call : Creating(call[h]) => Fresh(db, call[h].todo[1].cmd) /\ Fresh(work, call[h].todo[1].cmd)
  /\ \A g, h \in Call : Creating(call[g]) /\ Creating(call[h]) /\ g # h =>
       call[g].todo[1].cmd # call[h].todo[1].cmd

\* A call makes a command only under an id that nobody has drawn before, and parses a helper only once it has
\* read it.
Begins == \A g \in Call : call'[g] = call[g] \/
  /\ Creating(call'[g]) => call'[g].todo[1].cmd \notin used
  /\ call'[g].at = "fetched" => call'[g].row.cmd \in helpers'
Goes == KeptInv' /\ Begins

\* Where a call is that does neither.
Plain(c) == ~Creating(c) /\ c.at # "fetched"

-----------------------------------------------------------------------------
(* Sequences of writes. *)

LEMMA InSeq ==
  ASSUME NEW S, NEW s \in Seq(S)
  PROVE  IsSeq(s) /\ \A i \in DOMAIN s : s[i] \in S
<1>1. \A i \in 1..Len(s) : s[i] \in S
  OBVIOUS
<1>2. Len(s) \in Nat /\ DOMAIN s = 1..Len(s) /\ s = [i \in 1..Len(s) |-> s[i]]
  OBVIOUS
<1>3. s \in [1..Len(s) -> {s[i] : i \in DOMAIN s}]
  BY <1>2
<1>4. s \in Seq({s[i] : i \in DOMAIN s})
  BY <1>2, <1>3, SeqDef
<1> QED
  BY <1>1, <1>2, <1>4 DEF IsSeq

LEMMA EmptyWrites == ASSUME NEW ids PROVE Writes(<<>>, ids)
<1>1. <<>> \in Seq({}) /\ DOMAIN <<>> = {}
  OBVIOUS
<1> QED
  BY <1>1, InSeq DEF Writes

LEMMA TailWrites ==
  ASSUME NEW todo, NEW ids, Writes(todo, ids), Len(todo) > 1
  PROVE  Writes(Tail(todo), ids) /\ Tail(todo) # <<>> /\ Tail(todo)[1].op # "create"
<1> DEFINE S == {todo[i] : i \in DOMAIN todo}
           rest == Tail(todo)
<1>1. todo \in Seq(S)
  BY DEF Writes, IsSeq
<1>2. Len(todo) \in Nat /\ DOMAIN todo = 1..Len(todo)
  BY <1>1
<1>3. rest \in Seq(S) /\ Len(rest) = Len(todo) - 1
  BY <1>1, <1>2
<1>4. DOMAIN rest = 1..Len(todo) - 1 /\ \A i \in DOMAIN rest : rest[i] = todo[i + 1]
  BY <1>1, <1>2, <1>3
<1>5. \A i \in DOMAIN rest : i + 1 \in DOMAIN todo /\ i + 1 # 1
  BY <1>2, <1>4
<1>6. \A i \in DOMAIN rest : /\ rest[i].op \in Ops /\ rest[i].op # "create"
                              /\ Right(rest[i])
  BY <1>4, <1>5 DEF Writes
<1>7. 1 \in DOMAIN rest
  BY <1>2, <1>4
<1>8. rest # <<>>
  BY <1>7
<1>9. IsSeq(rest)
  BY <1>3, InSeq
<1> HIDE DEF rest
<1> QED
  BY <1>6, <1>7, <1>8, <1>9 DEF Writes, rest

LEMMA MoreWrites ==
  ASSUME NEW c, NEW ids, NEW more, CallFits(c, ids), ids \subseteq more
  PROVE  CallFits(c, more)
BY DEF CallFits, Writes

\* Where a call goes after a write.
LEMMA RestFits ==
  ASSUME NEW c, NEW ids, CallFits(c, ids), c.at \in Writing
  PROVE  CallFits(Rest(c), ids) /\ Plain(Rest(c))
<1>1. c = [at |-> c.at, todo |-> c.todo, more |-> c.more, loads |-> c.loads]
  BY DEF CallFits
<1>2. Writes(c.todo, ids) /\ MayFollow(c.more)
  BY DEF CallFits
<1>3. CASE Len(c.todo) > 1
  <2>1. Rest(c) = [at |-> "asked", todo |-> Tail(c.todo), more |-> c.more, loads |-> {}]
    BY <1>1, <1>3 DEF Rest
  <2>2. Writes(Tail(c.todo), ids) /\ Tail(c.todo) # <<>> /\ Tail(c.todo)[1].op # "create"
    BY <1>2, <1>3, TailWrites
  <2> QED
    BY <1>2, <2>1, <2>2 DEF CallFits, Creating, Plain
<1>4. CASE ~(Len(c.todo) > 1) /\ c.more # Nothing
  <2>1. Rest(c) = [at |-> "reading", todo |-> <<>>, more |-> c.more, loads |-> {}]
    BY <1>1, <1>4 DEF Rest
  <2> QED
    BY <1>2, <1>4, <2>1, EmptyWrites DEF CallFits, Creating, Plain
<1>5. CASE ~(Len(c.todo) > 1) /\ ~(c.more # Nothing)
  <2>1. Rest(c) = [at |-> "idle"]
    BY <1>5 DEF Rest, Idle
  <2> QED
    BY <2>1 DEF CallFits, Creating, Plain, Writing
<1> QED
  BY <1>3, <1>4, <1>5

LEMMA IdleFits == ASSUME NEW ids PROVE CallFits(Idle, ids) /\ Plain(Idle)
BY DEF Idle, CallFits, Creating, Plain, Writing

\* One call moves on; the command that it was to make, if any, is stored.
LEMMA CallMoves ==
  ASSUME KeptInv, NEW h \in Call, NEW c, call' = [call EXCEPT ![h] = c], used' = used,
         CallFits(c, used), ~Creating(c), c.at = "fetched" => c.row.cmd \in helpers',
         Whole(db') /\ Whole(work') /\ Keeps(db', work') /\ (open' = None => work' = db'),
         \A d : Fresh(db, d) /\ Fresh(work, d) /\ (Creating(call[h]) => d # call[h].todo[1].cmd)
                => Fresh(db', d) /\ Fresh(work', d)
  PROVE  Goes
<1>1. DOMAIN call' = Call /\ \A g \in Call : call'[g] = IF g = h THEN c ELSE call[g]
  BY DEF KeptInv
<1>2. \A g \in Call : CallFits(call'[g], used')
  BY <1>1 DEF KeptInv
<1>3. \A g \in Call : Creating(call'[g]) => g # h /\ call'[g] = call[g]
  BY <1>1
<1>4. ASSUME NEW d \in Command, d \notin used' PROVE Fresh(db', d) /\ Fresh(work', d)
  <2>1. CASE Creating(call[h])
    <3>1. call[h].todo # <<>> /\ IsSeq(call[h].todo)
      BY <2>1 DEF KeptInv, CallFits, Creating, Writing, Writes
    <3>2. 1 \in DOMAIN call[h].todo
      BY <3>1 DEF IsSeq
    <3>3. call[h].todo[1].cmd \in used
      BY <2>1, <3>2 DEF KeptInv, CallFits, Creating, Writing, Writes
    <3> QED
      BY <1>4, <3>3 DEF KeptInv
  <2>2. CASE ~Creating(call[h])
    BY <1>4, <2>2 DEF KeptInv
  <2> QED
    BY <2>1, <2>2
<1>5. ASSUME NEW g \in Call, Creating(call'[g])
      PROVE  Fresh(db', call'[g].todo[1].cmd) /\ Fresh(work', call'[g].todo[1].cmd)
  BY <1>3, <1>5 DEF KeptInv
<1>6. ASSUME NEW f \in Call, NEW g \in Call, Creating(call'[f]), Creating(call'[g]), f # g
      PROVE  call'[f].todo[1].cmd # call'[g].todo[1].cmd
  BY <1>3, <1>6 DEF KeptInv
<1>7. Begins
  BY <1>1 DEF Begins
<1> QED
  BY <1>1, <1>2, <1>4, <1>5, <1>6, <1>7 DEF Goes, KeptInv

LEMMA CallGoesOn ==
  ASSUME KeptInv, NEW h \in Call, NEW c, call' = [call EXCEPT ![h] = c], UNCHANGED <<db, work, open, used>>,
         CallFits(c, used), Plain(c)
  PROVE  Goes
<1>1. Whole(db') /\ Whole(work') /\ Keeps(db', work') /\ (open' = None => work' = db')
  BY DEF KeptInv
<1>2. \A d : Fresh(db, d) /\ Fresh(work, d) => Fresh(db', d) /\ Fresh(work', d)
  OBVIOUS
<1> QED
  BY <1>1, <1>2, CallMoves DEF Plain

LEMMA CallEnds ==
  ASSUME KeptInv, NEW h \in Call, call' = [call EXCEPT ![h] = Idle], UNCHANGED <<db, work, open, used>>
  PROVE  Goes
BY IdleFits, CallGoesOn

-----------------------------------------------------------------------------
(* Transactions. *)

\* The first write of a call that waits for its turn.
LEMMA FirstFits ==
  ASSUME KeptInv, NEW h \in Call, call[h].at = "asked"
  PROVE  /\ Fit(work, Head(call[h].todo)) /\ Head(call[h].todo) = call[h].todo[1]
         /\ Creating(call[h]) <=> Head(call[h].todo).op = "create"
<1> DEFINE todo == call[h].todo
<1>1. todo # <<>> /\ Writes(todo, used)
  BY DEF KeptInv, CallFits, Writing
<1>2. todo \in Seq({todo[i] : i \in DOMAIN todo})
  BY <1>1 DEF Writes, IsSeq
<1>3. 1 \in DOMAIN todo /\ Head(todo) = todo[1]
  BY <1>1, <1>2
<1>4. Creating(call[h]) <=> todo[1].op = "create"
  BY DEF Creating
<1>5. Creating(call[h]) => Fresh(work, todo[1].cmd)
  BY DEF KeptInv
<1> QED
  BY <1>1, <1>3, <1>4, <1>5 DEF Fit, Writes

LEMMA TransactKeeps == ASSUME KeptInv, NEW h \in Call, Transact(h) PROVE Goes
<1> DEFINE w == Head(call[h].todo)
           c == [call[h] EXCEPT !.at = "open"]
<1>1. /\ call[h].at = "asked" /\ open = None /\ Applies(work, w) /\ work' = After(work, w)
      /\ open' = h /\ call' = [call EXCEPT ![h] = c] /\ UNCHANGED <<db, used>>
  BY DEF Transact
<1>2. Fit(work, w) /\ w = call[h].todo[1] /\ (Creating(call[h]) <=> w.op = "create")
  BY <1>1, FirstFits
<1>3. CallFits(c, used) /\ Plain(c)
  <2>1. CallFits(call[h], used)
    BY DEF KeptInv
  <2>2. c = [at |-> "open", todo |-> call[h].todo, more |-> call[h].more, loads |-> call[h].loads]
    BY <1>1, <2>1 DEF CallFits, Writing
  <2> QED
    BY <1>1, <2>1, <2>2 DEF CallFits, Writing, Creating, Plain
<1> HIDE DEF w, c
<1>4. /\ Whole(work') /\ Keeps(work, work')
      /\ \A d : Fresh(work, d) /\ (w.op = "create" => d # w.cmd) => Fresh(work', d)
  BY <1>1, <1>2, AfterKeeps DEF KeptInv
<1>5. Whole(db') /\ Keeps(db', work') /\ open' # None
  BY <1>1, <1>4, CustomCommandsAssumption DEF KeptInv
<1> QED
  BY <1>1, <1>2, <1>3, <1>4, <1>5, CallMoves DEF Plain

LEMMA GiveUpKeeps == ASSUME KeptInv, NEW h \in Call, GiveUp(h) PROVE Goes
<1>1. CallFits(call[h], used) /\ call[h].at \in Writing
  BY DEF KeptInv, GiveUp, Writing
<1>2. CallFits(Rest(call[h]), used) /\ Plain(Rest(call[h]))
  BY <1>1, RestFits
<1>3. call' = [call EXCEPT ![h] = Idle] \/ call' = [call EXCEPT ![h] = Rest(call[h])]
  BY DEF GiveUp
<1>4. UNCHANGED <<db, work, open, used>>
  BY DEF GiveUp, tables
<1> QED
  BY <1>2, <1>3, <1>4, CallEnds, CallGoesOn

LEMMA CommitKeeps == ASSUME KeptInv, NEW h \in Call, Commit(h) PROVE Goes
<1> DEFINE loads == Reloads(Head(call[h].todo))
           c == IF loads = {} THEN Rest(call[h]) ELSE [call[h] EXCEPT !.at = "reloading", !.loads = loads]
<1>1. /\ call[h].at = "open" /\ db' = work /\ open' = None /\ UNCHANGED <<work, used>>
      /\ call' = [call EXCEPT ![h] = c]
  BY DEF Commit
<1>2. CallFits(call[h], used) /\ call[h].at \in Writing
  BY <1>1 DEF KeptInv, Writing
<1>3. CallFits(c, used) /\ Plain(c)
  <2>1. CASE loads = {}
    BY <1>2, <2>1, RestFits
  <2>2. CASE loads # {}
    <3>1. c = [at |-> "reloading", todo |-> call[h].todo, more |-> call[h].more, loads |-> loads]
      BY <1>2, <2>2 DEF CallFits
    <3> HIDE DEF c, loads
    <3> QED
      BY <1>1, <1>2, <3>1 DEF CallFits, Creating, Plain, Writing
  <2> QED
    BY <2>1, <2>2
<1>4. Whole(db') /\ Whole(work') /\ Keeps(db', work') /\ work' = db'
  BY <1>1, KeepsItself DEF KeptInv
<1>5. \A d : Fresh(db, d) /\ Fresh(work, d) => Fresh(db', d) /\ Fresh(work', d)
  BY <1>1
<1> HIDE DEF c
<1> QED
  BY <1>1, <1>3, <1>4, <1>5, CallMoves DEF Plain

LEMMA RollBackKeeps == ASSUME KeptInv, NEW h \in Call, RollBack(h) PROVE Goes
<1>1. work' = db /\ open' = None /\ call' = [call EXCEPT ![h] = Idle] /\ UNCHANGED <<db, used>>
  BY DEF RollBack
<1>2. Whole(db') /\ Whole(work') /\ Keeps(db', work') /\ work' = db'
  BY <1>1, KeepsItself DEF KeptInv
<1>3. \A d : Fresh(db, d) /\ Fresh(work, d) => Fresh(db', d) /\ Fresh(work', d)
  BY <1>1
<1> QED
  BY <1>1, <1>2, <1>3, IdleFits, CallMoves DEF Plain

LEMMA ReloadKeeps == ASSUME KeptInv, NEW h \in Call, Reload(h) PROVE Goes
<1>1. CallFits(call[h], used) /\ call[h].at \in Writing /\ call[h].at = "reloading"
  BY DEF KeptInv, Reload, Writing
<1>2. CallFits(Rest(call[h]), used) /\ Plain(Rest(call[h]))
  BY <1>1, RestFits
<1> DEFINE c == [call[h] EXCEPT !.loads = {"placed"}]
<1>3. CallFits(c, used) /\ Plain(c)
  <2>1. call[h] = [at |-> "reloading", todo |-> call[h].todo, more |-> call[h].more, loads |-> call[h].loads]
    BY <1>1 DEF CallFits, Writing
  <2>2. c = [at |-> "reloading", todo |-> call[h].todo, more |-> call[h].more, loads |-> {"placed"}]
    BY <2>1
  <2> HIDE DEF c
  <2> QED
    BY <1>1, <2>2 DEF CallFits, Creating, Plain, Writing
<1>4. call' = [call EXCEPT ![h] = c] \/ call' = [call EXCEPT ![h] = Rest(call[h])]
  BY DEF Reload
<1>5. UNCHANGED <<db, work, open, used>>
  BY DEF Reload, tables
<1> HIDE DEF c
<1> QED
  BY <1>2, <1>3, <1>4, <1>5, CallGoesOn

LEMMA CutKeeps == ASSUME KeptInv, NEW h \in Call, Cut(h) PROVE Goes
BY CallEnds DEF Cut, tables

-----------------------------------------------------------------------------
(* What is read on, and the lines that run. *)

LEMMA ReadOnKeeps == ASSUME KeptInv, NEW h \in Call, ReadOn(h) PROVE Goes
<1> DEFINE m == call[h].more
           rest == IF Len(m.names) > 1 THEN [m EXCEPT !.names = Tail(@)] ELSE Nothing
           found == IF m.ask = "note" THEN NextNote(m) ELSE NextName(m)
           reads(todo) == [call[h] EXCEPT !.todo = todo, !.more = rest]
           next(todo) == IF todo = <<>> THEN Rest(reads(todo)) ELSE [reads(todo) EXCEPT !.at = "asked"]
<1>1. /\ call[h].at = "reading" /\ UNCHANGED <<db, work, open, used>>
      /\ (\E todo \in found : call' = [call EXCEPT ![h] = next(todo)]) \/ call' = [call EXCEPT ![h] = Idle]
  BY DEF ReadOn, tables
<1>2. CallFits(call[h], used) /\ call[h].at \in Writing
  BY <1>1 DEF KeptInv, Writing
<1>3. m # Nothing /\ "ask" \in DOMAIN m /\ m.ask \in Lookups
  BY <1>1, <1>2 DEF CallFits, MayFollow
<1>4. MayFollow(rest)
  <2>1. CASE rest = Nothing
    BY <2>1 DEF MayFollow
  <2>2. CASE rest = [m EXCEPT !.names = Tail(@)]
    BY <1>3, <2>2 DEF MayFollow
  <2> QED
    BY <2>1, <2>2
<1>5. ASSUME NEW todo \in found
      PROVE  todo = <<>> \/ \E w : todo = <<w>> /\ w.op \in Ops /\ w.op # "create" /\ Right(w)
  <2>1. CASE m.ask = "note"
    <3> DEFINE n == Head(m.names)
    <3> DEFINE w == [op |-> "touch", scope |-> m.scope, name |-> n.name, version |-> n.version]
    <3>3. w.op = "touch"
      OBVIOUS
    <3>4. todo = <<>> \/ todo = <<w>>
      BY <1>5, <2>1 DEF NextNote
    <3> HIDE DEF w
    <3> QED
      BY <3>3, <3>4 DEF Ops, Right
  <2>2. CASE m.ask # "note"
    <3>1. \E c : todo = <<[op |-> m.ask, pack |-> m.pack, cmd |-> c, on |-> m.on, role |-> m.role]>>
      BY <1>5, <2>2 DEF NextName
    <3>2. PICK c : todo = <<[op |-> m.ask, pack |-> m.pack, cmd |-> c, on |-> m.on, role |-> m.role]>>
      BY <3>1
    <3> DEFINE w == [op |-> m.ask, pack |-> m.pack, cmd |-> c, on |-> m.on, role |-> m.role]
    <3>3. w.op = m.ask
      OBVIOUS
    <3>4. todo = <<w>>
      BY <3>2
    <3> HIDE DEF w
    <3> QED
      BY <1>3, <2>2, <3>3, <3>4 DEF Ops, Lookups, Right
  <2> QED
    BY <2>1, <2>2
<1>6. ASSUME NEW todo \in found PROVE CallFits(next(todo), used) /\ Plain(next(todo))
  <2> HIDE DEF rest
  <2>0. call[h] = [at |-> "reading", todo |-> call[h].todo, more |-> call[h].more, loads |-> call[h].loads]
    BY <1>1, <1>2 DEF CallFits
  <2> DEFINE c == [call[h] EXCEPT !.todo = todo]
  <2>a. c = [at |-> "reading", todo |-> todo, more |-> m, loads |-> call[h].loads]
    BY <2>0
  <2>b. [c EXCEPT !.more = rest] = [at |-> "reading", todo |-> todo, more |-> rest, loads |-> call[h].loads]
    <3> HIDE DEF c, m
    <3> QED
      BY <2>a
  <2>1. reads(todo) = [at |-> "reading", todo |-> todo, more |-> rest, loads |-> call[h].loads]
    BY <2>b
  <2>2. CASE todo = <<>>
    <3> DEFINE r == reads(todo)
    <3>a. r.todo = <<>> /\ r.more = rest /\ ~(Len(<<>>) > 1)
      BY <2>1, <2>2
    <3>c. next(todo) = Rest(r)
      BY <2>2
    <3>d. r = [at |-> "reading", todo |-> <<>>, more |-> rest, loads |-> call[h].loads]
      BY <2>1, <2>2
    <3> HIDE DEF r
    <3>1. CASE rest # Nothing
      <4>1. CallFits(r, used) /\ r.at \in Writing
        BY <1>4, <3>d, <3>1, EmptyWrites DEF CallFits, Writing
      <4> HIDE DEF next
      <4> QED
        BY <3>c, <4>1, RestFits
    <3>2. CASE rest = Nothing
      BY <3>a, <3>c, <3>2, IdleFits DEF Rest
    <3> QED
      BY <3>1, <3>2
  <2>3. CASE todo # <<>>
    <3>1. PICK w : todo = <<w>> /\ w.op \in Ops /\ w.op # "create" /\ Right(w)
      BY <1>5, <2>3
    <3>2. next(todo) = [at |-> "asked", todo |-> todo, more |-> rest, loads |-> call[h].loads]
      BY <2>1, <2>3
    <3> HIDE DEF next, rest
    <3>3. todo \in Seq({w}) /\ DOMAIN todo = {1} /\ todo[1] = w
      BY <3>1
    <3>4. Writes(todo, used)
      BY <3>1, <3>3, InSeq DEF Writes
    <3> DEFINE goes == next(todo)
    <3>5. "at" \in DOMAIN goes /\ goes.at = "asked" /\ goes.todo = todo /\ goes.more = rest
      BY <3>2
    <3>6. goes = [at |-> goes.at, todo |-> goes.todo, more |-> goes.more, loads |-> goes.loads]
      BY <3>2
    <3> HIDE DEF goes
    <3>7. CallFits(goes, used) /\ Plain(goes)
      BY <1>4, <2>3, <3>1, <3>3, <3>4, <3>5, <3>6 DEF CallFits, Creating, Plain
    <3> QED
      BY <3>7 DEF goes
  <2> QED
    BY <2>2, <2>3
<1> HIDE DEF next, found
<1>7. CASE \E todo \in found : call' = [call EXCEPT ![h] = next(todo)]
  BY <1>1, <1>6, <1>7, CallGoesOn
<1> QED
  BY <1>1, <1>7, CallEnds

\* A line that runs writes nothing, and reads on once it has run.
LEMMA Reading ==
  ASSUME KeptInv, NEW h \in Call, NEW c, call' = [call EXCEPT ![h] = c], UNCHANGED <<db, work, open, used>>,
         {"at", "row"} \subseteq DOMAIN c, c.at \in {"loading", "fetched", "loaded"},
         c.at = "fetched" => c.row.cmd \in helpers'
  PROVE  Goes
<1>1. CallFits(c, used) /\ ~Creating(c)
  BY DEF CallFits, Creating, Writing
<1>2. Whole(db') /\ Whole(work') /\ Keeps(db', work') /\ (open' = None => work' = db')
  BY DEF KeptInv
<1>3. \A d : Fresh(db, d) /\ Fresh(work, d) => Fresh(db', d) /\ Fresh(work', d)
  OBVIOUS
<1> QED
  BY <1>1, <1>2, <1>3, CallMoves

LEMMA TypeKeeps == ASSUME KeptInv, NEW h \in Call, Type(h) PROVE Goes
<1>1. PICK u \in User, ch \in Channel :
        \/ \E n \in Name, own \in BOOLEAN : call' = [call EXCEPT ![h] = Loading(u, ch, TRUE, <<[name |-> n, own |-> own]>>)]
        \/ \E c \in Command : call' = [call EXCEPT ![h] = Loading(u, ch, FALSE, work.body[c][work.cmd[c].current])]
  BY DEF Type
<1>2. UNCHANGED <<db, work, open, used>>
  BY DEF Type, tables
<1>3. ASSUME NEW typed, NEW line, call' = [call EXCEPT ![h] = Loading(u, ch, typed, line)] PROVE Goes
  <2> DEFINE c == Loading(u, ch, typed, line)
  <2>1. {"at", "row"} \subseteq DOMAIN c /\ c.at = "loading"
    BY DEF Loading
  <2> HIDE DEF c
  <2>2. call' = [call EXCEPT ![h] = c]
    BY <1>3 DEF c
  <2> QED
    BY <1>2, <2>1, <2>2, Reading
<1> QED
  BY <1>1, <1>3

LEMMA EnterKeeps ==
  ASSUME KeptInv, NEW h \in Call, call[h].at \in {"loading", "fetched"}, NEW row, Enter(h, row),
         UNCHANGED <<db, work, open, used>>
  PROVE  Goes
<1>1. {"at", "row"} \subseteq DOMAIN call[h]
  BY DEF KeptInv, CallFits
<1>2. PICK entry, key, more : call' = [call EXCEPT ![h].wanted = Tail(@), ![h].row = None, ![h].at = "loading",
                                       ![h].entries = key :> entry @@ @, ![h].next = @ \o more]
  BY DEF Enter
<1> DEFINE c == call'[h]
<1>3. call' = [call EXCEPT ![h] = c]
  BY <1>2 DEF KeptInv
<1>4. {"at", "row"} \subseteq DOMAIN c /\ c.at = "loading"
  BY <1>1, <1>2 DEF KeptInv
<1> HIDE DEF c
<1> QED
  BY <1>3, <1>4, Reading

\* The row of a command that is looked up.
LEMMA RowIs ==
  ASSUME NEW target
  PROVE  LET row == Row(target)
             version == work.cmd[target.cmd].current IN
         row.cmd = target.cmd /\ row.version = version /\ row.body = work.body[target.cmd][version]
BY DEF Row

LEMMA LookUpKeeps == ASSUME KeptInv, NEW h \in Call, LookUp(h) PROVE Goes
<1>1. {"at", "row"} \subseteq DOMAIN call[h] /\ call[h].at = "loading" /\ DOMAIN call = Call
  BY DEF KeptInv, CallFits, LookUp
<1>2. UNCHANGED <<db, work, open, used>>
  BY DEF LookUp, tables
<1>3. \/ call' = [call EXCEPT ![h].wanted = Tail(@)]
      \/ \E c, k : /\ call' = [call EXCEPT ![h].at = "fetched",
                                            ![h].row = Row([cmd |-> c, pack |-> k, personal |-> FALSE])]
                    /\ c \in helpers'
      \/ \E target : Enter(h, Row(target))
  BY DEF LookUp
<1>4. CASE call' = [call EXCEPT ![h].wanted = Tail(@)]
  <2> DEFINE c == [call[h] EXCEPT !.wanted = Tail(@)]
  <2>1. call' = [call EXCEPT ![h] = c]
    BY <1>4
  <2>2. {"at", "row"} \subseteq DOMAIN c /\ c.at = "loading"
    BY <1>1
  <2> HIDE DEF c
  <2> QED
    BY <1>2, <2>1, <2>2, Reading
<1>5. ASSUME NEW d, NEW k, d \in helpers',
             call' = [call EXCEPT ![h].at = "fetched", ![h].row = Row([cmd |-> d, pack |-> k, personal |-> FALSE])]
      PROVE  Goes
  <2> DEFINE row == Row([cmd |-> d, pack |-> k, personal |-> FALSE])
             c == [call[h] EXCEPT !.at = "fetched", !.row = row]
  <2>3. row.cmd = d
    BY DEF Row
  <2> HIDE DEF row
  <2>1. call' = [call EXCEPT ![h] = c]
    BY <1>1, <1>5 DEF row
  <2>2. {"at", "row"} \subseteq DOMAIN c /\ c.at = "fetched" /\ c.row = row
    BY <1>1
  <2> HIDE DEF c
  <2> QED
    BY <1>2, <1>5, <2>1, <2>2, <2>3, Reading
<1> QED
  BY <1>1, <1>2, <1>3, <1>4, <1>5, EnterKeeps

LEMMA PackReadKeeps == ASSUME KeptInv, NEW h \in Call, PackRead(h) PROVE Goes
BY EnterKeeps DEF PackRead, tables

LEMMA NextLevelKeeps == ASSUME KeptInv, NEW h \in Call, NextLevel(h) PROVE Goes
<1>1. {"at", "row"} \subseteq DOMAIN call[h] /\ call[h].at = "loading"
  BY DEF KeptInv, CallFits, NextLevel
<1>2. PICK new :
        call' = [call EXCEPT ![h] =
          IF new # <<>> /\ @.level < MaxDepth
          THEN [@ EXCEPT !.level = @ + 1, !.wanted = new, !.next = <<>>, !.seen = @ \cup ToSet(new)]
          ELSE [@ EXCEPT !.at = "loaded", !.next = <<>>]]
  BY DEF NextLevel
<1> DEFINE c == call'[h]
<1>3. call' = [call EXCEPT ![h] = c]
  BY <1>2 DEF KeptInv
<1>4. {"at", "row"} \subseteq DOMAIN c /\ c.at \in {"loading", "loaded"}
  <2>1. CASE new # <<>> /\ call[h].level < MaxDepth
    BY <1>1, <1>2, <2>1 DEF KeptInv
  <2>2. CASE ~(new # <<>> /\ call[h].level < MaxDepth)
    BY <1>1, <1>2, <2>2 DEF KeptInv
  <2> QED
    BY <2>1, <2>2
<1>5. UNCHANGED <<db, work, open, used>>
  BY DEF NextLevel, tables
<1> HIDE DEF c
<1> QED
  BY <1>3, <1>4, <1>5, Reading

LEMMA RunEndsKeeps == ASSUME KeptInv, NEW h \in Call, RunEnds(h) PROVE Goes
<1>1. PICK scope, notes : call' = [call EXCEPT ![h] = IF notes = <<>> THEN Idle
        ELSE [at |-> "reading", todo |-> <<>>, loads |-> {}, more |-> [ask |-> "note", scope |-> scope, names |-> notes]]]
  BY DEF RunEnds
<1>2. UNCHANGED <<db, work, open, used>>
  BY DEF RunEnds, tables
<1> DEFINE more == [ask |-> "note", scope |-> scope, names |-> notes]
           c == [at |-> "reading", todo |-> <<>>, more |-> more, loads |-> {}]
<1>3. CallFits(c, used) /\ Plain(c)
  <2>1. "ask" \in DOMAIN more /\ more.ask = "note" /\ more # Nothing
    BY DEF Nothing
  <2> HIDE DEF more
  <2> QED
    BY <2>1, EmptyWrites DEF CallFits, MayFollow, Lookups, Creating, Plain
<1>4. call' = [call EXCEPT ![h] = Idle] \/ call' = [call EXCEPT ![h] = c]
  BY <1>1
<1> HIDE DEF c
<1> QED
  BY <1>2, <1>3, <1>4, CallEnds, CallGoesOn

-----------------------------------------------------------------------------
(* What is asked for. *)

LEMMA AskedFits ==
  ASSUME KeptInv, NEW h \in Call, NEW S, NEW todo \in Seq(S), NEW more, AskFor(h, todo, more), MayFollow(more),
         \A w \in S : w.op \in Ops /\ Right(w),
         \A i \in DOMAIN todo : todo[i].op = "create" => i = 1 /\ todo[i].cmd \notin used
  PROVE  Goes
<1> DEFINE c == [at |-> IF todo # <<>> THEN "asked" ELSE "reading", todo |-> todo, more |-> more, loads |-> {}]
<1>1. /\ todo # <<>> \/ more # Nothing
      /\ call' = [call EXCEPT ![h] = c] /\ UNCHANGED <<db, work, open>>
      /\ used \subseteq used'
      /\ \A i \in DOMAIN todo : todo[i].op = "create" => todo[i].cmd \in used'
  BY DEF AskFor, tables
<1>2. DOMAIN call' = Call /\ \A g \in Call : call'[g] = IF g = h THEN c ELSE call[g]
  BY <1>1 DEF KeptInv
<1>3. IsSeq(todo) /\ \A i \in DOMAIN todo : todo[i] \in S
  BY InSeq
<1>4. Writes(todo, used')
  BY <1>1, <1>3 DEF Writes
<1>5. CallFits(c, used')
  <2>1. CASE todo = <<>>
    BY <1>1, <1>4, <2>1 DEF CallFits
  <2>2. CASE todo # <<>>
    BY <1>1, <1>4, <2>2 DEF CallFits
  <2> QED
    BY <2>1, <2>2
<1>6. ASSUME Creating(c)
      PROVE  1 \in DOMAIN todo /\ todo[1].op = "create" /\ todo[1].cmd \notin used /\ c.todo = todo
  <2>1. todo # <<>> /\ todo[1].op = "create"
    BY <1>6 DEF Creating
  <2>2. 1 \in DOMAIN todo
    BY <2>1
  <2> QED
    BY <2>1, <2>2
<1>14. c.at # "fetched"
  OBVIOUS
<1> HIDE DEF c
<1>7. \A g \in Call : CallFits(call'[g], used')
  BY <1>1, <1>2, <1>5, MoreWrites DEF KeptInv
<1>8. ASSUME NEW g \in Call, Creating(call[g]) PROVE call[g].todo[1].cmd \in used
  <2>1. call[g].todo # <<>> /\ Writes(call[g].todo, used) /\ call[g].todo[1].op = "create"
    BY <1>8 DEF KeptInv, CallFits, Creating, Writing
  <2>2. 1 \in DOMAIN call[g].todo
    BY <2>1 DEF Writes, IsSeq
  <2> QED
    BY <2>1, <2>2 DEF Writes
<1>9. ASSUME NEW g \in Call, Creating(call'[g])
      PROVE  Fresh(db', call'[g].todo[1].cmd) /\ Fresh(work', call'[g].todo[1].cmd)
  <2>1. CASE g = h
    <3>1. call'[g].todo[1].cmd \notin used
      BY <1>2, <1>6, <1>9, <2>1
    <3> QED
      BY <1>1, <3>1 DEF KeptInv, Fresh
  <2>2. CASE g # h
    BY <1>1, <1>2, <1>9, <2>2 DEF KeptInv
  <2> QED
    BY <2>1, <2>2
<1>10. ASSUME NEW f \in Call, NEW g \in Call, Creating(call'[f]), Creating(call'[g]), f # g
       PROVE  call'[f].todo[1].cmd # call'[g].todo[1].cmd
  <2>1. CASE f = h
    BY <1>2, <1>6, <1>8, <1>10, <2>1
  <2>2. CASE g = h
    BY <1>2, <1>6, <1>8, <1>10, <2>2
  <2>3. CASE f # h /\ g # h
    BY <1>2, <1>10, <2>3 DEF KeptInv
  <2> QED
    BY <2>1, <2>2, <2>3
<1>11. \A d \in Command : d \notin used' => Fresh(db', d) /\ Fresh(work', d)
  BY <1>1 DEF KeptInv
<1>12. Whole(db') /\ Whole(work') /\ Keeps(db', work') /\ (open' = None => work' = db')
  BY <1>1 DEF KeptInv
<1>13. Begins
  BY <1>2, <1>6, <1>14 DEF Begins
<1> QED
  BY <1>2, <1>7, <1>9, <1>10, <1>11, <1>12, <1>13 DEF Goes, KeptInv

\* Calls that make no command.
LEMMA PlainFits ==
  ASSUME KeptInv, NEW h \in Call, NEW S, NEW todo \in Seq(S), NEW more, AskFor(h, todo, more), MayFollow(more),
         \A w \in S : w.op \in Ops \ {"create"} /\ Right(w)
  PROVE  Goes
<1>1. \A i \in DOMAIN todo : todo[i] \in S
  BY InSeq
<1> QED
  BY <1>1, AskedFits

LEMMA NothingFollows == MayFollow(Nothing)
BY DEF MayFollow

LEMMA AskKeeps ==
  ASSUME KeptInv, NEW h \in Call, NEW w, Ask(h, w), w.op \in Ops \ {"create"}, Right(w)
  PROVE  Goes
<1> DEFINE todo == <<w>>
           S == {w}
<1>1. todo \in Seq(S)
  OBVIOUS
<1>2. AskFor(h, todo, Nothing)
  BY DEF Ask
<1>3. \A x \in S : x.op \in Ops \ {"create"} /\ Right(x)
  OBVIOUS
<1> HIDE DEF todo, S
<1> QED
  BY <1>1, <1>2, <1>3, PlainFits, NothingFollows

LEMMA IfWrites == ASSUME NEW condition, NEW w PROVE If(condition, w) \in Seq({w})
<1>1. CASE condition
  <2>1. If(condition, w) = <<w>>
    BY <1>1 DEF If
  <2> QED
    BY <2>1
<1>2. CASE ~condition
  <2>1. If(condition, w) = <<>>
    BY <1>2 DEF If
  <2> QED
    BY <2>1
<1> QED
  BY <1>1, <1>2

LEMMA JoinWrites ==
  ASSUME NEW S, NEW T, NEW s \in Seq(S), NEW t \in Seq(T)
  PROVE  s \o t \in Seq(S \cup T)
OBVIOUS

\* A command that is there has a current version.
LEMMA CurrentNat ==
  ASSUME KeptInv, NEW u, NEW n, NEW c \in Owned(work, u, n)
  PROVE  work.cmd[c].current \in Nat
<1>1. c \in Command /\ work.cmd[c] # None
  BY DEF Owned, Active
<1> QED
  BY <1>1 DEF KeptInv, Whole

LEMMA AskCreateKeeps == ASSUME KeptInv, NEW h \in Call, AskCreate(h) PROVE Goes
<1>1. PICK u \in User, n \in Name, b \in Body, summary \in BOOLEAN :
        /\ Command \ used # {}
        /\ AskFor(h, <<[op |-> "create", user |-> u, name |-> n, cmd |-> Free(Command), body |-> b]>>
                       \o If(summary, [op |-> "describe", cmd |-> Free(Command)]), Nothing)
  BY DEF AskCreate
<1> DEFINE w == [op |-> "create", user |-> u, name |-> n, cmd |-> Free(Command), body |-> b]
           d == [op |-> "describe", cmd |-> Free(Command)]
           more == If(summary, d)
           todo == <<w>> \o more
<1>2. Free(Command) \notin used
  BY <1>1 DEF Free
<1>3. more \in Seq({d}) /\ <<w>> \in Seq({w})
  BY IfWrites
<1>4. w.op = "create" /\ w.cmd = Free(Command) /\ d.op = "describe"
  OBVIOUS
<1>5. AskFor(h, todo, Nothing)
  BY <1>1
<1> HIDE DEF w, d, more
<1>6. todo \in Seq({w, d}) /\ DOMAIN todo = 1..1 + Len(more) /\ Len(more) \in Nat
  BY <1>3
<1>7. \A i \in DOMAIN todo : i # 1 => todo[i] = d
  <2> SUFFICES ASSUME NEW i \in DOMAIN todo, i # 1 PROVE todo[i] = d
    OBVIOUS
  <2>1. todo[i] = more[i - 1] /\ i - 1 \in 1..Len(more)
    BY <1>3, <1>6
  <2>2. more[i - 1] \in {d}
    BY <1>3, <2>1
  <2> QED
    BY <2>1, <2>2
<1>8. todo[1] = w
  BY <1>3
<1> HIDE DEF todo
<1>9. \A i \in DOMAIN todo : todo[i].op = "create" => i = 1 /\ todo[i].cmd \notin used
  BY <1>2, <1>4, <1>7, <1>8
<1>10. \A x \in {w, d} : x.op \in Ops /\ Right(x)
  BY <1>4 DEF Ops, Right
<1> QED
  BY <1>5, <1>6, <1>9, <1>10, AskedFits, NothingFollows

LEMMA AskEditKeeps == ASSUME KeptInv, NEW h \in Call, AskEdit(h) PROVE Goes
<1>0. PICK u \in User, n \in Name, b \in Body, summary \in BOOLEAN, on \in BOOLEAN :
        \E c \in Owned(work, u, n) :
        LET row == work.cmd[c]
            old == work.body[c][row.current] IN
        AskFor(h, If(b # old, [op |-> "edit", cmd |-> c, version |-> row.current, body |-> b])
                  \o If(summary /\ ~row.described, [op |-> "describe", cmd |-> c])
                  \o If(on # row.shared, [op |-> "share", cmd |-> c, on |-> on]), Nothing)
  BY DEF AskEdit
<1>1. PICK c \in Owned(work, u, n) :
        LET row == work.cmd[c]
            old == work.body[c][row.current] IN
        AskFor(h, If(b # old, [op |-> "edit", cmd |-> c, version |-> row.current, body |-> b])
                  \o If(summary /\ ~row.described, [op |-> "describe", cmd |-> c])
                  \o If(on # row.shared, [op |-> "share", cmd |-> c, on |-> on]), Nothing)
  BY <1>0
<1> DEFINE row == work.cmd[c]
           x == [op |-> "edit", cmd |-> c, version |-> row.current, body |-> b]
           y == [op |-> "describe", cmd |-> c]
           z == [op |-> "share", cmd |-> c, on |-> on]
           first == If(b # work.body[c][row.current], x)
           second == If(summary /\ ~row.described, y)
           third == If(on # row.shared, z)
<1>2. first \in Seq({x}) /\ second \in Seq({y}) /\ third \in Seq({z})
  BY IfWrites
<1>3. x.op = "edit" /\ x.version \in Nat /\ y.op = "describe" /\ z.op = "share"
  BY CurrentNat
<1>4. AskFor(h, first \o second \o third, Nothing)
  BY <1>1
<1> HIDE DEF x, y, z, first, second, third
<1>5. first \o second \in Seq({x} \cup {y})
  BY <1>2, JoinWrites
<1>6. first \o second \o third \in Seq(({x} \cup {y}) \cup {z})
  BY <1>2, <1>5, JoinWrites
<1>7. \A w \in ({x} \cup {y}) \cup {z} : w.op \in Ops \ {"create"} /\ Right(w)
  BY <1>3 DEF Ops, Right
<1> QED
  BY <1>4, <1>6, <1>7, PlainFits, NothingFollows

LEMMA AskRevertKeeps == ASSUME KeptInv, NEW h \in Call, AskRevert(h) PROVE Goes
<1>1. PICK u \in User, n \in Name :
        \E c \in Owned(work, u, n) : \E v \in DOMAIN work.body[c] :
          Ask(h, [op |-> "edit", cmd |-> c, version |-> work.cmd[c].current, body |-> work.body[c][v]])
  BY DEF AskRevert
<1>2. PICK c \in Owned(work, u, n) : \E v \in DOMAIN work.body[c] :
        Ask(h, [op |-> "edit", cmd |-> c, version |-> work.cmd[c].current, body |-> work.body[c][v]])
  BY <1>1
<1>3. PICK v : Ask(h, [op |-> "edit", cmd |-> c, version |-> work.cmd[c].current, body |-> work.body[c][v]])
  BY <1>2
<1> DEFINE w == [op |-> "edit", cmd |-> c, version |-> work.cmd[c].current, body |-> work.body[c][v]]
<1>4. w.op = "edit" /\ w.version \in Nat
  BY CurrentNat
<1> HIDE DEF w
<1> QED
  BY <1>3, <1>4, AskKeeps DEF Ops, Right, w

LEMMA AskParamKeeps == ASSUME KeptInv, NEW h \in Call, AskParam(h) PROVE Goes
<1>1. PICK c, rows : Ask(h, [op |-> "params", cmd |-> c, params |-> rows])
  BY DEF AskParam
<1>2. ([op |-> "params", cmd |-> c, params |-> rows]).op = "params"
  OBVIOUS
<1> QED
  BY <1>1, <1>2, AskKeeps DEF Ops, Right

LEMMA AskDeleteKeeps == ASSUME KeptInv, NEW h \in Call, AskDelete(h) PROVE Goes
<1>1. PICK c : Ask(h, [op |-> "delete", cmd |-> c])
  BY DEF AskDelete
<1>2. ([op |-> "delete", cmd |-> c]).op = "delete"
  OBVIOUS
<1> QED
  BY <1>1, <1>2, AskKeeps DEF Ops, Right

LEMMA AskLinkKeeps == ASSUME KeptInv, NEW h \in Call, AskLink(h) PROVE Goes
<1>1. PICK u, alias, c : Ask(h, [op |-> "link", user |-> u, name |-> alias, cmd |-> c])
  BY DEF AskLink
<1>2. ([op |-> "link", user |-> u, name |-> alias, cmd |-> c]).op = "link"
  OBVIOUS
<1> QED
  BY <1>1, <1>2, AskKeeps DEF Ops, Right

LEMMA AskUnlinkKeeps == ASSUME KeptInv, NEW h \in Call, AskUnlink(h) PROVE Goes
<1>1. PICK u, alias : Ask(h, [op |-> "unlink", user |-> u, name |-> alias])
  BY DEF AskUnlink
<1>2. ([op |-> "unlink", user |-> u, name |-> alias]).op = "unlink"
  OBVIOUS
<1> QED
  BY <1>1, <1>2, AskKeeps DEF Ops, Right

LEMMA AskPublishKeeps == ASSUME KeptInv, NEW h \in Call, AskPublish(h) PROVE Goes
<1>1. PICK s, as, c : c \in Command /\ Ask(h, [op |-> "publish", scope |-> s, name |-> as, cmd |-> c])
  BY DEF AskPublish, Owned, Personal, Active
<1> DEFINE w == [op |-> "publish", scope |-> s, name |-> as, cmd |-> c]
<1>2. w.op = "publish" /\ w.cmd = c
  OBVIOUS
<1> HIDE DEF w
<1> QED
  BY <1>1, <1>2, AskKeeps DEF Ops, Right, w

LEMMA AskStatusKeeps == ASSUME KeptInv, NEW h \in Call, AskStatus(h) PROVE Goes
<1>1. PICK ch \in Channel, n \in Name, status \in {"active", "disabled"} :
        Ask(h, [op |-> "status", scope |-> ch, name |-> n, status |-> status])
  BY DEF AskStatus
<1> DEFINE w == [op |-> "status", scope |-> ch, name |-> n, status |-> status]
<1>2. w.op = "status" /\ w.scope = ch /\ w.status = status
  OBVIOUS
<1> HIDE DEF w
<1> QED
  BY <1>1, <1>2, AskKeeps DEF Ops, Right, w

LEMMA AskUnpublishKeeps == ASSUME KeptInv, NEW h \in Call, AskUnpublish(h) PROVE Goes
<1>1. PICK s, n : Ask(h, [op |-> "unpublish", scope |-> s, name |-> n, cmd |-> work.pub[s, n].cmd])
  BY DEF AskUnpublish
<1> DEFINE w == [op |-> "unpublish", scope |-> s, name |-> n, cmd |-> work.pub[s, n].cmd]
<1>2. w.op = "unpublish"
  OBVIOUS
<1> HIDE DEF w
<1> QED
  BY <1>1, <1>2, AskKeeps DEF Ops, Right, w

LEMMA AskPackKeeps == ASSUME KeptInv, NEW h \in Call, AskPack(h) PROVE Goes
<1>1. PICK u, n : Ask(h, [op |-> "pack", user |-> u, name |-> n, pack |-> Free(Pack)])
  BY DEF AskPack
<1>2. ([op |-> "pack", user |-> u, name |-> n, pack |-> Free(Pack)]).op = "pack"
  OBVIOUS
<1> QED
  BY <1>1, <1>2, AskKeeps DEF Ops, Right

LEMMA AskDeletePackKeeps == ASSUME KeptInv, NEW h \in Call, AskDeletePack(h) PROVE Goes
<1>1. PICK k : Ask(h, [op |-> "delete_pack", pack |-> k])
  BY DEF AskDeletePack
<1>2. ([op |-> "delete_pack", pack |-> k]).op = "delete_pack"
  OBVIOUS
<1> QED
  BY <1>1, <1>2, AskKeeps DEF Ops, Right

LEMMA AskPublishPackKeeps == ASSUME KeptInv, NEW h \in Call, AskPublishPack(h) PROVE Goes
<1>1. PICK s, k : Ask(h, [op |-> "publish_pack", scope |-> s, pack |-> k])
  BY DEF AskPublishPack
<1>2. ([op |-> "publish_pack", scope |-> s, pack |-> k]).op = "publish_pack"
  OBVIOUS
<1> QED
  BY <1>1, <1>2, AskKeeps DEF Ops, Right

LEMMA AskUnpublishPackKeeps == ASSUME KeptInv, NEW h \in Call, AskUnpublishPack(h) PROVE Goes
<1>1. PICK s, k : Ask(h, [op |-> "unpublish_pack", scope |-> s, pack |-> k])
  BY DEF AskUnpublishPack
<1>2. ([op |-> "unpublish_pack", scope |-> s, pack |-> k]).op = "unpublish_pack"
  OBVIOUS
<1> QED
  BY <1>1, <1>2, AskKeeps DEF Ops, Right

LEMMA AskGrantKeeps == ASSUME KeptInv, NEW h \in Call, AskGrant(h) PROVE Goes
<1>0. PICK ch \in Channel, n \in Name, op \in {"grant", "revoke"} :
        \E f \in Found(work, ch, n) : Ask(h, [op |-> op, scope |-> ch, cmd |-> f.cmd])
  BY DEF AskGrant
<1>1. PICK f : Ask(h, [op |-> op, scope |-> ch, cmd |-> f.cmd])
  BY <1>0
<1>2. [op |-> op, scope |-> ch, cmd |-> f.cmd].op = op
  OBVIOUS
<1> QED
  BY <1>1, <1>2, AskKeeps DEF Ops, Right

\* The names are looked at once the call is under way.
LEMMA AskMembersKeeps == ASSUME KeptInv, NEW h \in Call, AskMembers(h) PROVE Goes
<1>1. PICK u \in User, n \in Name, first \in Name, second \in Name, what \in {"add", "remove", "internal", "role"} :
        \E k \in Writable(u, n), on \in BOOLEAN, role \in Roles :
          /\ Begin(h, "members")
          /\ what # "internal" => on
          /\ what # "role" => role = "everyone"
          /\ AskFor(h, <<>>, [ask |-> what, user |-> u, pack |-> k, names |-> <<first, second>>, on |-> on, role |-> role,
                              members |-> {work.cmd[c].name : c \in Members(work, k)}])
  BY Zenon DEF AskMembers
<1>2. PICK k \in Writable(u, n), on \in BOOLEAN, role \in Roles :
        AskFor(h, <<>>, [ask |-> what, user |-> u, pack |-> k, names |-> <<first, second>>, on |-> on, role |-> role,
                         members |-> {work.cmd[c].name : c \in Members(work, k)}])
  BY <1>1, Zenon
<1> DEFINE more == [ask |-> what, user |-> u, pack |-> k, names |-> <<first, second>>, on |-> on, role |-> role,
                    members |-> {work.cmd[c].name : c \in Members(work, k)}]
<1>3. MayFollow(more)
  BY DEF MayFollow, Lookups
<1>5. AskFor(h, <<>>, more)
  BY <1>2
<1> DEFINE S == {}
           todo == <<>>
<1>4. todo \in Seq(S)
  OBVIOUS
<1>6. \A w \in S : w.op \in Ops \ {"create"} /\ Right(w)
  OBVIOUS
<1>7. AskFor(h, todo, more)
  BY <1>5
<1> HIDE DEF more, S, todo
<1> QED
  BY <1>3, <1>4, <1>6, <1>7, PlainFits

LEMMA AskMemberKeeps == ASSUME KeptInv, NEW h \in Call, AskMember(h) PROVE Goes
<1>1. PICK on \in BOOLEAN, role \in Roles :
        \E k, c :
          \/ Ask(h, [op |-> "remove", pack |-> k, cmd |-> c])
          \/ AskFor(h, <<[op |-> "add", pack |-> k, cmd |-> c], [op |-> "internal", pack |-> k, cmd |-> c, on |-> on],
                         [op |-> "role", pack |-> k, cmd |-> c, role |-> role]>>, Nothing)
  BY DEF AskMember
<1>2. PICK k, c :
          \/ Ask(h, [op |-> "remove", pack |-> k, cmd |-> c])
          \/ AskFor(h, <<[op |-> "add", pack |-> k, cmd |-> c], [op |-> "internal", pack |-> k, cmd |-> c, on |-> on],
                         [op |-> "role", pack |-> k, cmd |-> c, role |-> role]>>, Nothing)
  BY <1>1
<1> DEFINE x == [op |-> "add", pack |-> k, cmd |-> c]
           y == [op |-> "internal", pack |-> k, cmd |-> c, on |-> on]
           z == [op |-> "role", pack |-> k, cmd |-> c, role |-> role]
           gone == [op |-> "remove", pack |-> k, cmd |-> c]
<1>3. x.op = "add" /\ y.op = "internal" /\ z.op = "role" /\ gone.op = "remove"
  OBVIOUS
<1>4. Ask(h, gone) \/ AskFor(h, <<x, y, z>>, Nothing)
  BY <1>2
<1> HIDE DEF x, y, z, gone
<1>5. CASE Ask(h, gone)
  BY <1>3, <1>5, AskKeeps DEF Ops, Right
<1>6. CASE AskFor(h, <<x, y, z>>, Nothing)
  <2> DEFINE todo == <<x, y, z>>
             S == {x, y, z}
  <2>1. todo \in Seq(S)
    OBVIOUS
  <2>2. \A w \in S : w.op \in Ops \ {"create"} /\ Right(w)
    BY <1>3 DEF Ops, Right
  <2>3. AskFor(h, todo, Nothing)
    BY <1>6
  <2> HIDE DEF todo, S
  <2> QED
    BY <2>1, <2>2, <2>3, PlainFits, NothingFollows
<1> QED
  BY <1>4, <1>5, <1>6

\* The elements of a finite set, in some order.
LEMMA ListOfSet == ASSUME NEW S, IsFiniteSet(S) PROVE SetToSeq(S) \in Seq(S)
<1>1. Cardinality(S) \in Nat /\ ExistsBijection(1..Cardinality(S), S)
  BY FS_CardinalityType
<1>2. PICK f : f \in Bijection(1..Cardinality(S), S)
  BY <1>1 DEF ExistsBijection
<1>3. f \in [1..Cardinality(S) -> S] /\ IsInjective(f)
  BY <1>2 DEF Bijection, Injection
<1>4. SetToSeq(S) \in [1..Cardinality(S) -> S]
  BY <1>3 DEF SetToSeq
<1> QED
  BY <1>1, <1>4, SeqDef

LEMMA AskSharePackKeeps == ASSUME KeptInv, NEW h \in Call, AskSharePack(h) PROVE Goes
<1>1. PICK on \in BOOLEAN, web \in BOOLEAN :
        \E k : AskFor(h, SetToSeq({[op |-> "share", cmd |-> c, on |-> on] :
                                   c \in {c \in Members(work, k) : web => work.cmd[c].shared # on}}), Nothing)
  BY DEF AskSharePack
<1>2. PICK k : AskFor(h, SetToSeq({[op |-> "share", cmd |-> c, on |-> on] :
                                   c \in {c \in Members(work, k) : web => work.cmd[c].shared # on}}), Nothing)
  BY <1>1
<1> DEFINE members == {c \in Members(work, k) : web => work.cmd[c].shared # on}
           write(c) == [op |-> "share", cmd |-> c, on |-> on]
           S == {write(c) : c \in members}
           f == [c \in members |-> write(c)]
<1>3. IsFiniteSet(members)
  <2>1. members \subseteq Command
    BY DEF Members
  <2> QED
    BY <2>1, FS_Subset, CustomCommandsAssumption
<1>4. \A c : write(c).cmd = c /\ write(c).op = "share"
  OBVIOUS
<1>5. AskFor(h, SetToSeq(S), Nothing)
  BY <1>2
<1> HIDE DEF members, write
<1>6. IsFiniteSet(S)
  <2>1. f \in [members -> S]
    OBVIOUS
  <2>2. \A c, d \in members : f[c] = f[d] => c = d
    BY <1>4
  <2>3. \A w \in S : \E c \in members : f[c] = w
    OBVIOUS
  <2>4. f \in Bijection(members, S)
    BY <2>1, <2>2, <2>3 DEF Bijection, Injection, Surjection, IsInjective
  <2>5. ExistsBijection(members, S)
    BY <2>4 DEF ExistsBijection
  <2> QED
    BY <1>3, <2>5, FS_Bijection
<1>7. \A w \in S : w.op \in Ops \ {"create"} /\ Right(w)
  BY <1>4 DEF Ops, Right
<1> HIDE DEF S
<1>8. SetToSeq(S) \in Seq(S)
  BY <1>6, ListOfSet
<1> QED
  BY <1>5, <1>7, <1>8, PlainFits, NothingFollows

-----------------------------------------------------------------------------
(* The theorem. *)

LEMMA KeptInit == Init => KeptInv
<1> SUFFICES ASSUME Init PROVE KeptInv
  OBVIOUS
<1>1. /\ theme \in Themes /\ db = FirstTables(theme) /\ work = FirstTables(theme)
      /\ call = [h \in Call |-> Idle] /\ {c \in Command : db.cmd[c] # None} \subseteq used
  BY DEF Init
<1>2. Whole(db) /\ \A c \in Command : db.cmd[c] = None => DOMAIN db.body[c] = {}
  BY <1>1, FirstTablesAssumption DEF Whole
<1>3. Keeps(db, work)
  BY <1>1, <1>2, KeepsItself
<1>4. \A c \in Command : c \notin used => Fresh(db, c)
  BY <1>1, <1>2 DEF Fresh
<1>5. \A h \in Call : CallFits(call[h], used) /\ Plain(call[h])
  BY <1>1, IdleFits
<1> QED
  BY <1>1, <1>2, <1>3, <1>4, <1>5 DEF KeptInv, Plain

LEMMA KeptNext == KeptInv /\ [Next]_vars => Goes
<1> SUFFICES ASSUME KeptInv, [Next]_vars PROVE Goes
  OBVIOUS
<1>1. CASE UNCHANGED vars
  <2>1. KeptInv'
    BY <1>1 DEF KeptInv, vars, tables
  <2>2. Begins
    BY <1>1 DEF Begins, vars
  <2> QED
    BY <2>1, <2>2 DEF Goes
<1>2. ASSUME NEW h \in Call, AskCommand(h) PROVE Goes
  BY <1>2, AskCreateKeeps, AskEditKeeps, AskRevertKeeps, AskParamKeeps, AskDeleteKeeps, AskLinkKeeps, AskUnlinkKeeps,
     AskPublishKeeps, AskStatusKeeps, AskUnpublishKeeps, AskGrantKeeps DEF AskCommand
<1>3. ASSUME NEW h \in Call, AskOfPack(h) PROVE Goes
  BY <1>3, AskPackKeeps, AskMembersKeeps, AskMemberKeeps, AskSharePackKeeps, AskDeletePackKeeps, AskPublishPackKeeps,
     AskUnpublishPackKeeps DEF AskOfPack
<1>4. ASSUME NEW h \in Call,
             ReadOn(h) \/ Transact(h) \/ GiveUp(h) \/ Commit(h) \/ RollBack(h) \/ Reload(h) \/ Cut(h)
      PROVE  Goes
  BY <1>4, ReadOnKeeps, TransactKeeps, GiveUpKeeps, CommitKeeps, RollBackKeeps, ReloadKeeps, CutKeeps
<1>5. ASSUME NEW h \in Call, Type(h) \/ LookUp(h) \/ PackRead(h) \/ NextLevel(h) \/ RunEnds(h) PROVE Goes
  BY <1>5, TypeKeeps, LookUpKeeps, PackReadKeeps, NextLevelKeeps, RunEndsKeeps
<1> QED
  BY <1>1, <1>2, <1>3, <1>4, <1>5 DEF Next

\* Only a commit changes what is stored, to what its transaction made of it.
LEMMA StoredNext == ASSUME KeptInv, [Next]_vars PROVE db' = db \/ db' = work
<1>1. CASE UNCHANGED vars
  BY <1>1 DEF vars, tables
<1>2. ASSUME NEW h \in Call, NEW todo, NEW more, AskFor(h, todo, more) PROVE db' = db
  BY <1>2 DEF AskFor, tables
<1>3. ASSUME NEW h \in Call, AskCommand(h) PROVE db' = db
  BY <1>3, <1>2 DEF AskCommand, Ask, AskCreate, AskEdit, AskRevert, AskParam, AskDelete, AskLink, AskUnlink,
     AskPublish, AskStatus, AskUnpublish, AskGrant
<1>4. ASSUME NEW h \in Call, AskOfPack(h) PROVE db' = db
  BY <1>4, <1>2 DEF AskOfPack, Ask, AskPack, AskMembers, AskMember, AskSharePack, AskDeletePack, AskPublishPack,
     AskUnpublishPack
<1>5. ASSUME NEW h \in Call,
             ReadOn(h) \/ Transact(h) \/ GiveUp(h) \/ RollBack(h) \/ Reload(h) \/ Cut(h)
      PROVE  db' = db
  BY <1>5 DEF ReadOn, Transact, GiveUp, RollBack, Reload, Cut, tables
<1>6. ASSUME NEW h \in Call, Type(h) \/ LookUp(h) \/ PackRead(h) \/ NextLevel(h) \/ RunEnds(h) PROVE db' = db
  BY <1>6 DEF Type, LookUp, PackRead, NextLevel, RunEnds, tables
<1>7. ASSUME NEW h \in Call, Commit(h) PROVE db' = work
  BY <1>7 DEF Commit
<1> QED
  BY <1>1, <1>3, <1>4, <1>5, <1>6, <1>7 DEF Next

\* Whatever calls edit, revert, delete and roll back, and in whatever order they get the lock: no version that is
\* stored is written again, what is current is always stored, and it is never an older version unless a number
\* below it was left out.
THEOREM VersionsKept == Spec => EditsKept
<1>0. KeptInv /\ [Next]_vars => KeptInv'
  BY KeptNext DEF Goes
<1>1. KeptInv /\ [Next]_vars => Keeps(db, db')
  BY KeepsItself, StoredNext DEF KeptInv
<1>2. Keeps(db, db') => \A c \in Command :
        /\ \A v \in DOMAIN db.body[c] : v \in DOMAIN db'.body[c] /\ db'.body[c][v] = db.body[c][v]
        /\ db.cmd[c] # None =>
             /\ db'.cmd[c].current \in DOMAIN db'.body[c]
             /\ DOMAIN db.body[c] = 1..db.cmd[c].current => db'.cmd[c].current >= db.cmd[c].current
  BY DEF Keeps
<1> QED
  BY <1>0, <1>1, <1>2, KeptInit, PTL DEF Spec, EditsKept

-----------------------------------------------------------------------------
(* The cache. *)

\* A tree in the cache is that of a command nobody is about to make, and of the version it is kept for.
Cached(e) ==
  /\ e[1] \in Command \cap used
  /\ \A h \in Call : Creating(call[h]) => call[h].todo[1].cmd # e[1]
  /\ e[2] \in DOMAIN work.body[e[1]] => cached[e] = work.body[e[1]][e[2]]

CacheInv ==
  /\ \A h \in Call : call[h].at = "fetched" => call[h].row.cmd \in helpers
  /\ \A e \in DOMAIN cached : e[1] \notin helpers => Cached(e)

\* A write changes the bodies of the command it makes or edits, and no others.
LEMMA OtherBodies ==
  ASSUME NEW t, NEW w, Whole(t), Fit(t, w), NEW c \in Command, w.op \in {"create", "edit"} => c # w.cmd
  PROVE  After(t, w).body[c] = t.body[c]
<1>1. CASE w.op = "create"
  <2>1. After(t, w) = Created(t, w)
    BY <1>1 DEF After
  <2>2. Created(t, w).body = [t.body EXCEPT ![w.cmd] = <<w.body>>]
    BY DEF Created, Whole
  <2> QED
    BY <1>1, <2>1, <2>2 DEF Whole
<1>2. CASE w.op = "edit"
  <2>1. After(t, w) = Edited(t, w)
    BY <1>2 DEF After
  <2>2. PICK now : Edited(t, w).body = [t.body EXCEPT ![w.cmd] = now]
    BY DEF Edited, Whole
  <2> QED
    BY <1>2, <2>1, <2>2 DEF Whole
<1>3. CASE w.op \in {"delete", "share", "describe", "params"}
  BY <1>3 DEF After, Deleted, Whole
<1>4. CASE w.op \in {"link", "unlink", "publish", "status", "unpublish", "touch", "grant", "revoke"}
  BY <1>4 DEF After, Publish, Unpublished, Whole
<1>5. CASE w.op \in {"pack", "add", "remove", "internal", "role", "publish_pack", "unpublish_pack", "delete_pack"}
  BY <1>5 DEF After, MemberAdded, PackUnpublished, Whole
<1> QED
  BY <1>1, <1>2, <1>3, <1>4, <1>5 DEF Fit, Ops

\* A helper that is to be parsed was read; a command that is made was not there.
LEMMA CallsKnown ==
  ASSUME CacheInv, Begins, helpers \subseteq helpers', used \subseteq used'
  PROVE  /\ \A h \in Call : call'[h].at = "fetched" => call'[h].row.cmd \in helpers'
         /\ \A e \in DOMAIN cached : e[1] \notin helpers' =>
              /\ e[1] \in Command \cap used'
              /\ \A h \in Call : Creating(call'[h]) => call'[h].todo[1].cmd # e[1]
              /\ e[2] \in DOMAIN work.body[e[1]] => cached[e] = work.body[e[1]][e[2]]
<1>1. ASSUME NEW h \in Call, call'[h].at = "fetched" PROVE call'[h].row.cmd \in helpers'
  BY <1>1 DEF Begins, CacheInv
<1>2. ASSUME NEW e \in DOMAIN cached, e[1] \notin helpers'
      PROVE  Cached(e)
  BY <1>2 DEF CacheInv
<1>3. ASSUME NEW e \in DOMAIN cached, e[1] \notin helpers', NEW h \in Call, Creating(call'[h])
      PROVE  call'[h].todo[1].cmd # e[1]
  <2>1. CASE call'[h] = call[h]
    BY <1>2, <1>3, <2>1 DEF Cached
  <2>2. CASE call'[h].todo[1].cmd \notin used
    BY <1>2, <1>3, <2>2 DEF Cached
  <2> QED
    BY <1>3, <2>1, <2>2 DEF Begins
<1> QED
  BY <1>1, <1>2, <1>3 DEF Cached

LEMMA CacheAside ==
  ASSUME CacheInv, Begins, UNCHANGED <<cached, work>>, helpers \subseteq helpers', used \subseteq used'
  PROVE  CacheInv'
BY CallsKnown DEF CacheInv, Cached

LEMMA TransactCaches == ASSUME KeptInv, CacheInv, Begins, NEW h \in Call, Transact(h) PROVE CacheInv'
<1> DEFINE w == Head(call[h].todo)
<1>1. /\ call[h].at = "asked" /\ work' = After(work, w) /\ cached' = Uncached(cached, w)
      /\ UNCHANGED <<helpers, used>>
  BY DEF Transact
<1>2. Fit(work, w) /\ w = call[h].todo[1] /\ (Creating(call[h]) <=> w.op = "create") /\ Whole(work)
  BY <1>1, FirstFits DEF KeptInv
<1> HIDE DEF w
<1>3. ASSUME NEW e \in DOMAIN cached'
      PROVE  e \in DOMAIN cached /\ cached'[e] = cached[e] /\ (w.op = "edit" => e[1] # w.cmd)
  <2>1. CASE w.op = "edit"
    <3>1. cached' = [x \in {x \in DOMAIN cached : x[1] # w.cmd} |-> cached[x]]
      BY <1>1, <2>1 DEF Uncached
    <3> QED
      BY <1>3, <3>1
  <2>2. CASE w.op # "edit"
    BY <1>1, <1>3, <2>2 DEF Uncached
  <2> QED
    BY <2>1, <2>2
<1>4. ASSUME NEW e \in DOMAIN cached', e[1] \notin helpers
      PROVE  work'.body[e[1]] = work.body[e[1]]
  <2>1. Cached(e)
    BY <1>3, <1>4 DEF CacheInv
  <2>2. w.op = "create" => e[1] # w.cmd
    BY <1>2, <2>1 DEF Cached
  <2> QED
    BY <1>1, <1>2, <1>3, <2>1, <2>2, OtherBodies DEF Cached
<1> QED
  BY <1>1, <1>3, <1>4, CallsKnown DEF CacheInv, Cached

\* What was stored before a transaction is what it is after its rollback.
LEMMA RollBackCaches == ASSUME KeptInv, CacheInv, Begins, NEW h \in Call, RollBack(h) PROVE CacheInv'
<1>1. work' = db /\ UNCHANGED <<cached, helpers, used>>
  BY DEF RollBack
<1>2. \A c \in Command : \A v \in DOMAIN db.body[c] : v \in DOMAIN work.body[c] /\ work.body[c][v] = db.body[c][v]
  BY DEF KeptInv, Keeps
<1> QED
  BY <1>1, <1>2, CallsKnown DEF CacheInv, Cached

\* What a name leads to is there.
LEMMA FoundIsThere ==
  ASSUME NEW u, NEW ch, NEW key, NEW target \in Lookup(u, ch, key)
  PROVE  target.cmd \in Command /\ work.cmd[target.cmd] # None
<1>1. \A s, n : \A c \in Published(work, s, n) : Active(work, c)
  BY DEF Published, PublishedRows
<1>2. ASSUME NEW s, NEW n, NEW f \in InPacks(work, s, n) PROVE Active(work, f.cmd)
  <2>1. PICK k \in Offered(work, s) :
          f \in {[cmd |-> c, pack |-> k] :
                   c \in {x \in Members(work, k) \ Helpers(work, k) : work.cmd[x].name = n}}
    BY <1>2 DEF InPacks
  <2>2. PICK c \in Members(work, k) : f = [cmd |-> c, pack |-> k]
    BY <2>1
  <2>3. f.cmd = c
    BY <2>2
  <2> QED
    BY <2>2, <2>3 DEF Members
<1>3. \A s, n : \A f \in Found(work, s, n) : Active(work, f.cmd)
  BY <1>1, <1>2 DEF Found
<1>4. \A n : \A c \in Personal(work, u, n) : Active(work, c)
  BY DEF Personal
<1>5. Active(work, target.cmd)
  BY <1>3, <1>4 DEF Lookup
<1> QED
  BY <1>5 DEF Active

\* A body is parsed: a helper's, or that of the version that is read in the same step.
LEMMA EnterCaches ==
  ASSUME KeptInv, CacheInv, Begins, NEW h \in Call, NEW row, Enter(h, row), UNCHANGED <<work, helpers, used>>,
         \/ row.cmd \in helpers
         \/ \E u, ch, key : \E target \in Lookup(u, ch, key) : row = Row(target)
  PROVE  CacheInv'
<1> DEFINE version == <<row.cmd, row.version>>
           tree == Tree(row)
<1>1. cached' = [e \in DOMAIN cached \cup {version} |-> IF e = version THEN tree ELSE cached[e]]
  BY DEF Enter
<1>2. tree = IF version \in DOMAIN cached THEN cached[version] ELSE row.body
  BY DEF Tree
<1>3. version[1] = row.cmd /\ version[2] = row.version
  OBVIOUS
<1> HIDE DEF version, tree
<1>4. ASSUME NEW e \in DOMAIN cached', e # version, e[1] \notin helpers PROVE Cached(e)'
  <2>1. e \in DOMAIN cached /\ cached'[e] = cached[e]
    BY <1>1, <1>4
  <2> QED
    BY <1>4, <2>1, CallsKnown DEF Cached
<1>5. ASSUME row.cmd \notin helpers PROVE Cached(version)'
  <2>1. PICK u, ch, key : \E target \in Lookup(u, ch, key) : row = Row(target)
    BY <1>5
  <2>2. PICK target \in Lookup(u, ch, key) : row = Row(target)
    BY <2>1
  <2> DEFINE c == row.cmd
  <2>3. c \in Command /\ work.cmd[c] # None
    BY <2>2, RowIs, FoundIsThere
  <2>4. row.version = work.cmd[c].current /\ row.body = work.body[c][row.version]
    BY <2>2, RowIs
  <2>5. c \in used
    BY <2>3 DEF KeptInv, Fresh
  <2>6. \A g \in Call : Creating(call'[g]) => call'[g].todo[1].cmd # c
    <3> SUFFICES ASSUME NEW g \in Call, Creating(call'[g]) PROVE call'[g].todo[1].cmd # c
      OBVIOUS
    <3>1. CASE call'[g] = call[g]
      BY <2>3, <3>1 DEF KeptInv, Fresh
    <3>2. CASE call'[g].todo[1].cmd \notin used
      BY <2>5, <3>2
    <3> QED
      BY <3>1, <3>2 DEF Begins
  <2>7. row.version \in DOMAIN work.body[c]
    BY <2>3, <2>4 DEF KeptInv, Whole
  <2>8. tree = work.body[c][row.version]
    <3>1. CASE version \in DOMAIN cached
      BY <1>2, <1>3, <1>5, <2>7, <3>1 DEF CacheInv, Cached
    <3>2. CASE version \notin DOMAIN cached
      BY <1>2, <2>4, <3>2
    <3> QED
      BY <3>1, <3>2
  <2>9. cached'[version] = tree
    BY <1>1
  <2> QED
    BY <1>3, <2>3, <2>5, <2>6, <2>8, <2>9 DEF Cached
<1>6. \A g \in Call : call'[g].at = "fetched" => call'[g].row.cmd \in helpers'
  BY CallsKnown
<1> QED
  BY <1>3, <1>4, <1>5, <1>6 DEF CacheInv

LEMMA CacheNext == ASSUME KeptInv, CacheInv, [Next]_vars PROVE CacheInv'
<1>0. Begins
  BY KeptNext DEF Goes
<1>1. CASE UNCHANGED vars
  BY <1>0, <1>1, CacheAside DEF vars, tables
<1>2. ASSUME NEW h \in Call, NEW todo, NEW more, AskFor(h, todo, more) PROVE CacheInv'
  BY <1>0, <1>2, CacheAside DEF AskFor, tables
<1>3. ASSUME NEW h \in Call, AskCommand(h) PROVE CacheInv'
  BY <1>3, <1>2, ZenonT(60) DEF AskCommand, Ask, AskCreate, AskEdit, AskRevert, AskParam, AskDelete, AskLink, AskUnlink,
     AskPublish, AskStatus, AskUnpublish, AskGrant
<1>4. ASSUME NEW h \in Call, AskOfPack(h) PROVE CacheInv'
  BY <1>4, <1>2 DEF AskOfPack, Ask, AskPack, AskMembers, AskMember, AskSharePack, AskDeletePack, AskPublishPack,
     AskUnpublishPack
<1>5. ASSUME NEW h \in Call, ReadOn(h) \/ GiveUp(h) \/ Commit(h) \/ Reload(h) \/ Cut(h) PROVE CacheInv'
  BY <1>0, <1>5, CacheAside DEF ReadOn, GiveUp, Commit, Reload, Cut, tables
<1>6. ASSUME NEW h \in Call, Transact(h) \/ RollBack(h) PROVE CacheInv'
  BY <1>0, <1>6, TransactCaches, RollBackCaches
<1>7. ASSUME NEW h \in Call, Type(h) \/ NextLevel(h) \/ RunEnds(h) PROVE CacheInv'
  BY <1>0, <1>7, CacheAside DEF Type, NextLevel, RunEnds, tables
<1>8. ASSUME NEW h \in Call, LookUp(h) PROVE CacheInv'
  <2>1. UNCHANGED <<work, used>>
    BY <1>8 DEF LookUp, tables
  <2>2. \/ cached' = cached /\ helpers \subseteq helpers'
        \/ \E u, ch, key : \E target \in Lookup(u, ch, key) : Enter(h, Row(target)) /\ helpers' = helpers
    BY <1>8 DEF LookUp
  <2> QED
    BY <1>0, <2>1, <2>2, CacheAside, EnterCaches
<1>9. ASSUME NEW h \in Call, PackRead(h) PROVE CacheInv'
  <2>1. call[h].at = "fetched" /\ Enter(h, call[h].row) /\ UNCHANGED <<work, helpers, used>>
    BY <1>9 DEF PackRead, tables
  <2>2. call[h].row.cmd \in helpers
    BY <2>1 DEF CacheInv
  <2> QED
    BY <1>0, <2>1, <2>2, EnterCaches
<1> QED
  BY <1>1, <1>3, <1>4, <1>5, <1>6, <1>7, <1>8, <1>9 DEF Next

\* Whatever is edited, reverted and rolled back while lines run: the tree that is kept for a version is that of the
\* version, but for a command that was read as a pack's helper.
THEOREM CacheSafety == Spec => []CacheAgrees
<1>1. Init => CacheInv
  <2> SUFFICES ASSUME Init PROVE CacheInv
    OBVIOUS
  <2>1. DOMAIN cached = {} /\ call = [h \in Call |-> Idle]
    BY DEF Init
  <2>2. \A h \in Call : call[h].at # "fetched"
    BY <2>1 DEF Idle
  <2> QED
    BY <2>1, <2>2 DEF CacheInv
<1>2. KeptInv /\ CacheInv /\ [Next]_vars => KeptInv' /\ CacheInv'
  BY KeptNext, CacheNext DEF Goes
<1>3. CacheInv => CacheAgrees
  BY DEF CacheInv, Cached, CacheAgrees
<1> QED
  BY <1>1, <1>2, <1>3, KeptInit, PTL DEF Spec

-----------------------------------------------------------------------------
(* What is listed. *)

\* What is published was stored once; it is orphaned only when its command is gone, and is disabled only in a
\* channel.
Shown(t) ==
  /\ {"cmd", "body", "pub"} \subseteq DOMAIN t /\ Scope \X Name \subseteq DOMAIN t.pub
  /\ \A c \in Command : t.cmd[c] # None => "active" \in DOMAIN t.cmd[c]
  /\ \A p \in Scope \X Name : t.pub[p] # None =>
       /\ {"cmd", "status"} \subseteq DOMAIN t.pub[p] /\ t.pub[p].cmd \in Command /\ DOMAIN t.body[t.pub[p].cmd] # {}
       /\ Active(t, t.pub[p].cmd) => t.pub[p].status = "active" \/ (p[1] \in Channel /\ t.pub[p].status = "disabled")

\* Tables where no publication is new or another's, and no command has come back.
LEMMA ShownStill ==
  ASSUME NEW t, NEW n, Shown(t), {"cmd", "body", "pub"} \subseteq DOMAIN n, n.pub = t.pub,
         \A c \in Command : n.cmd[c] # None => "active" \in DOMAIN n.cmd[c],
         \A c \in Command : DOMAIN t.body[c] # {} => DOMAIN n.body[c] # {} /\ (Active(n, c) => Active(t, c))
  PROVE  Shown(n)
BY DEF Shown

\* Tables where one publication has changed.
LEMMA ShownThere ==
  ASSUME NEW t, NEW n, NEW p, NEW row, Shown(t), {"cmd", "body", "pub"} \subseteq DOMAIN n,
         n.cmd = t.cmd, n.body = t.body, n.pub = [t.pub EXCEPT ![p] = row],
         p \in Scope \X Name /\ row # None =>
           /\ {"cmd", "status"} \subseteq DOMAIN row /\ row.cmd \in Command /\ DOMAIN t.body[row.cmd] # {}
           /\ Active(t, row.cmd) => row.status = "active" \/ (p[1] \in Channel /\ row.status = "disabled")
  PROVE  Shown(n)
<1>1. DOMAIN n.pub = DOMAIN t.pub /\ \A q \in Scope \X Name : n.pub[q] = IF q = p THEN row ELSE t.pub[q]
  BY DEF Shown
<1>2. \A c : Active(n, c) <=> Active(t, c)
  BY DEF Active
<1>3. ASSUME NEW q \in Scope \X Name, n.pub[q] # None
      PROVE  /\ {"cmd", "status"} \subseteq DOMAIN n.pub[q] /\ n.pub[q].cmd \in Command /\ DOMAIN n.body[n.pub[q].cmd] # {}
             /\ Active(n, n.pub[q].cmd) =>
                  n.pub[q].status = "active" \/ (q[1] \in Channel /\ n.pub[q].status = "disabled")
  <2>1. CASE q = p
    BY <1>1, <1>2, <1>3, <2>1
  <2>2. CASE q # p
    BY <1>1, <1>2, <1>3, <2>2 DEF Shown
  <2> QED
    BY <2>1, <2>2
<1> QED
  BY <1>1, <1>3 DEF Shown

LEMMA CreateShows == ASSUME NEW t, NEW w, Whole(t), Shown(t), Fresh(t, w.cmd) PROVE Shown(Created(t, w))
<1> DEFINE n == Created(t, w)
           row == NewRow(w.user, w.name)
<1>1. /\ DOMAIN n = DOMAIN t /\ n.pub = t.pub
      /\ n.cmd = [t.cmd EXCEPT ![w.cmd] = row] /\ n.body = [t.body EXCEPT ![w.cmd] = <<w.body>>]
  BY DEF Created, Whole, Shown
<1>2. "active" \in DOMAIN row
  BY DEF NewRow
<1> HIDE DEF n, row
<1>3. \A c \in Command : /\ n.cmd[c] = IF c = w.cmd THEN row ELSE t.cmd[c]
                         /\ c # w.cmd => n.body[c] = t.body[c]
  BY <1>1 DEF Whole
<1>4. ASSUME NEW c \in Command, DOMAIN t.body[c] # {}
      PROVE  DOMAIN n.body[c] # {} /\ (Active(n, c) => Active(t, c))
  <2>1. c # w.cmd
    BY <1>4 DEF Fresh
  <2> QED
    BY <1>3, <1>4, <2>1 DEF Active
<1>5. ASSUME NEW c \in Command, n.cmd[c] # None PROVE "active" \in DOMAIN n.cmd[c]
  BY <1>2, <1>3, <1>5 DEF Shown
<1>6. Shown(n)
  BY <1>1, <1>4, <1>5, ShownStill, SMTT(60) DEF Shown
<1> QED
  BY <1>6 DEF n

\* Tables where a row has changed that was there, and the bodies of that command at most.
LEMMA RowShows ==
  ASSUME NEW t, NEW n, NEW c, NEW row, Whole(t), Shown(t), Whole(n), Keeps(t, n), "pub" \in DOMAIN n,
         n.pub = t.pub, n.cmd = [t.cmd EXCEPT ![c] = row], t.cmd[c] # None,
         "active" \in DOMAIN t.cmd[c] => "active" \in DOMAIN row /\ row.active = t.cmd[c].active
  PROVE  Shown(n)
<1>1. \A d \in Command : n.cmd[d] = IF d = c THEN row ELSE t.cmd[d]
  BY DEF Whole
<1>2. ASSUME NEW d \in Command, n.cmd[d] # None PROVE "active" \in DOMAIN n.cmd[d]
  BY <1>1, <1>2 DEF Shown
<1>3. ASSUME NEW d \in Command, Active(n, d) PROVE Active(t, d)
  <2>1. CASE d = c
    <3>1. "active" \in DOMAIN t.cmd[d] /\ n.cmd[d] = row
      BY <1>1, <2>1 DEF Shown
    <3>2. n.cmd[d].active = t.cmd[d].active
      BY <2>1, <3>1
    <3>3. n.cmd[d].active
      BY <1>3 DEF Active
    <3>4. t.cmd[d].active
      BY <3>2, <3>3, Zenon
    <3> QED
      BY <2>1, <3>4 DEF Active
  <2>2. CASE d # c
    BY <1>1, <1>3, <2>2 DEF Active
  <2> QED
    BY <2>1, <2>2
<1>4. \A d \in Command : DOMAIN t.body[d] # {} => DOMAIN n.body[d] # {}
  BY DEF Keeps
<1> QED
  BY <1>2, <1>3, <1>4, ShownStill DEF Whole

LEMMA EditShows ==
  ASSUME NEW t, NEW w, Whole(t), Shown(t), Fit(t, w), Applies(t, w), w.op = "edit"
  PROVE  Shown(After(t, w))
<1> DEFINE n == After(t, w)
           row == [t.cmd[w.cmd] EXCEPT !.current = w.version + 1]
<1>1. DOMAIN n = DOMAIN t /\ n.cmd = [t.cmd EXCEPT ![w.cmd] = row] /\ n.pub = t.pub
  BY DEF After, Edited, Whole, Shown
<1>2. "active" \in DOMAIN t.cmd[w.cmd] => "active" \in DOMAIN row /\ row.active = t.cmd[w.cmd].active
  OBVIOUS
<1>3. Whole(n) /\ Keeps(t, n)
  BY AfterKeeps
<1>4. t.cmd[w.cmd] # None
  BY DEF Applies, Clashes, Vanished
<1> HIDE DEF n, row
<1>5. "pub" \in DOMAIN n
  BY <1>1 DEF Shown
<1>6. Shown(n)
  BY <1>1, <1>2, <1>3, <1>4, <1>5, RowShows
<1> QED
  BY <1>6 DEF n

LEMMA RowChangeShows ==
  ASSUME NEW t, NEW w, Whole(t), Shown(t), Fit(t, w), Applies(t, w), w.op \in {"share", "describe", "params"}
  PROVE  Shown(After(t, w))
<1> DEFINE n == After(t, w)
           old == t.cmd[w.cmd]
           row == CASE w.op = "share" -> [old EXCEPT !.shared = w.on]
                    [] w.op = "describe" -> [old EXCEPT !.described = TRUE]
                    [] w.op = "params" -> [old EXCEPT !.params = w.params]
<1>1. DOMAIN n = DOMAIN t /\ n.cmd = [t.cmd EXCEPT ![w.cmd] = row] /\ n.pub = t.pub
  <2>1. CASE w.op = "share"
    BY <2>1 DEF After, Whole, Shown
  <2>2. CASE w.op = "describe"
    BY <2>2 DEF After, Whole, Shown
  <2>3. CASE w.op = "params"
    BY <2>3 DEF After, Whole, Shown
  <2> QED
    BY <2>1, <2>2, <2>3
<1>2. "active" \in DOMAIN old => "active" \in DOMAIN row /\ row.active = old.active
  OBVIOUS
<1>3. Whole(n) /\ Keeps(t, n)
  BY AfterKeeps
<1>4. old # None
  BY DEF Applies, Misses
<1> HIDE DEF n, row
<1>5. "pub" \in DOMAIN n
  BY <1>1 DEF Shown
<1>6. Shown(n)
  BY <1>1, <1>2, <1>3, <1>4, <1>5, RowShows
<1> QED
  BY <1>6 DEF n

\* What is deleted is not there any more, and its publications are orphaned.
LEMMA DeleteShows ==
  ASSUME NEW t, NEW w, Whole(t), Shown(t), Applies(t, w), w.op = "delete"
  PROVE  Shown(After(t, w))
<1> DEFINE n == After(t, w)
           old == t.cmd[w.cmd]
           row == [old EXCEPT !.active = FALSE]
           orphan(p) == [t.pub[p] EXCEPT !.status = "orphaned"]
<1>1. DOMAIN n = DOMAIN t /\ n.cmd = [t.cmd EXCEPT ![w.cmd] = row] /\ n.body = t.body
  BY DEF After, Deleted, Whole, Shown
<1>2. n.pub = [p \in DOMAIN t.pub |-> IF t.pub[p] # None /\ t.pub[p].cmd = w.cmd THEN orphan(p) ELSE t.pub[p]]
  BY DEF After, Deleted, Whole, Shown
<1>3. "active" \in DOMAIN old => "active" \in DOMAIN row /\ row.active = FALSE
  OBVIOUS
<1>4. old # None
  BY DEF Applies, Misses
<1>5. \A p : {"cmd", "status"} \subseteq DOMAIN t.pub[p] =>
        {"cmd", "status"} \subseteq DOMAIN orphan(p) /\ orphan(p).cmd = t.pub[p].cmd
  OBVIOUS
<1> HIDE DEF n, row, orphan
<1>6. \A d \in Command : n.cmd[d] = IF d = w.cmd THEN row ELSE t.cmd[d]
  BY <1>1 DEF Whole
<1>7. ASSUME NEW d \in Command, n.cmd[d] # None PROVE "active" \in DOMAIN n.cmd[d]
  BY <1>3, <1>4, <1>6, <1>7 DEF Shown
<1>8. ASSUME NEW d \in Command, Active(n, d) PROVE d # w.cmd /\ Active(t, d)
  <2>1. d # w.cmd
    <3>1. SUFFICES ASSUME d = w.cmd PROVE FALSE
      OBVIOUS
    <3>2. n.cmd[d].active = FALSE
      BY <1>3, <1>4, <1>6, <3>1 DEF Shown
    <3> QED
      BY <1>8, <3>2 DEF Active
  <2> QED
    BY <1>6, <1>8, <2>1 DEF Active
<1>9. ASSUME NEW p \in Scope \X Name, n.pub[p] # None
      PROVE  /\ {"cmd", "status"} \subseteq DOMAIN n.pub[p] /\ n.pub[p].cmd \in Command /\ DOMAIN n.body[n.pub[p].cmd] # {}
             /\ Active(n, n.pub[p].cmd) =>
                  n.pub[p].status = "active" \/ (p[1] \in Channel /\ n.pub[p].status = "disabled")
  <2>1. p \in DOMAIN t.pub
    BY DEF Shown
  <2>2. CASE t.pub[p] # None /\ t.pub[p].cmd = w.cmd
    <3>1. n.pub[p] = orphan(p)
      BY <1>2, <2>1, <2>2
    <3>2. {"cmd", "status"} \subseteq DOMAIN n.pub[p] /\ n.pub[p].cmd = w.cmd
      BY <1>5, <2>2, <3>1 DEF Shown
    <3> QED
      BY <1>1, <1>8, <2>2, <3>2 DEF Shown
  <2>3. CASE ~(t.pub[p] # None /\ t.pub[p].cmd = w.cmd)
    <3>1. n.pub[p] = t.pub[p]
      BY <1>2, <2>1, <2>3
    <3> QED
      BY <1>1, <1>8, <1>9, <3>1 DEF Shown
  <2> QED
    BY <2>2, <2>3
<1>10. Scope \X Name \subseteq DOMAIN n.pub /\ {"cmd", "body", "pub"} \subseteq DOMAIN n
  BY <1>1, <1>2 DEF Shown
<1>11. Shown(n)
  BY <1>7, <1>9, <1>10 DEF Shown
<1> QED
  BY <1>11 DEF n

LEMMA PublicationShows ==
  ASSUME NEW t, NEW w, Whole(t), Shown(t), Fit(t, w), Applies(t, w),
         w.op \in {"publish", "status", "unpublish", "touch"}
  PROVE  Shown(After(t, w))
<1> DEFINE n == After(t, w)
           p == <<w.scope, w.name>>
           old == t.pub[p]
           new == [cmd |-> w.cmd, status |-> "active", ran |-> IF old = None THEN 0 ELSE old.ran]
           row == CASE w.op = "publish" -> new
                    [] w.op = "status" -> [old EXCEPT !.status = w.status]
                    [] w.op = "unpublish" -> None
                    [] w.op = "touch" -> [old EXCEPT !.ran = w.version]
<1>1. DOMAIN n = DOMAIN t /\ n.cmd = t.cmd /\ n.body = t.body /\ n.pub = [t.pub EXCEPT ![p] = row]
  <2>1. CASE w.op = "publish"
    BY <2>1 DEF After, Publish, Whole, Shown
  <2>2. CASE w.op = "status"
    BY <2>2 DEF After, Whole, Shown
  <2>3. CASE w.op = "unpublish"
    BY <2>3 DEF After, Unpublished, Whole, Shown
  <2>4. CASE w.op = "touch"
    BY <2>4 DEF After, Whole, Shown
  <2> QED
    BY <2>1, <2>2, <2>3, <2>4
<1>2. ASSUME p \in Scope \X Name, row # None
      PROVE  /\ {"cmd", "status"} \subseteq DOMAIN row /\ row.cmd \in Command /\ DOMAIN t.body[row.cmd] # {}
             /\ Active(t, row.cmd) => row.status = "active" \/ (p[1] \in Channel /\ row.status = "disabled")
  <2>1. CASE w.op = "publish"
    <3>1. row = new
      BY <2>1
    <3>2. {"cmd", "status"} \subseteq DOMAIN row /\ row.cmd = w.cmd /\ row.status = "active"
      BY <3>1
    <3>3. w.cmd \in Command /\ t.cmd[w.cmd] # None
      BY <2>1 DEF Fit, Right, Applies, Clashes, Vanished
    <3> HIDE DEF row
    <3> QED
      BY <3>2, <3>3 DEF Whole
  <2>2. CASE w.op = "status"
    <3>1. row = [old EXCEPT !.status = w.status] /\ old # None
      BY <2>2 DEF Applies, Misses
    <3>2. {"cmd", "status"} \subseteq DOMAIN old /\ old.cmd \in Command /\ DOMAIN t.body[old.cmd] # {}
      BY <1>2, <3>1 DEF Shown
    <3>3. {"cmd", "status"} \subseteq DOMAIN row /\ row.cmd = old.cmd /\ row.status = w.status
      BY <3>1, <3>2
    <3>4. p[1] \in Channel /\ w.status \in {"active", "disabled"}
      BY <2>2 DEF Fit, Right
    <3> HIDE DEF row, old, p
    <3> QED
      BY <3>2, <3>3, <3>4
  <2>3. CASE w.op = "unpublish"
    BY <1>2, <2>3
  <2>4. CASE w.op = "touch"
    <3>1. row = [old EXCEPT !.ran = w.version] /\ old # None
      BY <2>4 DEF Applies, Misses
    <3>2. /\ {"cmd", "status"} \subseteq DOMAIN old /\ old.cmd \in Command /\ DOMAIN t.body[old.cmd] # {}
          /\ Active(t, old.cmd) => old.status = "active" \/ (p[1] \in Channel /\ old.status = "disabled")
      BY <1>2, <3>1 DEF Shown
    <3>3. {"cmd", "status"} \subseteq DOMAIN row /\ row.cmd = old.cmd /\ row.status = old.status
      BY <3>1, <3>2
    <3> HIDE DEF row, old, p
    <3> QED
      BY <3>2, <3>3
  <2> QED
    BY <2>1, <2>2, <2>3, <2>4
<1> HIDE DEF n, p, row
<1>3. {"cmd", "body", "pub"} \subseteq DOMAIN n
  BY <1>1 DEF Shown
<1>4. Shown(n)
  BY <1>1, <1>2, <1>3, ShownThere
<1> QED
  BY <1>4 DEF n

LEMMA OtherShows ==
  ASSUME NEW t, NEW w, Whole(t), Shown(t),
         w.op \in {"link", "unlink", "grant", "revoke", "pack", "add", "remove", "internal", "role", "publish_pack",
                   "unpublish_pack", "delete_pack"}
  PROVE  Shown(After(t, w))
<1> DEFINE n == After(t, w)
<1>1. {"cmd", "body", "pub"} \subseteq DOMAIN n /\ n.cmd = t.cmd /\ n.body = t.body /\ n.pub = t.pub
  <2>1. CASE w.op \in {"link", "unlink", "grant", "revoke"}
    BY <2>1 DEF After, Shown
  <2>2. CASE w.op \in {"pack", "add", "remove", "internal", "role", "publish_pack", "unpublish_pack", "delete_pack"}
    BY <2>2 DEF After, MemberAdded, PackUnpublished, Shown
  <2> QED
    BY <2>1, <2>2
<1> HIDE DEF n
<1>2. Shown(n)
  BY <1>1 DEF Shown, Active
<1> QED
  BY <1>2 DEF n

LEMMA AfterShows ==
  ASSUME NEW t, NEW w, Whole(t), Shown(t), Fit(t, w), Applies(t, w)
  PROVE  Shown(After(t, w))
<1>1. CASE w.op = "create"
  BY <1>1, CreateShows DEF After, Fit
<1>2. CASE w.op # "create"
  BY <1>2, EditShows, RowChangeShows, DeleteShows, PublicationShows, OtherShows DEF Fit, Ops
<1> QED
  BY <1>1, <1>2

ShownInv == Shown(db) /\ Shown(work)

\* Only a transaction, its commit and its rollback change a table.
LEMMA TablesNext ==
  ASSUME [Next]_vars
  PROVE  UNCHANGED <<db, work>> \/ \E h \in Call : Transact(h) \/ Commit(h) \/ RollBack(h)
<1>1. CASE UNCHANGED vars
  BY <1>1 DEF vars, tables
<1>2. ASSUME NEW h \in Call, NEW todo, NEW more, AskFor(h, todo, more) PROVE UNCHANGED <<db, work>>
  BY <1>2 DEF AskFor, tables
<1>3. ASSUME NEW h \in Call, AskCommand(h) PROVE UNCHANGED <<db, work>>
  BY <1>3, <1>2, ZenonT(60) DEF AskCommand, Ask, AskCreate, AskEdit, AskRevert, AskParam, AskDelete, AskLink, AskUnlink,
     AskPublish, AskStatus, AskUnpublish, AskGrant
<1>4. ASSUME NEW h \in Call, AskOfPack(h) PROVE UNCHANGED <<db, work>>
  BY <1>4, <1>2 DEF AskOfPack, Ask, AskPack, AskMembers, AskMember, AskSharePack, AskDeletePack, AskPublishPack,
     AskUnpublishPack
<1>5. ASSUME NEW h \in Call, ReadOn(h) \/ GiveUp(h) \/ Reload(h) \/ Cut(h) PROVE UNCHANGED <<db, work>>
  BY <1>5 DEF ReadOn, GiveUp, Reload, Cut, tables
<1>6. ASSUME NEW h \in Call, Type(h) \/ LookUp(h) \/ PackRead(h) \/ NextLevel(h) \/ RunEnds(h)
      PROVE  UNCHANGED <<db, work>>
  BY <1>6 DEF Type, LookUp, PackRead, NextLevel, RunEnds, tables
<1> QED
  BY <1>1, <1>3, <1>4, <1>5, <1>6 DEF Next

LEMMA ShownNext == ASSUME KeptInv, ShownInv, [Next]_vars PROVE ShownInv'
<1>1. CASE UNCHANGED <<db, work>>
  BY <1>1 DEF ShownInv
<1>2. ASSUME NEW h \in Call, Transact(h) PROVE ShownInv'
  <2> DEFINE w == Head(call[h].todo)
  <2>1. call[h].at = "asked" /\ Applies(work, w) /\ work' = After(work, w) /\ db' = db
    BY <1>2 DEF Transact
  <2>2. Fit(work, w) /\ Whole(work)
    BY <2>1, FirstFits DEF KeptInv
  <2> HIDE DEF w
  <2> QED
    BY <2>1, <2>2, AfterShows DEF ShownInv
<1>3. ASSUME NEW h \in Call, Commit(h) \/ RollBack(h) PROVE ShownInv'
  BY <1>3 DEF Commit, RollBack, ShownInv
<1> QED
  BY <1>1, <1>2, <1>3, TablesNext

LEMMA ShownInit == Init => ShownInv
<1> SUFFICES ASSUME Init PROVE ShownInv
  OBVIOUS
<1>1. theme \in Themes /\ db = FirstTables(theme) /\ work = FirstTables(theme)
  BY DEF Init
<1>2. \A c \in Command : db.cmd[c] # None => {"current", "active"} \subseteq DOMAIN db.cmd[c] /\ db.cmd[c].current \in DOMAIN db.body[c]
  BY <1>1, FirstTablesAssumption
<1>3. {"cmd", "body", "pub"} \subseteq DOMAIN db
  BY <1>1, FirstTablesAssumption
<1>4. \A p \in Scope \X Name : p \in DOMAIN db.pub /\ (db.pub[p] # None =>
         /\ {"cmd", "status"} \subseteq DOMAIN db.pub[p] /\ db.pub[p].cmd \in Command /\ db.cmd[db.pub[p].cmd] # None
         /\ Active(db, db.pub[p].cmd) => db.pub[p].status = "active" \/ (p[1] \in Channel /\ db.pub[p].status = "disabled"))
  BY <1>1, FirstTablesAssumption
<1>5. Shown(db)
  BY <1>2, <1>3, <1>4 DEF Shown
<1> QED
  BY <1>1, <1>5 DEF ShownInv

\* Under a name that is not switched off in a channel, the list has what is found.
LEMMA ListsIsFound ==
  ASSUME NEW t, Shown(t), NEW ch \in Channel, NEW n \in Name,
         \A p \in PublishedRows(t, ch, n) : p.status # "disabled"
  PROVE  Lists(t, ch, n) = Found(t, ch, n)
<1> DEFINE rows(s) == {[cmd |-> p.cmd, pack |-> None] : p \in PublishedRows(t, s, n)}
           alone(s) == {[cmd |-> c, pack |-> None] : c \in Published(t, s, n)}
           places == <<InPacks(t, Global, n), InPacks(t, ch, n), rows(Global), rows(ch)>>
           filled == {i \in 1..4 : places[i] # {}}
<1>1. ASSUME NEW s \in {ch, Global}, NEW p \in PublishedRows(t, s, n) PROVE p.status = "active"
  <2> DEFINE at == <<s, n>>
  <2>1. at \in Scope \X Name /\ at[1] = s
    BY DEF Scope
  <2>2. p = t.pub[at] /\ p # None /\ Active(t, p.cmd)
    BY <1>1 DEF PublishedRows
  <2>3. p.status = "active" \/ (s \in Channel /\ p.status = "disabled")
    <3> HIDE DEF at
    <3> QED
      BY <2>1, <2>2 DEF Shown
  <2>4. s = ch => p.status # "disabled"
    BY <1>1
  <2> QED
    BY <1>1, <2>3, <2>4, CommandTablesAssumption
<1>2. \A s \in {ch, Global} : rows(s) = alone(s)
  <2> SUFFICES ASSUME NEW s \in {ch, Global} PROVE rows(s) = alone(s)
    OBVIOUS
  <2>1. Published(t, s, n) = {p.cmd : p \in PublishedRows(t, s, n)}
    BY <1>1 DEF Published
  <2> QED
    BY <2>1
<1>3. Lists(t, ch, n) = IF filled = {} THEN {} ELSE places[CHOOSE i \in filled : \A j \in filled : j <= i]
  BY DEF Lists
<1>4. Found(t, ch, n) = IF alone(ch) # {} THEN alone(ch)
                        ELSE IF alone(Global) # {} THEN alone(Global)
                        ELSE IF InPacks(t, ch, n) # {} THEN InPacks(t, ch, n)
                        ELSE InPacks(t, Global, n)
  BY DEF Found
<1>5. /\ places[1] = InPacks(t, Global, n) /\ places[2] = InPacks(t, ch, n)
      /\ places[3] = alone(Global) /\ places[4] = alone(ch)
  BY <1>2
<1>6. \A i \in 1..4 : i \in filled <=> places[i] # {}
  OBVIOUS
<1>7. filled \subseteq 1..4
  OBVIOUS
<1> HIDE DEF places, filled, rows, alone
<1>8. ASSUME NEW i \in filled, \A j \in filled : j <= i
      PROVE  Lists(t, ch, n) = places[i]
  <2> DEFINE last == CHOOSE k \in filled : \A j \in filled : j <= k
  <2>1. last \in filled /\ \A j \in filled : j <= last
    BY <1>8
  <2>2. last = i
    <3> HIDE DEF last
    <3>1. last <= i /\ i <= last /\ last \in 1..4 /\ i \in 1..4
      BY <1>7, <1>8, <2>1
    <3> QED
      BY <3>1
  <2> QED
    BY <1>3, <1>8, <2>2
<1>9. CASE 4 \in filled
  <2>1. Lists(t, ch, n) = places[4]
    BY <1>7, <1>8, <1>9
  <2> QED
    BY <1>4, <1>5, <1>6, <1>9, <2>1
<1>10. CASE 4 \notin filled /\ 3 \in filled
  <2>1. \A j \in filled : j <= 3
    BY <1>7, <1>10
  <2>2. Lists(t, ch, n) = places[3]
    BY <1>8, <1>10, <2>1
  <2> QED
    BY <1>4, <1>5, <1>6, <1>10, <2>2
<1>11. CASE 4 \notin filled /\ 3 \notin filled /\ 2 \in filled
  <2>1. \A j \in filled : j <= 2
    BY <1>7, <1>11
  <2>2. Lists(t, ch, n) = places[2]
    BY <1>8, <1>11, <2>1
  <2> QED
    BY <1>4, <1>5, <1>6, <1>11, <2>2
<1>12. CASE 4 \notin filled /\ 3 \notin filled /\ 2 \notin filled
  <2>1. filled \subseteq {1}
    BY <1>7, <1>12
  <2>2. CASE 1 \in filled
    <3>1. Lists(t, ch, n) = places[1]
      BY <1>8, <2>1, <2>2
    <3> QED
      BY <1>4, <1>5, <1>6, <1>12, <3>1
  <2>3. CASE 1 \notin filled
    BY <1>3, <1>4, <1>5, <1>6, <1>12, <2>1, <2>3
  <2> QED
    BY <2>2, <2>3
<1> QED
  BY <1>9, <1>10, <1>11, <1>12

\* What a line finds belongs to a module its channel can switch off.
LEMMA FoundInModules ==
  ASSUME NEW t, NEW ch \in Channel, NEW n \in Name, NEW f \in Found(t, ch, n)
  PROVE  SpecFor(t, f).module \in CustomModules(t, ch)
<1>1. \/ \E s \in {ch, Global} : \E c \in Published(t, s, n) : f = [cmd |-> c, pack |-> None]
      \/ \E s \in {ch, Global} : f \in InPacks(t, s, n)
  BY DEF Found
<1>2. ASSUME NEW s \in {ch, Global}, NEW c \in Published(t, s, n), f = [cmd |-> c, pack |-> None]
      PROVE  SpecFor(t, f).module \in CustomModules(t, ch)
  <2>1. t.pub[s, n] # None
    BY <1>2 DEF Published, PublishedRows
  <2>2. f.pack = None
    BY <1>2
  <2>3. SpecFor(t, f).module = "custom"
    BY <2>2 DEF SpecFor
  <2> QED
    BY <2>1, <2>3 DEF CustomModules
<1>3. ASSUME NEW s \in {ch, Global}, f \in InPacks(t, s, n)
      PROVE  SpecFor(t, f).module \in CustomModules(t, ch)
  <2>1. PICK k \in Offered(t, s) : \E c : f = [cmd |-> c, pack |-> k]
    BY <1>3 DEF InPacks
  <2>2. f.pack = k
    BY <2>1
  <2>3. k # None
    BY CommandTablesAssumption DEF Offered
  <2>4. SpecFor(t, f).module = t.pack[k].name
    BY <2>2, <2>3 DEF SpecFor
  <2> QED
    BY <1>3, <2>4 DEF CustomModules
<1> QED
  BY <1>1, <1>2, <1>3

\* Whatever is published, disabled, deleted and rolled back: what is listed under a name that is not switched off
\* is what a line that types it runs, and belongs to a module the channel can switch off.
THEOREM ListingSafety == Spec => []ListedAsRun
<1>1. KeptInv /\ ShownInv /\ [Next]_vars => KeptInv' /\ ShownInv'
  BY KeptNext, ShownNext DEF Goes
<1>2. ASSUME ShownInv PROVE ListedAsRun
  <2>1. ASSUME NEW ch \in Channel, NEW n \in Name, work.pub[ch, n] = None \/ work.pub[ch, n].status # "disabled"
        PROVE  \A p \in PublishedRows(work, ch, n) : p.status # "disabled"
    BY <2>1, Zenon DEF PublishedRows
  <2> QED
    BY <1>2, <2>1, ListsIsFound, FoundInModules, Zenon DEF ShownInv, ListedAsRun
<1> QED
  BY <1>1, <1>2, KeptInit, ShownInit, PTL DEF Spec

=============================================================================
