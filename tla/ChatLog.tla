------------------------------- MODULE ChatLog -------------------------------
(***************************************************************************)
(* The chat log writer (chatlog/writer.py): every message, notice and      *)
(* moderation event becomes a few operations on a bounded queue, and one   *)
(* task takes them in batches and stores each batch in a transaction.      *)
(*                                                                         *)
(* A producer is a coroutine inside message(), notification() or           *)
(* moderation(): it puts the operations of its event one after another and *)
(* waits whenever the queue is full.  Live events have a handler each, and *)
(* a fill of the history stores one line at a time.                        *)
(***************************************************************************)
EXTENDS Integers, Sequences, FiniteSets, SequencesExt

CONSTANTS
  Message,     \* message ids
  User,        \* chatters
  UserOf,      \* who sent each message
  SentAt,      \* when each message was sent
  Live,        \* the events Twitch delivers while the bot is up
  QueueMax,    \* QUEUE_MAX
  Batch,       \* FLUSH_BATCH
  Faulty       \* the messages whose row the database refuses

\* The events of a channel.  A clearing names a user, or nobody for the whole chat.
Event == [kind : {"message"}, msg : Message] \cup [kind : {"delete"}, msg : Message, at : Nat]
         \cup [kind : {"clear"}, user : User, at : Nat] \cup [kind : {"clear_all"}, at : Nat]

ASSUME ChatLogAssumption ==
  /\ UserOf \in [Message -> User] /\ SentAt \in [Message -> Nat]
  /\ Live \subseteq Event
  /\ QueueMax \in Nat \ {0} /\ Batch \in Nat \ {0}

VARIABLES
  queue,    \* _queue; the sentinel Stop ends the writer
  taken,    \* the operations `_run` has taken and not stored yet
  writer,   \* where `_run` is
  putting,  \* per producer: the operations it has yet to put
  heard,    \* history: the live events this process heard, in order
  waited,   \* history: live events whose handler had to wait for room
  late,     \* history: operations put once the writer takes no more
  log,      \* the tables
  dropped   \* history: operations that the database refused twice

logVars == <<queue, taken, writer, putting, heard, waited, late, log, dropped>>

Fill == [kind |-> "fill"]
Producer == Live \cup {Fill}
Stop == [op |-> "stop"]

\* A row of `messages`; NoRow while it is not stored.
NoRow == [source |-> "none"]
Row == [source : {"eventsub", "ivr-logs"}, deleted : BOOLEAN, cleared : BOOLEAN]

LogInit ==
  /\ queue = <<>> /\ taken = <<>> /\ writer = "taking"
  /\ putting = [p \in Producer |-> <<>>]
  /\ heard = <<>> /\ waited = {} /\ late = {} /\ dropped = {}
  /\ log = [messages |-> [m \in Message |-> NoRow], mods |-> {}]

-----------------------------------------------------------------------------
(* Producers. *)

\* message() and moderation(): what an event is stored as, in this order.  The two rows
\* about the author of a message (users, user_names) go with the message's own.
Ops(e, source) ==
  IF e.kind = "message"
  THEN <<[op |-> "message", msg |-> e.msg, source |-> source]>>
  ELSE <<[op |-> "mod_event", event |-> e], [op |-> "flag", event |-> e]>>

Room == QueueMax - Len(queue)

\* The writer still takes what is put.
Taking == writer \in {"taking", "singly"}

\* _put until the queue is full: operations ops of producer p.
PutAll(p, ops) ==
  LET n == IF Len(ops) <= Room THEN Len(ops) ELSE Room
  IN /\ queue' = queue \o SubSeq(ops, 1, n)
     /\ putting' = [putting EXCEPT ![p] = SubSeq(ops, n + 1, Len(ops))]
     /\ late' = IF Taking THEN late ELSE late \cup ToSet(SubSeq(ops, 1, n))

\* A live event reaches its handler; its message is in the channel already.
Hear(e) ==
  /\ ~\E i \in DOMAIN heard : heard[i] = e
  /\ e.kind = "delete" => \E i \in DOMAIN heard : heard[i] = [kind |-> "message", msg |-> e.msg]
  /\ heard' = Append(heard, e)
  /\ PutAll(e, Ops(e, "eventsub"))
  /\ waited' = IF Len(Ops(e, "eventsub")) <= Room THEN waited ELSE waited \cup {e}
  /\ UNCHANGED <<taken, writer, log, dropped>>

\* There is room again for a producer that waits.
PutMore(p) ==
  /\ putting[p] # <<>> /\ Room > 0
  /\ PutAll(p, putting[p])
  /\ UNCHANGED <<taken, writer, heard, waited, log, dropped>>

-----------------------------------------------------------------------------
(* The tables. *)

Flags(row, field, yes) == IF row # NoRow /\ yes THEN [row EXCEPT ![field] = TRUE] ELSE row

\* _SQL: one operation on the tables.  `messages` keeps the first row of an id, and a
\* flag is set on the rows that are there when it is executed.
Execute(db, o) ==
  CASE o.op = "message" ->
         IF db.messages[o.msg] # NoRow THEN db
         ELSE [db EXCEPT !.messages = [@ EXCEPT ![o.msg] = [source |-> o.source, deleted |-> FALSE, cleared |-> FALSE]]]
    [] o.op = "mod_event" -> [db EXCEPT !.mods = @ \cup {o.event}]
    [] o.op = "flag" ->
         LET e == o.event
         IN [db EXCEPT !.messages = [m \in Message |->
               IF e.kind = "delete" THEN Flags(@[m], "deleted", m = e.msg)
               ELSE Flags(@[m], "cleared", SentAt[m] <= e.at /\ (e.kind = "clear" => UserOf[m] = e.user))]]
    [] OTHER -> db

-----------------------------------------------------------------------------
(* The writer's task. *)

\* The next operation of the batch.
Take ==
  /\ writer = "taking" /\ queue # <<>> /\ Head(queue) # Stop /\ Len(taken) < Batch
  /\ taken' = Append(taken, Head(queue)) /\ queue' = Tail(queue)
  /\ UNCHANGED <<writer, putting, heard, waited, late, log, dropped>>

\* The sentinel: everything that is queued behind it is written too.  The writer is stopped once, so that there
\* is no other sentinel to leave out.
TakeStop ==
  /\ writer = "taking" /\ queue # <<>> /\ Head(queue) = Stop
  /\ writer' = "stopping"
  /\ taken' = taken \o Tail(queue) /\ queue' = <<>>
  /\ UNCHANGED <<putting, heard, waited, late, log, dropped>>

\* Where the task goes after a batch.
AfterBatch == IF writer \in {"stopping", "singly_stopping"} THEN "stopped" ELSE "taking"

\* A row that Postgres cannot take, today or later.
Refusable(o) == o.op = "message" /\ o.msg \in Faulty

\* The tables after each of some operations.
Executed(tables, ops) ==
  LET db[n \in 0 .. Len(ops)] == IF n = 0 THEN tables ELSE Execute(db[n - 1], ops[n])
  IN db

\* The batch is full, the interval is over or the writer stops: one transaction.
Flush ==
  /\ writer \in {"taking", "stopping"} /\ (taken # <<>> \/ writer = "stopping")
  /\ ~\E i \in DOMAIN taken : Refusable(taken[i])
  /\ log' = Executed(log, taken)[Len(taken)]
  /\ taken' = <<>> /\ writer' = AfterBatch
  /\ UNCHANGED <<queue, putting, heard, waited, late, dropped>>

\* The transaction fails and is rolled back: its operations are tried one by one.
FlushFails ==
  /\ writer \in {"taking", "stopping"} /\ \E i \in DOMAIN taken : Refusable(taken[i])
  /\ writer' = IF writer = "taking" THEN "singly" ELSE "singly_stopping"
  /\ UNCHANGED <<queue, taken, putting, heard, waited, late, log, dropped>>

\* Mutant: the first operation that fails again ends the batch.
WriteOneGivingUp ==
  /\ writer \in {"singly", "singly_stopping"}
  /\ IF Refusable(Head(taken)) THEN dropped' = dropped \cup {Head(taken)} /\ taken' = <<>> /\ UNCHANGED log
     ELSE log' = Execute(log, Head(taken)) /\ taken' = Tail(taken) /\ UNCHANGED dropped
  /\ writer' = IF taken' = <<>> THEN AfterBatch ELSE writer
  /\ UNCHANGED <<queue, putting, heard, waited, late>>

\* _write_one_by_one: a row that fails again is dropped, and only that row.
WriteOne ==
  /\ writer \in {"singly", "singly_stopping"}
  /\ IF Refusable(Head(taken)) THEN dropped' = dropped \cup {Head(taken)} /\ UNCHANGED log
     ELSE log' = Execute(log, Head(taken)) /\ UNCHANGED dropped
  /\ taken' = Tail(taken)
  /\ writer' = IF Len(taken) = 1 THEN AfterBatch ELSE writer
  /\ UNCHANGED <<queue, putting, heard, waited, late>>

WriterStep == Take \/ TakeStop \/ Flush \/ FlushFails \/ WriteOne

LogStep == WriterStep \/ \E p \in Producer : PutMore(p)

-----------------------------------------------------------------------------

LogTypeOK ==
  /\ Len(queue) <= QueueMax /\ Len(taken) <= Batch + QueueMax
  /\ writer \in {"taking", "stopping", "singly", "singly_stopping", "stopped"}
  /\ \A p \in Producer : Len(putting[p]) <= 2
  /\ ToSet(heard) \subseteq Live /\ waited \subseteq Live
  /\ \A m \in Message : log.messages[m] = NoRow \/ log.messages[m] \in Row
  /\ log.mods \subseteq Event

\* Operations that are still on their way to the tables.
Underway == UNION {ToSet(queue), ToSet(taken), UNION {ToSet(putting[p]) : p \in Producer}}
=============================================================================
