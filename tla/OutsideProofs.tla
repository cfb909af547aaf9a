---------------------------- MODULE OutsideProofs ---------------------------
(***************************************************************************)
(* What holds of the two things that are kept at other servers.  Of a      *)
(* channel and its subscription at Twitch, for every number of calls: a    *)
(* joined channel is subscribed, and a ban outlasts every join nobody      *)
(* asked for.  Of web requests, for every number of runs, addresses and    *)
(* hosts, and every limit: who waits, waits for a request that is on its   *)
(* way, and no more are sent in a minute than the limits allow.            *)
(***************************************************************************)
EXTENDS Channels, Fetch, SequenceTheorems, FiniteSetTheorems, TLAPS

(***************************************************************************)
(* A channel and its subscription.                                         *)
(***************************************************************************)

Kinds == {"none", "join", "rejoin", "authorize", "part", "ban", "start", "restore", "probe"}
Away == {"idle", "subscribing", "logging", "probing", "using", "unsubscribing"}
Fields == {"row", "status", "active", "caps", "tier"}
Calls == [kind : Kinds, wait : Locking \cup Away, todo : Seq(Fields), to : Rows]

Marking == <<"row", "status", "active">>
Leaving == <<"status", "active">>
Allowing == <<"caps", "tier">>

\* The writes a call has left are the last of those it set out to make.
TodoOK(x) ==
  /\ x.wait = "marking" => x.todo \in {Marking, Leaving, <<"active">>, <<>>}
  /\ x.wait = "parting" => x.todo \in {Leaving, <<"active">>, <<>>}
  /\ x.wait \in {"storing", "granting", "revoking"} => x.todo \in {Allowing, <<"tier">>, <<>>}
  /\ x.wait \notin Locking => x.todo = <<>>

\* What a call waits for suits what it is, and so do the settings it is to write.
CallOK(x) ==
  /\ x \in Calls /\ TodoOK(x)
  /\ x.kind = "none" <=> x.wait = "idle"
  /\ x.kind \in {"part", "ban"} <=> x.wait \in {"parting", "unsubscribing"}
  /\ x.wait = "parting" => x.to.status \in {"parted", "banned"} /\ x.to.active = FALSE
  /\ x.wait = "parting" /\ x.kind = "ban" => x.to.status = "banned"
  /\ x.wait = "marking" => x.to.status = "joined" /\ x.to.active = TRUE

\* It has made none of its writes.
Unbegun(x) ==
  /\ x.wait = "marking" => x.todo = Marking
  /\ x.wait = "parting" => x.todo = Leaving
  /\ x.wait \in {"storing", "granting", "revoking"} => x.todo = Allowing

Ready(x) == CallOK(x) /\ Unbegun(x)

\* The lock: nobody is in the queue twice, those in it wait for it, and only the one
\* that holds it has begun to write.
QueueInv ==
  /\ policyq \in Seq(Call)
  /\ \A i, j \in DOMAIN policyq : policyq[i] = policyq[j] => i = j
  /\ \A i \in DOMAIN policyq : call[policyq[i]].wait \in Locking
  /\ \A c \in Call : Unbegun(call[c]) \/ Holds(c)

\* The row is not deleted, and is there before the snapshot has it.
RowInv ==
  /\ row \in Rows /\ snap \in Rows
  /\ row = NoRow \/ row.status # "none"
  /\ snap # NoRow => row.status # "none"
  /\ \A c \in Call : call[c].wait = "parting" => row.status # "none"

\* A part that has begun to write has marked the row.
PartInv ==
  \A c \in Call : call[c].wait = "parting" /\ ~Unbegun(call[c]) => row.status = call[c].to.status

Marks == \E c \in Call : Holds(c) /\ call[c].wait = "marking"

\* A row the snapshot does not know is joined is being marked, or its change was cut.
\* A joined channel that is not subscribed is being subscribed, or that was refused.
JoinInv ==
  /\ Joined(row) /\ ~Joined(snap) => stale \/ Marks
  /\ Joined(row) /\ ~Joined(snap) => subscribed \/ refused \/ Marks
  /\ Joined(snap) => subscribed \/ refused \/ \E c \in Call : call[c].wait = "subscribing"

\* While a channel is barred, row and snapshot say so and no call is to change it.
BanInv ==
  barred => /\ row.status = "banned" /\ snap.status = "banned"
            /\ \A c \in Call : call[c].wait \notin {"marking", "parting"}

CallsInv == call \in [Call -> Calls] /\ \A c \in Call : CallOK(call[c])

ChannelInv == CallsInv /\ QueueInv /\ RowInv /\ PartInv /\ JoinInv /\ BanInv

-----------------------------------------------------------------------------
(* Where a call goes. *)

LEMMA NewRows == NoRow \in Rows /\ NewRow \in Rows
BY DEF NoRow, NewRow, Rows

LEMMA EmptyTodo == <<>> \in Seq(Fields)
OBVIOUS

LEMMA AtReady ==
  ASSUME NEW kind \in Kinds, NEW wait \in Away,
         kind = "none" <=> wait = "idle",
         kind \in {"part", "ban"} <=> wait = "unsubscribing"
  PROVE Ready(At(kind, wait)) /\ At(kind, wait).wait = wait /\ At(kind, wait).kind = kind
<1>1. wait \notin Locking /\ wait # "parting" /\ wait # "marking"
      /\ wait \notin {"storing", "granting", "revoking"}
  BY DEF Away, Locking
<1>2. At(kind, wait) \in Calls
  BY NewRows, EmptyTodo DEF At, Calls
<1>3. QED
  BY <1>1, <1>2 DEF At, Ready, CallOK, TodoOK, Unbegun

\* The kinds of call that stay.
Staying == Kinds \ {"none", "part", "ban"}

LEMMA TierForTier == \A caps : TierFor(caps) \in {"basic", "moderator", "full"}
BY DEF TierFor

LEMMA StoredReady ==
  ASSUME NEW settings \in Rows, NEW kind \in Staying, NEW wait \in {"storing", "granting", "revoking"},
         NEW caps \in SUBSET {"moderate", "full"}, NEW otherwise, Ready(otherwise)
  PROVE /\ Ready(Stored(settings, kind, wait, caps, otherwise))
        /\ Stored(settings, kind, wait, caps, otherwise).wait \in {wait, otherwise.wait}
<1> DEFINE to == [settings EXCEPT !.caps = caps, !.tier = TierFor(caps)]
           x == Changing(kind, wait, Allowing, to)
<1>1. to \in Rows
  BY TierForTier DEF Rows
<1> HIDE DEF to
<1>2. Allowing \in Seq(Fields)
  BY DEF Allowing, Fields
<1>3. x \in Calls /\ x.wait = wait /\ x.kind = kind /\ x.todo = Allowing
  BY <1>1, <1>2 DEF Changing, Calls, Locking, Staying
<1>4. x.wait \in Locking /\ x.wait \notin {"marking", "parting", "idle", "unsubscribing"}
      /\ x.kind \notin {"none", "part", "ban"}
  BY <1>3 DEF Locking, Staying
<1>5. Ready(x)
  BY <1>3, <1>4 DEF Ready, CallOK, TodoOK, Unbegun
<1>6. Stored(settings, kind, wait, caps, otherwise) \in {x, otherwise}
  BY DEF Stored, to, Allowing
<1>7. QED
  BY <1>3, <1>5, <1>6

LEMMA ProbedReady ==
  ASSUME NEW settings \in Rows, NEW kind \in Staying
  PROVE /\ Ready(Probed(settings, kind))
        /\ Probed(settings, kind).wait \in {"granting", "using", "probing", "idle"}
<1>1. /\ Ready(At(kind, "using")) /\ At(kind, "using").wait = "using"
      /\ Ready(At("restore", "probing")) /\ At("restore", "probing").wait = "probing"
      /\ Ready(At("restore", "using")) /\ At("restore", "using").wait = "using"
      /\ Ready(Idle) /\ Idle.wait = "idle"
  BY AtReady DEF Idle, Kinds, Away, Staying
<1>2. settings.caps \cup {"full"} \in SUBSET {"moderate", "full"}
  BY DEF Rows
<1>3. LET x == Stored(settings, kind, "granting", settings.caps \cup {"full"}, At(kind, "using"))
      IN Ready(x) /\ x.wait \in {"granting", "using"}
  BY <1>1, <1>2, StoredReady
<1>4. QED
  BY <1>1, <1>3 DEF Probed

LEMMA MarkedReady ==
  ASSUME NEW kind \in Staying
  PROVE /\ Ready(Marked(kind)) /\ Marked(kind).wait \in {"subscribing", "logging", "probing"}
        /\ ~subscribed => Marked(kind).wait = "subscribing"
<1>1. \A wait \in {"subscribing", "logging", "probing"} :
        Ready(At(kind, wait)) /\ At(kind, wait).wait = wait
  BY AtReady DEF Kinds, Away, Staying
<1>2. QED
  BY <1>1 DEF Marked

LEMMA MarkingReady ==
  ASSUME NEW kind \in Staying
  PROVE LET x == Changing(kind, "marking", <<"row", "status", "active">>, NewRow)
        IN Ready(x) /\ x.wait = "marking"
<1> DEFINE x == Changing(kind, "marking", Marking, NewRow)
<1>1. Marking \in Seq(Fields)
  BY DEF Marking, Fields
<1>2. x \in Calls /\ x.wait = "marking" /\ x.kind = kind /\ x.todo = Marking /\ x.to = NewRow
  BY <1>1, NewRows DEF Changing, Calls, Locking, Staying
<1>3. x.wait \in Locking /\ x.kind \notin {"none", "part", "ban"}
  BY <1>2 DEF Locking, Staying
<1>4. NewRow.status = "joined" /\ NewRow.active = TRUE
  BY DEF NewRow
<1>5. Ready(x)
  BY <1>2, <1>3, <1>4 DEF Ready, CallOK, TodoOK, Unbegun
<1>6. QED
  BY <1>2, <1>5 DEF Marking

LEMMA PartingReady ==
  ASSUME snap \in Rows, NEW kind \in {"part", "ban"}, NEW status \in {"parted", "banned"},
         kind = "ban" => status = "banned"
  PROVE Ready(Parting(kind, status)) /\ Parting(kind, status).wait = "parting"
<1> DEFINE to == [snap EXCEPT !.status = status, !.active = FALSE]
           x == Changing(kind, "parting", Leaving, to)
<1>1. to \in Rows /\ to.status = status /\ to.active = FALSE
  BY DEF Rows
<1> HIDE DEF to
<1>2. Leaving \in Seq(Fields)
  BY DEF Leaving, Fields
<1>3. x \in Calls /\ x.wait = "parting" /\ x.kind = kind /\ x.todo = Leaving /\ x.to = to
  BY <1>1, <1>2 DEF Changing, Calls, Locking, Kinds
<1>4. x.wait \in Locking
  BY <1>3 DEF Locking
<1>5. Ready(x)
  BY <1>1, <1>3, <1>4 DEF Ready, CallOK, TodoOK, Unbegun
<1>6. QED
  BY <1>3, <1>5 DEF Parting, Leaving, to

-----------------------------------------------------------------------------
(* The queue of the lock. *)

\* A call goes on from an await that is not the lock.
LEMMA GoOnKeeps ==
  ASSUME CallsInv, QueueInv, NEW c \in Call, call[c].wait \notin Locking,
         NEW next, Ready(next), GoOn(c, next, policyq)
  PROVE /\ CallsInv' /\ QueueInv' /\ Unbegun(call'[c])
        /\ call' = [call EXCEPT ![c] = next]
        /\ \A d \in Call : Holds(d) => d # c /\ Holds(d)'
<1>1. /\ call' = [call EXCEPT ![c] = next]
      /\ policyq' = IF next.wait \in Locking THEN Append(policyq, c) ELSE policyq
      /\ policyq \in Seq(Call) /\ next \in Calls /\ CallOK(next) /\ Unbegun(next)
  BY DEF GoOn, QueueInv, Ready, CallOK
<1>2. \A i \in DOMAIN policyq : policyq[i] \in Call /\ policyq[i] # c
  BY <1>1 DEF QueueInv
<1>3. CallsInv' /\ call'[c] = next /\ \A d \in Call \ {c} : call'[d] = call[d]
  BY <1>1 DEF CallsInv
<1>4. \A d \in Call : Holds(d) => d # c /\ Holds(d)'
  <2>1. ASSUME NEW d \in Call, Holds(d)
        PROVE d # c /\ Holds(d)'
    <3>1. policyq # <<>> /\ Head(policyq) = d /\ 1 \in DOMAIN policyq /\ policyq[1] = d
      BY <1>1, <2>1 DEF Holds
    <3>2. policyq' # <<>> /\ Head(policyq') = d
      BY <1>1, <3>1
    <3>3. QED
      BY <1>2, <3>1, <3>2 DEF Holds
  <2>2. QED
    BY <2>1
<1>5. QueueInv'
  <2>1. \A d \in Call : Unbegun(call'[d]) \/ Holds(d)'
    BY <1>1, <1>3, <1>4 DEF QueueInv
  <2>2. CASE next.wait \notin Locking
    <3>1. policyq' = policyq
      BY <1>1, <2>2
    <3>2. \A i \in DOMAIN policyq : call'[policyq[i]].wait \in Locking
      BY <1>2, <1>3 DEF QueueInv
    <3>3. QED
      BY <2>1, <3>1, <3>2 DEF QueueInv
  <2>3. CASE next.wait \in Locking
    <3>1. policyq' = Append(policyq, c)
      BY <1>1, <2>3
    <3>2. /\ policyq' \in Seq(Call) /\ DOMAIN policyq' = 1 .. Len(policyq) + 1
          /\ DOMAIN policyq = 1 .. Len(policyq) /\ Len(policyq) \in Nat
          /\ policyq'[Len(policyq) + 1] = c
          /\ \A i \in DOMAIN policyq : policyq'[i] = policyq[i]
      BY <1>1, <3>1
    <3>3. \A i \in DOMAIN policyq' : i \in DOMAIN policyq \/ i = Len(policyq) + 1
      BY <3>2
    <3>4. \A i \in DOMAIN policyq' : call'[policyq'[i]].wait \in Locking
      BY <1>2, <1>3, <2>3, <3>2, <3>3 DEF QueueInv
    <3>5. \A i, j \in DOMAIN policyq' : policyq'[i] = policyq'[j] => i = j
      BY <1>2, <3>2, <3>3 DEF QueueInv
    <3>6. QED
      BY <2>1, <3>2, <3>4, <3>5 DEF QueueInv
  <2>4. QED
    BY <2>2, <2>3
<1>6. QED
  BY <1>1, <1>3, <1>4, <1>5

\* The one that holds the lock lets go of it, and may wait for it again.
LEMMA LetGoKeeps ==
  ASSUME CallsInv, QueueInv, NEW c \in Call, Holds(c),
         NEW next, Ready(next), GoOn(c, next, Tail(policyq))
  PROVE /\ CallsInv' /\ QueueInv'
        /\ call' = [call EXCEPT ![c] = next]
        /\ \A d \in Call : Unbegun(call'[d])
<1> DEFINE q == Tail(policyq)
<1>1. /\ call' = [call EXCEPT ![c] = next]
      /\ policyq' = IF next.wait \in Locking THEN Append(q, c) ELSE q
      /\ policyq \in Seq(Call) /\ next \in Calls /\ CallOK(next) /\ Unbegun(next)
      /\ policyq # <<>> /\ policyq[1] = c
  BY DEF GoOn, QueueInv, Ready, CallOK, Holds
<1>2. /\ q \in Seq(Call) /\ DOMAIN q = 1 .. Len(q) /\ Len(q) \in Nat
      /\ Len(policyq) = Len(q) + 1 /\ DOMAIN policyq = 1 .. Len(policyq)
      /\ \A i \in DOMAIN q : q[i] = policyq[i + 1]
  BY <1>1
<1> HIDE DEF q
<1>3. \A i \in DOMAIN q : i + 1 \in DOMAIN policyq /\ i + 1 # 1
  BY <1>2
<1>4. \A i, j \in DOMAIN q : q[i] = q[j] => i = j
  <2>1. ASSUME NEW i \in DOMAIN q, NEW j \in DOMAIN q, q[i] = q[j]
        PROVE i = j
    <3>1. i + 1 = j + 1
      BY <1>2, <1>3, <2>1 DEF QueueInv
    <3>2. QED
      BY <1>2, <3>1
  <2>2. QED
    BY <2>1
<1>5. \A i \in DOMAIN q : q[i] \in Call /\ q[i] # c /\ call[q[i]].wait \in Locking
  <2>1. ASSUME NEW i \in DOMAIN q
        PROVE q[i] \in Call /\ q[i] # c /\ call[q[i]].wait \in Locking
    <3>1. q[i] = policyq[i + 1] /\ i + 1 \in DOMAIN policyq /\ 1 \in DOMAIN policyq
      BY <1>2, <1>3
    <3>2. policyq[i + 1] # policyq[1]
      BY <1>3, <3>1 DEF QueueInv
    <3>3. QED
      BY <1>1, <1>2, <3>1, <3>2 DEF QueueInv
  <2>2. QED
    BY <2>1
<1>6. CallsInv' /\ call'[c] = next /\ \A d \in Call \ {c} : call'[d] = call[d]
  BY <1>1 DEF CallsInv
<1>7. \A d \in Call : Unbegun(call'[d])
  <2>1. \A d \in Call \ {c} : ~Holds(d)
    BY DEF Holds
  <2>2. QED
    BY <1>1, <1>6, <2>1 DEF QueueInv
<1>8. QueueInv'
  <2>1. CASE next.wait \notin Locking
    <3>1. policyq' = q
      BY <1>1, <2>1
    <3>2. \A i \in DOMAIN q : call'[q[i]].wait \in Locking
      BY <1>5, <1>6
    <3>3. QED
      BY <1>2, <1>4, <1>7, <3>1, <3>2 DEF QueueInv
  <2>2. CASE next.wait \in Locking
    <3>1. policyq' = Append(q, c)
      BY <1>1, <2>2
    <3>2. /\ policyq' \in Seq(Call) /\ DOMAIN policyq' = 1 .. Len(q) + 1
          /\ policyq'[Len(q) + 1] = c /\ \A i \in DOMAIN q : policyq'[i] = q[i]
      BY <1>2, <3>1
    <3>3. \A i \in DOMAIN policyq' : i \in DOMAIN q \/ i = Len(q) + 1
      BY <1>2, <3>2
    <3>4. \A i \in DOMAIN policyq' : call'[policyq'[i]].wait \in Locking
      BY <1>5, <1>6, <2>2, <3>2, <3>3
    <3>5. \A i, j \in DOMAIN policyq' : policyq'[i] = policyq'[j] => i = j
      BY <1>4, <1>5, <3>2, <3>3
    <3>6. QED
      BY <1>7, <3>2, <3>4, <3>5 DEF QueueInv
  <2>3. QED
    BY <2>1, <2>2
<1>9. QED
  BY <1>1, <1>6, <1>7, <1>8

\* What is left of the queue without one of its calls.
LEMMA WithoutKeeps ==
  ASSUME QueueInv, NEW c \in Call
  PROVE LET q == Without(policyq, c)
        IN /\ q \in Seq(Call)
           /\ \A i, j \in DOMAIN q : q[i] = q[j] => i = j
           /\ \A i \in DOMAIN q : q[i] # c /\ \E j \in DOMAIN policyq : q[i] = policyq[j]
           /\ \A d \in Call \ {c} : Holds(d) => q # <<>> /\ Head(q) = d
<1> DEFINE q == Without(policyq, c)
<1>1. policyq \in Seq(Call) /\ DOMAIN policyq = 1 .. Len(policyq) /\ Len(policyq) \in Nat
  BY DEF QueueInv
<1>2. CASE ~\E i \in DOMAIN policyq : policyq[i] = c
  <2>1. q = policyq
    BY <1>2 DEF Without
  <2>2. \A d \in Call : Holds(d) => policyq # <<>> /\ Head(policyq) = d
    BY DEF Holds
  <2>3. QED
    BY <1>1, <1>2, <2>1, <2>2 DEF QueueInv
<1>3. CASE \E i \in DOMAIN policyq : policyq[i] = c
  <2> DEFINE k == CHOOSE i \in DOMAIN policyq : policyq[i] = c
  <2>1. k \in DOMAIN policyq /\ policyq[k] = c
    BY <1>3
  <2>2. q = SubSeq(policyq, 1, k - 1) \o SubSeq(policyq, k + 1, Len(policyq))
    BY <1>3 DEF Without, RemoveAt
  <2> HIDE DEF k, q
  <2>3. k \in 1 .. Len(policyq) /\ k \in Int
    BY <1>1, <2>1
  <2> DEFINE a == SubSeq(policyq, 1, k - 1)
             b == SubSeq(policyq, k + 1, Len(policyq))
  <2>4. /\ a \in Seq(Call) /\ Len(a) = k - 1
        /\ \A i \in 1 .. k - 1 : a[i] = policyq[i]
    BY <1>1, <2>3
  <2>5. /\ b \in Seq(Call) /\ Len(b) = Len(policyq) - k
        /\ \A i \in 1 .. Len(policyq) - k : b[i] = policyq[k + i]
    <3>1. \A i \in k + 1 .. Len(policyq) : policyq[i] \in Call
      BY <1>1, <2>3
    <3>2. /\ b \in Seq(Call)
          /\ Len(b) = IF k + 1 <= Len(policyq) THEN Len(policyq) - (k + 1) + 1 ELSE 0
          /\ \A i \in 1 .. Len(policyq) - (k + 1) + 1 : b[i] = policyq[k + 1 + i - 1]
      <4> DEFINE m == k + 1
      <4>1. m \in Int /\ Len(policyq) \in Int /\ \A i \in m .. Len(policyq) : policyq[i] \in Call
        BY <1>1, <2>3, <3>1
      <4> HIDE DEF m
      <4>2. LET t == SubSeq(policyq, m, Len(policyq))
            IN /\ t \in Seq(Call)
               /\ Len(t) = IF m <= Len(policyq) THEN Len(policyq) - m + 1 ELSE 0
               /\ \A i \in 1 .. Len(policyq) - m + 1 : t[i] = policyq[m + i - 1]
        BY <4>1, SubSeqProperties
      <4>3. QED
        BY <4>2, Zenon DEF m
    <3> DEFINE n == Len(policyq)
    <3>3. k \in Int /\ n \in Nat /\ k <= n
      BY <1>1, <2>3
    <3> HIDE DEF n, b
    <3>4. n - (k + 1) + 1 = n - k /\ (k + 1 <= n \/ n - k = 0)
      BY <3>3
    <3>5. ASSUME NEW i \in 1 .. n - k
          PROVE b[i] = policyq[k + i]
      <4>1. i \in 1 .. n - (k + 1) + 1 /\ k + 1 + i - 1 = k + i
        BY <3>3
      <4>2. QED
        BY <3>2, <4>1 DEF n
    <3>6. QED
      BY <3>2, <3>4, <3>5 DEF n
  <2> HIDE DEF a, b
  <2>6. /\ q \in Seq(Call) /\ Len(q) = Len(policyq) - 1 /\ DOMAIN q = 1 .. Len(policyq) - 1
        /\ \A i \in DOMAIN q : q[i] = IF i <= k - 1 THEN a[i] ELSE b[i - (k - 1)]
    <3>1. q = a \o b
      BY <2>2 DEF a, b
    <3>2. /\ q \in Seq(Call) /\ Len(q) = Len(a) + Len(b)
          /\ \A i \in 1 .. Len(a) + Len(b) : q[i] = IF i <= Len(a) THEN a[i] ELSE b[i - Len(a)]
      BY <2>4, <2>5, <3>1, ConcatProperties
    <3>3. Len(a) + Len(b) = Len(policyq) - 1
      BY <1>1, <2>3, <2>4, <2>5
    <3>4. DOMAIN q = 1 .. Len(q)
      BY <3>2
    <3>5. QED
      BY <2>4, <3>2, <3>3, <3>4
  <2>7. \A i \in DOMAIN q : q[i] = IF i < k THEN policyq[i] ELSE policyq[i + 1]
    <3>1. ASSUME NEW i \in DOMAIN q, i < k
          PROVE q[i] = policyq[i]
      BY <1>1, <2>3, <2>4, <2>6, <3>1
    <3>2. ASSUME NEW i \in DOMAIN q, ~(i < k)
          PROVE q[i] = policyq[i + 1]
      <4>1. i - (k - 1) \in 1 .. Len(policyq) - k /\ k + (i - (k - 1)) = i + 1 /\ ~(i <= k - 1)
        BY <1>1, <2>3, <2>6, <3>2
      <4>2. QED
        BY <2>5, <2>6, <4>1
    <3>3. QED
      BY <3>1, <3>2
  <2> DEFINE at(i) == IF i < k THEN i ELSE i + 1
  <2>8. \A i \in DOMAIN q : at(i) \in DOMAIN policyq /\ at(i) # k /\ q[i] = policyq[at(i)]
    BY <1>1, <2>3, <2>6, <2>7
  <2>9. \A i, j \in DOMAIN q : at(i) = at(j) => i = j
    BY <1>1, <2>3, <2>6
  <2> HIDE DEF at
  <2>10. \A i, j \in DOMAIN q : q[i] = q[j] => i = j
    <3>1. ASSUME NEW i \in DOMAIN q, NEW j \in DOMAIN q, q[i] = q[j]
          PROVE i = j
      <4>1. at(i) \in DOMAIN policyq /\ at(j) \in DOMAIN policyq
            /\ policyq[at(i)] = policyq[at(j)]
        BY <2>8, <3>1
      <4>2. at(i) = at(j)
        BY <4>1 DEF QueueInv
      <4>3. QED
        BY <2>9, <4>2
    <3>2. QED
      BY <3>1
  <2>11. \A i \in DOMAIN q : q[i] # c /\ \E j \in DOMAIN policyq : q[i] = policyq[j]
    BY <2>1, <2>8 DEF QueueInv
  <2>12. ASSUME NEW d \in Call \ {c}, Holds(d)
         PROVE q # <<>> /\ Head(q) = d
    <3>1. policyq # <<>> /\ policyq[1] = d
      BY <1>1, <2>12 DEF Holds
    <3>2. k # 1
      BY <2>1, <3>1
    <3>3. 1 < k /\ 1 \in DOMAIN q
      BY <1>1, <2>3, <2>6, <3>2
    <3>4. q[1] = d
      BY <2>7, <3>1, <3>3
    <3>5. QED
      BY <2>6, <3>3, <3>4
  <2>13. QED
    BY <2>6, <2>10, <2>11, <2>12 DEF q
<1>4. QED
  BY <1>2, <1>3

-----------------------------------------------------------------------------
(* Steps between two awaits, neither of which is a change under the lock. *)

LEMMA GoOnInv ==
  ASSUME ChannelInv, NEW c \in Call, call[c].wait \notin Locking,
         NEW next, Ready(next), GoOn(c, next, policyq),
         UNCHANGED policyVars, barred' => barred,
         next.wait = "parting" => row.status # "none",
         barred' => next.wait \notin {"marking", "parting"},
         stale /\ (subscribed \/ refused) => subscribed' \/ refused',
         Joined(snap) => \/ subscribed' \/ refused' \/ next.wait = "subscribing"
                         \/ ~subscribed /\ ~refused /\ call[c].wait # "subscribing"
  PROVE ChannelInv'
<1>1. /\ CallsInv' /\ QueueInv' /\ Unbegun(call'[c])
      /\ call' = [call EXCEPT ![c] = next]
      /\ \A d \in Call : Holds(d) => d # c /\ Holds(d)'
  BY GoOnKeeps DEF ChannelInv
<1>2. row' = row /\ snap' = snap /\ stale' = stale
  BY DEF policyVars
<1>3. call'[c] = next /\ \A d \in Call \ {c} : call'[d] = call[d]
  BY <1>1 DEF ChannelInv, CallsInv
<1>4. RowInv'
  BY <1>2, <1>3 DEF ChannelInv, RowInv
<1>5. PartInv'
  BY <1>1, <1>2, <1>3 DEF ChannelInv, PartInv
<1>6. BanInv'
  BY <1>2, <1>3 DEF ChannelInv, BanInv
<1>7. Marks => Marks'
  BY <1>1, <1>3 DEF Marks
<1>8. JoinInv'
  <2>1. Joined(row) /\ ~Joined(snap) => stale \/ Marks'
    BY <1>7 DEF ChannelInv, JoinInv
  <2>2. Joined(row) /\ ~Joined(snap) => subscribed' \/ refused' \/ Marks'
    BY <1>7 DEF ChannelInv, JoinInv
  <2>3. Joined(snap) => subscribed' \/ refused' \/ \E d \in Call : call'[d].wait = "subscribing"
    <3>1. CASE ~subscribed /\ ~refused /\ call[c].wait # "subscribing"
      BY <1>3, <3>1 DEF ChannelInv, JoinInv
    <3>2. CASE next.wait = "subscribing"
      BY <1>3, <3>2
    <3>3. QED
      BY <3>1, <3>2
  <2>4. QED
    BY <1>2, <2>1, <2>2, <2>3 DEF JoinInv, Joined
<1>9. QED
  BY <1>1, <1>4, <1>5, <1>6, <1>8 DEF ChannelInv

\* A call that does nothing waits for nothing.
LEMMA IdleWaits ==
  ASSUME ChannelInv, NEW c \in Call, call[c] = Idle
  PROVE call[c].wait = "idle" /\ call[c].wait \notin Locking
BY DEF Idle, At, Locking

LEMMA JoinKeeps ==
  ASSUME ChannelInv, NEW c \in Call, NEW kind \in {"join", "rejoin", "authorize"}, Join(c, kind)
  PROVE ChannelInv'
<1> DEFINE next == IF Joined(snap) THEN Marked(kind)
                   ELSE Changing(kind, "marking", <<"row", "status", "active">>, NewRow)
<1>1. kind \in Staying
  BY DEF Staying, Kinds
<1>2. Ready(next) /\ next.wait \in {"marking", "subscribing", "logging", "probing"}
      /\ (Joined(snap) => next.wait # "marking")
      /\ (Joined(snap) /\ ~subscribed => next.wait = "subscribing")
  BY <1>1, MarkedReady, MarkingReady
<1>3. call[c].wait = "idle" /\ call[c].wait \notin Locking
  BY IdleWaits DEF Join, Begins
<1>4. GoOn(c, next, policyq) /\ UNCHANGED policyVars
      /\ subscribed' = subscribed /\ refused' = refused /\ (barred' => barred)
  BY DEF Join
<1>5. ~barred'
  <2>1. barred' => kind = "join" /\ barred
    BY DEF Join
  <2>2. barred => snap.status = "banned"
    BY DEF ChannelInv, BanInv
  <2>3. QED
    BY <2>1, <2>2 DEF Join
<1> HIDE DEF next
<1>6. QED
  BY <1>2, <1>3, <1>4, <1>5, GoOnInv

LEMMA LeaveKeeps ==
  ASSUME ChannelInv, NEW c \in Call, Part(c) \/ LeaveBanned(c)
  PROVE ChannelInv'
<1>1. call[c].wait = "idle" /\ call[c].wait \notin Locking
  BY IdleWaits DEF Part, LeaveBanned, Begins
<1>2. snap \in Rows /\ (snap # NoRow => row.status # "none")
  BY DEF ChannelInv, RowInv
<1>3. CASE Part(c)
  <2>1. Ready(Parting("part", "parted")) /\ Parting("part", "parted").wait = "parting"
    BY <1>2, PartingReady
  <2>2. /\ GoOn(c, Parting("part", "parted"), policyq) /\ UNCHANGED policyVars /\ barred' = FALSE
        /\ subscribed' = subscribed /\ refused' = refused /\ snap # NoRow
    BY <1>3 DEF Part
  <2>3. QED
    BY <1>1, <1>2, <2>1, <2>2, GoOnInv
<1>4. CASE LeaveBanned(c)
  <2>1. Ready(Parting("ban", "banned")) /\ Parting("ban", "banned").wait = "parting"
    BY <1>2, PartingReady
  <2>2. /\ GoOn(c, Parting("ban", "banned"), policyq) /\ UNCHANGED policyVars /\ barred' = barred
        /\ subscribed' = subscribed /\ refused' = refused /\ Joined(snap)
    BY <1>4 DEF LeaveBanned
  <2>3. snap # NoRow /\ snap.status # "banned"
    BY <2>2 DEF Joined, NoRow
  <2>4. ~barred
    BY <2>3 DEF ChannelInv, BanInv
  <2>5. QED
    BY <1>1, <1>2, <2>1, <2>2, <2>3, <2>4, GoOnInv
<1>5. QED
  BY <1>3, <1>4

LEMMA StartKeeps ==
  ASSUME ChannelInv, NEW c \in Call, StartTwitch(c)
  PROVE ChannelInv'
<1> DEFINE next == IF Joined(snap) THEN At("start", "subscribing") ELSE Probed(snap, "start")
<1>1. snap \in Rows /\ "start" \in Staying /\ "start" \in Kinds /\ "subscribing" \in Away
  BY DEF ChannelInv, RowInv, Staying, Kinds, Away
<1>2. Ready(At("start", "subscribing")) /\ At("start", "subscribing").wait = "subscribing"
  BY <1>1, AtReady
<1>3. Ready(Probed(snap, "start"))
      /\ Probed(snap, "start").wait \in {"granting", "using", "probing", "idle"}
  BY <1>1, ProbedReady
<1>4. Ready(next) /\ next.wait \notin {"marking", "parting"}
      /\ (Joined(snap) => next.wait = "subscribing")
  BY <1>2, <1>3
<1>5. call[c].wait = "idle" /\ call[c].wait \notin Locking
  BY IdleWaits DEF StartTwitch, Begins
<1>6. GoOn(c, next, policyq) /\ UNCHANGED policyVars /\ barred' = barred /\ (stale => refused')
  BY DEF StartTwitch
<1> HIDE DEF next
<1>7. QED
  BY <1>4, <1>5, <1>6, GoOnInv

LEMMA ProbeKeeps ==
  ASSUME ChannelInv, NEW c \in Call, Probe(c)
  PROVE ChannelInv'
<1>1. Ready(At("probe", "probing")) /\ At("probe", "probing").wait = "probing"
  BY AtReady DEF Kinds, Away
<1>2. call[c].wait = "idle" /\ call[c].wait \notin Locking
  BY IdleWaits DEF Probe
<1>3. GoOn(c, At("probe", "probing"), policyq) /\ UNCHANGED policyVars /\ barred' = barred
      /\ subscribed' = subscribed /\ refused' = refused
  BY DEF Probe
<1>4. QED
  BY <1>1, <1>2, <1>3, GoOnInv

\* A call that waits for something other than a part is of a kind that stays.
LEMMA WaitKinds ==
  ASSUME ChannelInv, NEW c \in Call
  PROVE /\ call[c].wait \notin {"idle", "parting", "unsubscribing"} => call[c].kind \in Staying
        /\ call[c].wait \in {"parting", "unsubscribing"} => call[c].kind \in {"part", "ban"}
<1>1. CallOK(call[c])
  BY DEF ChannelInv, CallsInv
<1>2. QED
  BY <1>1 DEF CallOK, Calls, Staying

LEMMA SubscribeKeeps ==
  ASSUME ChannelInv, NEW c \in Call, Subscribe(c)
  PROVE ChannelInv'
<1>1. call[c].wait = "subscribing" /\ call[c].wait \notin Locking
  BY DEF Subscribe, Locking
<1>2. call[c].kind \in Staying /\ snap \in Rows
  BY <1>1, WaitKinds DEF ChannelInv, RowInv
<1>3. UNCHANGED policyVars /\ barred' = barred
  BY DEF Subscribe
<1>4. CASE subscribed' = TRUE
           /\ GoOn(c, At(call[c].kind, IF session THEN "probing" ELSE "logging"), policyq)
  <2> DEFINE next == At(call[c].kind, IF session THEN "probing" ELSE "logging")
  <2>1. \A wait \in {"probing", "logging"} :
          Ready(At(call[c].kind, wait)) /\ At(call[c].kind, wait).wait = wait
    BY <1>2, AtReady DEF Staying, Kinds, Away
  <2>2. Ready(next) /\ next.wait \in {"probing", "logging"} /\ GoOn(c, next, policyq)
    BY <1>4, <2>1
  <2> HIDE DEF next
  <2>3. QED
    BY <1>1, <1>3, <1>4, <2>2, GoOnInv
<1>5. CASE refused' = TRUE /\ GoOn(c, Probed(snap, call[c].kind), policyq)
  <2> DEFINE next == Probed(snap, call[c].kind)
  <2>1. Ready(next) /\ next.wait \in {"granting", "using", "probing", "idle"}
    BY <1>2, ProbedReady
  <2>2. GoOn(c, next, policyq)
    BY <1>5
  <2> HIDE DEF next
  <2>3. QED
    BY <1>1, <1>3, <1>5, <2>1, <2>2, GoOnInv
<1>6. QED
  BY <1>4, <1>5 DEF Subscribe

LEMMA AwaitKeeps ==
  ASSUME ChannelInv, NEW c \in Call, Log(c) \/ Measure(c) \/ Use(c) \/ Unsubscribe(c)
  PROVE ChannelInv'
<1>1. call[c].wait \in {"logging", "probing", "using", "unsubscribing"}
      /\ call[c].wait \notin Locking /\ call[c].wait # "subscribing"
  BY DEF Log, Measure, Use, Unsubscribe, Locking
<1>2. call[c].wait # "unsubscribing" => call[c].kind \in Staying
  BY <1>1, WaitKinds
<1>3. snap \in Rows
  BY DEF ChannelInv, RowInv
<1>4. UNCHANGED policyVars /\ barred' = barred /\ subscribed' = subscribed /\ refused' = refused
  BY DEF Log, Measure, Use, Unsubscribe
<1>5. \E next : /\ Ready(next) /\ next.wait \notin {"marking", "parting"}
                /\ GoOn(c, next, policyq)
  <2>1. Ready(Idle) /\ Idle.wait = "idle"
    BY AtReady DEF Idle, Kinds, Away
  <2>2. CASE Log(c)
    <3>1. Ready(At(call[c].kind, "probing")) /\ At(call[c].kind, "probing").wait = "probing"
      BY <1>2, <2>2, AtReady DEF Log, Staying, Kinds, Away
    <3>2. QED
      BY <2>2, <3>1 DEF Log
  <2>3. CASE Measure(c)
    <3>1. PICK ok \in BOOLEAN :
            GoOn(c, Stored(snap, call[c].kind, "storing", Measured(ok), Probed(snap, call[c].kind)), policyq)
      BY <2>3 DEF Measure
    <3>2. Measured(ok) \in SUBSET {"moderate", "full"}
      BY DEF Measured
    <3>3. Ready(Probed(snap, call[c].kind))
          /\ Probed(snap, call[c].kind).wait \in {"granting", "using", "probing", "idle"}
      BY <1>2, <1>3, <2>3, ProbedReady DEF Measure
    <3>4. LET x == Stored(snap, call[c].kind, "storing", Measured(ok), Probed(snap, call[c].kind))
          IN Ready(x) /\ x.wait \in {"storing", Probed(snap, call[c].kind).wait}
      BY <1>2, <1>3, <2>3, <3>2, <3>3, StoredReady DEF Measure
    <3>5. QED
      BY <3>1, <3>3, <3>4
  <2>4. CASE Use(c)
    <3>1. LET x == Stored(snap, call[c].kind, "revoking", snap.caps \ {"full"}, Idle)
          IN Ready(x) /\ x.wait \in {"revoking", "idle"}
      <4>1. snap.caps \ {"full"} \in SUBSET {"moderate", "full"}
        BY <1>3 DEF Rows
      <4>2. QED
        BY <1>2, <1>3, <2>1, <2>4, <4>1, StoredReady DEF Use
    <3>2. QED
      BY <2>1, <2>4, <3>1 DEF Use
  <2>5. CASE Unsubscribe(c)
    BY <2>1, <2>5 DEF Unsubscribe
  <2>6. QED
    BY <2>2, <2>3, <2>4, <2>5
<1>6. QED
  BY <1>1, <1>4, <1>5, GoOnInv

-----------------------------------------------------------------------------
(* Changes under the lock. *)

\* What one write does to the row.
LEMMA WrittenRow ==
  ASSUME RowInv, NEW to \in Rows, NEW field \in Fields, field = "status" => to.status # "none"
  PROVE LET new == Written(field, to)
        IN /\ new \in Rows /\ (new = NoRow \/ new.status # "none")
           /\ row.status # "none" => new.status # "none"
           /\ field = "status" /\ row.status # "none" => new.status = to.status
           /\ field = "active" => new.status = row.status
           /\ field \in {"caps", "tier"} => new.status = row.status /\ new.active = row.active
<1>1. row \in Rows /\ (row = NoRow \/ row.status # "none")
  BY DEF RowInv
<1>2. NoRow.status = "none" /\ NewRow.status = "joined" /\ NewRow \in Rows
  BY NewRows DEF NoRow, NewRow
<1>3. CASE field = "row"
  BY <1>1, <1>2, <1>3 DEF Written
<1>4. CASE field # "row" /\ row = NoRow
  BY <1>1, <1>2, <1>4 DEF Written
<1>5. CASE field # "row" /\ row # NoRow
  <2>1. Written(field, to) = [row EXCEPT ![field] = to[field]]
    BY <1>5 DEF Written
  <2>2. CASE field = "status"
    BY <1>1, <1>5, <2>1, <2>2 DEF Rows
  <2>3. CASE field = "active"
    BY <1>1, <1>5, <2>1, <2>3 DEF Rows
  <2>4. CASE field = "caps"
    BY <1>1, <1>5, <2>1, <2>4 DEF Rows
  <2>5. CASE field = "tier"
    BY <1>1, <1>5, <2>1, <2>5 DEF Rows
  <2>6. QED
    BY <1>5, <2>2, <2>3, <2>4, <2>5 DEF Fields
<1>6. QED
  BY <1>3, <1>4, <1>5

\* What a call that has writes left writes next.
LEMMA NextWrite ==
  ASSUME NEW x \in Calls, TodoOK(x), x.todo # <<>>
  PROVE LET field == Head(x.todo)  rest == Tail(x.todo)
        IN /\ field \in Fields /\ rest \in Seq(Fields) /\ TodoOK([x EXCEPT !.todo = rest])
           /\ x.wait \in Locking
           /\ x.wait = "parting" => \/ x.todo = Leaving /\ field = "status"
                                    \/ x.todo # Leaving /\ field = "active"
           /\ x.wait \in {"storing", "granting", "revoking"} => field \in {"caps", "tier"}
<1>1. x.todo \in Seq(Fields) /\ x.wait \in Locking \cup Away /\ x.wait \in Locking
  BY DEF Calls, TodoOK
<1> DEFINE field == Head(x.todo)
           rest == Tail(x.todo)
<1>2. field \in Fields /\ rest \in Seq(Fields)
  BY <1>1
<1>3. [x EXCEPT !.todo = rest].wait = x.wait /\ [x EXCEPT !.todo = rest].todo = rest
  BY DEF Calls
<1>4. CASE x.wait = "marking"
  <2>1. x.todo = Marking => rest = Leaving
    BY DEF Marking, Leaving
  <2>2. x.todo = Leaving => rest = <<"active">>
    BY DEF Leaving
  <2>3. x.todo = <<"active">> => rest = <<>>
    OBVIOUS
  <2>4. QED
    BY <1>1, <1>2, <1>3, <1>4, <2>1, <2>2, <2>3 DEF TodoOK
<1>5. CASE x.wait = "parting"
  <2>1. x.todo = Leaving => rest = <<"active">> /\ field = "status"
    BY DEF Leaving
  <2>2. x.todo = <<"active">> => rest = <<>> /\ field = "active" /\ x.todo # Leaving
    BY DEF Leaving
  <2>3. QED
    BY <1>1, <1>2, <1>3, <1>5, <2>1, <2>2 DEF TodoOK
<1>6. CASE x.wait \in {"storing", "granting", "revoking"}
  <2>1. x.todo = Allowing => rest = <<"tier">> /\ field = "caps"
    BY DEF Allowing
  <2>2. x.todo = <<"tier">> => rest = <<>> /\ field = "tier"
    OBVIOUS
  <2>3. QED
    BY <1>1, <1>2, <1>3, <1>6, <2>1, <2>2 DEF TodoOK
<1>7. QED
  BY <1>1, <1>4, <1>5, <1>6 DEF Locking

LEMMA WriteKeeps ==
  ASSUME ChannelInv, NEW c \in Call, Write(c)
  PROVE ChannelInv'
<1> DEFINE x == call[c]
           field == Head(x.todo)
           rest == Tail(x.todo)
<1>1. /\ Holds(c) /\ x.todo # <<>> /\ row' = Written(field, x.to)
      /\ call' = [call EXCEPT ![c] = [x EXCEPT !.todo = rest]]
      /\ snap' = snap /\ stale' = stale /\ policyq' = policyq
      /\ subscribed' = subscribed /\ refused' = refused /\ barred' = barred
  BY DEF Write
<1>2. x \in Calls /\ CallOK(x) /\ TodoOK(x) /\ call \in [Call -> Calls]
  BY DEF ChannelInv, CallsInv, CallOK
<1>3. /\ field \in Fields /\ rest \in Seq(Fields) /\ TodoOK([x EXCEPT !.todo = rest])
      /\ x.wait \in Locking
      /\ x.wait = "parting" => \/ x.todo = Leaving /\ field = "status"
                               \/ x.todo # Leaving /\ field = "active"
      /\ x.wait \in {"storing", "granting", "revoking"} => field \in {"caps", "tier"}
  BY <1>1, <1>2, NextWrite
<1>4. /\ x.to \in Rows
      /\ x.wait = "parting" => x.to.status \in {"parted", "banned"}
      /\ x.wait = "marking" => x.to.status = "joined"
      /\ field = "status" => x.wait \in {"marking", "parting"}
  BY <1>2, <1>3 DEF CallOK, Calls, Locking
<1> DEFINE y == [x EXCEPT !.todo = rest]
<1>5. y \in Calls /\ y.kind = x.kind /\ y.wait = x.wait /\ y.to = x.to /\ y.todo = rest
  BY <1>2, <1>3 DEF Calls
<1>6. CallOK(y)
  BY <1>2, <1>3, <1>5 DEF CallOK
<1> HIDE DEF y
<1>7. call'[c] = y /\ \A d \in Call \ {c} : call'[d] = call[d]
  BY <1>1, <1>2 DEF y
<1>8. \A d \in Call : Holds(d)' <=> Holds(d)
  BY <1>1 DEF Holds
<1>9. CallsInv'
  BY <1>1, <1>2, <1>5, <1>6, <1>7 DEF ChannelInv, CallsInv, y
<1>10. \A d \in Call : call'[d].wait = call[d].wait
  BY <1>5, <1>7
<1>11. QueueInv'
  <2>1. \A d \in Call : Unbegun(call'[d]) \/ Holds(d)'
    BY <1>1, <1>7, <1>8 DEF ChannelInv, QueueInv
  <2>2. \A i \in DOMAIN policyq : policyq[i] \in Call
    BY DEF ChannelInv, QueueInv
  <2>3. QED
    BY <1>1, <1>10, <2>1, <2>2 DEF ChannelInv, QueueInv
<1>12. /\ row' \in Rows /\ (row' = NoRow \/ row'.status # "none")
       /\ row.status # "none" => row'.status # "none"
       /\ field = "status" /\ row.status # "none" => row'.status = x.to.status
       /\ field = "active" => row'.status = row.status
       /\ field \in {"caps", "tier"} => row'.status = row.status /\ row'.active = row.active
  <2>1. RowInv
    BY DEF ChannelInv
  <2>2. field = "status" => x.to.status # "none"
    BY <1>4
  <2>3. QED
    BY <1>1, <1>3, <1>4, <2>1, <2>2, WrittenRow
<1> HIDE DEF field, rest, x
<1>13. RowInv'
  BY <1>1, <1>10, <1>12 DEF ChannelInv, RowInv
<1>14. x.wait = "parting" => row'.status = x.to.status
  <2>1. ASSUME x.wait = "parting", x.todo = Leaving
        PROVE row'.status = x.to.status
    BY <1>3, <1>12, <2>1 DEF ChannelInv, RowInv, x
  <2>2. ASSUME x.wait = "parting", x.todo # Leaving
        PROVE row'.status = x.to.status
    <3>1. ~Unbegun(x)
      BY <2>2 DEF Unbegun
    <3>2. row.status = x.to.status
      BY <2>2, <3>1 DEF ChannelInv, PartInv, x
    <3>3. QED
      BY <1>3, <1>12, <2>2, <3>2
  <2>3. QED
    BY <2>1, <2>2
<1>15. PartInv'
  <2>1. \A d \in Call \ {c} : Unbegun(call[d])
    BY <1>1 DEF ChannelInv, QueueInv, Holds
  <2>2. QED
    BY <1>5, <1>7, <1>14, <2>1 DEF PartInv
<1>16. BanInv'
  <2>1. barred => x.wait \in {"storing", "granting", "revoking"}
    BY <1>3 DEF ChannelInv, BanInv, x, Locking
  <2>2. QED
    BY <1>1, <1>3, <1>10, <1>12, <2>1 DEF ChannelInv, BanInv
<1>17. JoinInv'
  <2>1. Marks => Marks'
    BY <1>8, <1>10 DEF Marks
  <2>2. Joined(row') => Joined(row) \/ Marks'
    <3>1. CASE x.wait = "marking"
      BY <1>1, <1>8, <1>10, <3>1 DEF Marks, x
    <3>2. CASE x.wait = "parting"
      <4>1. row'.status # "joined"
        BY <1>4, <1>14, <3>2
      <4>2. QED
        BY <4>1 DEF Joined
    <3>3. CASE x.wait \in {"storing", "granting", "revoking"}
      BY <1>3, <1>12, <3>3 DEF Joined
    <3>4. QED
      BY <1>3, <3>1, <3>2, <3>3 DEF Locking
  <2>3. Joined(snap)' <=> Joined(snap)
    BY <1>1 DEF Joined
  <2>4. Joined(row)' <=> Joined(row')
    BY DEF Joined
  <2>5. QED
    BY <1>1, <1>10, <2>1, <2>2, <2>3, <2>4 DEF ChannelInv, JoinInv
<1>18. QED
  BY <1>9, <1>11, <1>13, <1>15, <1>16, <1>17 DEF ChannelInv

\* Where a change goes on.
LEMMA ChangedReady ==
  ASSUME ChannelInv, NEW c \in Call, call[c].wait \in Locking
  PROVE /\ Ready(Changed(c)) /\ Changed(c).wait \notin {"marking", "parting"}
        /\ call[c].wait = "marking" /\ ~subscribed => Changed(c).wait = "subscribing"
<1> DEFINE kind == call[c].kind
<1>1. /\ call[c].wait # "parting" => kind \in Staying
      /\ call[c].wait = "parting" => kind \in {"part", "ban"}
  BY WaitKinds DEF Locking
<1>2. row \in Rows
  BY DEF ChannelInv, RowInv
<1>3. CASE call[c].wait = "marking"
  <2>1. Changed(c) = Marked(kind)
    BY <1>3 DEF Changed
  <2>2. QED
    BY <1>1, <1>3, <2>1, MarkedReady
<1>4. CASE call[c].wait = "storing"
  <2>1. Changed(c) = Probed(row, kind)
    BY <1>4 DEF Changed
  <2>2. Ready(Probed(row, kind)) /\ Probed(row, kind).wait \in {"granting", "using", "probing", "idle"}
    BY <1>1, <1>2, <1>4, ProbedReady
  <2>3. QED
    BY <1>4, <2>1, <2>2
<1>5. CASE call[c].wait = "granting"
  <2>1. Changed(c) = At(kind, "using")
    BY <1>5 DEF Changed
  <2>2. Ready(At(kind, "using")) /\ At(kind, "using").wait = "using"
    BY <1>1, <1>5, AtReady DEF Staying, Kinds, Away
  <2>3. QED
    BY <1>5, <2>1, <2>2
<1>6. CASE call[c].wait = "revoking"
  <2>1. Changed(c) = Idle
    BY <1>6 DEF Changed
  <2>2. Ready(Idle) /\ Idle.wait = "idle"
    BY AtReady DEF Idle, Kinds, Away
  <2>3. QED
    BY <1>6, <2>1, <2>2
<1>7. CASE call[c].wait = "parting"
  <2>1. Changed(c) = At(kind, "unsubscribing")
    BY <1>7 DEF Changed
  <2>2. Ready(At(kind, "unsubscribing")) /\ At(kind, "unsubscribing").wait = "unsubscribing"
    BY <1>1, <1>7, AtReady DEF Kinds, Away
  <2>3. QED
    BY <1>7, <2>1, <2>2
<1>8. QED
  BY <1>3, <1>4, <1>5, <1>6, <1>7 DEF Locking

LEMMA ReloadKeeps ==
  ASSUME ChannelInv, NEW c \in Call, Reload(c)
  PROVE ChannelInv'
<1>1. /\ Holds(c) /\ call[c].todo = <<>> /\ snap' = row /\ row' = row
      /\ GoOn(c, Changed(c), Tail(policyq)) /\ refused' = refused
  BY DEF Reload
<1>2. call[c].wait \in Locking
  <2>1. policyq \in Seq(Call) /\ policyq # <<>> /\ policyq[1] = c
    BY <1>1 DEF Holds, ChannelInv, QueueInv
  <2>2. 1 \in DOMAIN policyq
    BY <2>1
  <2>3. QED
    BY <2>1, <2>2 DEF ChannelInv, QueueInv
<1>3. /\ Ready(Changed(c)) /\ Changed(c).wait \notin {"marking", "parting"}
      /\ call[c].wait = "marking" /\ ~subscribed => Changed(c).wait = "subscribing"
  BY <1>2, ChangedReady
<1>4. /\ CallsInv' /\ QueueInv'
      /\ call' = [call EXCEPT ![c] = Changed(c)]
      /\ \A d \in Call : Unbegun(call'[d])
  BY <1>1, <1>3, LetGoKeeps DEF ChannelInv
<1>5. call'[c] = Changed(c) /\ \A d \in Call \ {c} : call'[d] = call[d]
  BY <1>4 DEF ChannelInv, CallsInv
<1>6. call[c].wait = "parting" => /\ row.status = call[c].to.status
                                  /\ row.status # "joined"
                                  /\ call[c].kind = "ban" => row.status = "banned"
  <2>1. ASSUME call[c].wait = "parting"
        PROVE row.status = call[c].to.status
    <3>1. ~Unbegun(call[c])
      BY <1>1, <2>1 DEF Unbegun, Leaving
    <3>2. QED
      BY <2>1, <3>1 DEF ChannelInv, PartInv
  <2>2. CallOK(call[c])
    BY DEF ChannelInv, CallsInv
  <2>3. QED
    BY <2>1, <2>2 DEF CallOK
<1>7. RowInv'
  BY <1>1, <1>3, <1>5 DEF ChannelInv, RowInv
<1>8. PartInv'
  BY <1>4 DEF PartInv
<1>9. BanInv'
  <2>1. CASE barred
    <3>1. row.status = "banned" /\ \A d \in Call : call'[d].wait \notin {"marking", "parting"}
      BY <1>3, <1>5, <2>1 DEF ChannelInv, BanInv
    <3>2. QED
      BY <1>1, <3>1 DEF BanInv
  <2>2. CASE call[c].kind = "ban" /\ call[c].wait = "parting" /\ Alone(c)
    <3>1. row.status = "banned" /\ \A d \in Call : call'[d].wait \notin {"marking", "parting"}
      BY <1>3, <1>5, <1>6, <2>2 DEF Alone
    <3>2. QED
      BY <1>1, <3>1 DEF BanInv
  <2>3. CASE ~barred'
    BY <2>3 DEF BanInv
  <2>4. barred' = (barred \/ (call[c].kind = "ban" /\ call[c].wait = "parting" /\ Alone(c)))
    BY DEF Reload
  <2>5. QED
    BY <2>1, <2>2, <2>3, <2>4
<1>10. JoinInv'
  <2>1. ASSUME Joined(row)
        PROVE subscribed' \/ refused' \/ \E d \in Call : call'[d].wait = "subscribing"
    <3>1. call[c].wait # "parting"
      BY <1>6, <2>1 DEF Joined
    <3>2. subscribed => subscribed'
      BY <3>1 DEF Reload
    <3>3. CASE Joined(snap)
      <4>1. subscribed \/ refused \/ \E d \in Call \ {c} : call[d].wait = "subscribing"
        BY <1>2, <3>3 DEF ChannelInv, JoinInv, Locking
      <4>2. QED
        BY <1>1, <1>5, <3>2, <4>1
    <3>4. CASE ~Joined(snap)
      <4>1. subscribed \/ refused \/ Marks
        BY <2>1, <3>4 DEF ChannelInv, JoinInv
      <4>2. Marks => call[c].wait = "marking"
        BY <1>1 DEF Marks, Holds
      <4>3. QED
        BY <1>1, <1>3, <1>5, <3>2, <4>1, <4>2
    <3>5. QED
      BY <3>3, <3>4
  <2>2. (Joined(row)' <=> Joined(row)) /\ (Joined(snap)' <=> Joined(row))
    BY <1>1 DEF Joined
  <2>3. QED
    BY <2>1, <2>2 DEF JoinInv
<1>11. QED
  BY <1>4, <1>7, <1>8, <1>9, <1>10 DEF ChannelInv

LEMMA CutKeeps ==
  ASSUME ChannelInv, NEW c \in Call, Cut(c)
  PROVE ChannelInv'
<1> DEFINE q == Without(policyq, c)
<1>1. /\ call' = [call EXCEPT ![c] = Idle] /\ policyq' = q
      /\ row' = row /\ snap' = snap /\ subscribed' = subscribed /\ barred' = barred
  BY DEF Cut
<1>2. /\ q \in Seq(Call)
      /\ \A i, j \in DOMAIN q : q[i] = q[j] => i = j
      /\ \A i \in DOMAIN q : q[i] # c /\ \E j \in DOMAIN policyq : q[i] = policyq[j]
      /\ \A d \in Call \ {c} : Holds(d) => q # <<>> /\ Head(q) = d
  BY WithoutKeeps DEF ChannelInv
<1> HIDE DEF q
<1>3. Ready(Idle) /\ Idle.wait = "idle" /\ Idle \in Calls
  <2>1. Ready(Idle) /\ Idle.wait = "idle"
    BY AtReady DEF Idle, Kinds, Away
  <2>2. QED
    BY <2>1 DEF Ready, CallOK
<1>4. call'[c] = Idle /\ \A d \in Call \ {c} : call'[d] = call[d]
  BY <1>1 DEF ChannelInv, CallsInv
<1>5. CallsInv'
  BY <1>1, <1>3, <1>4 DEF ChannelInv, CallsInv, Ready
<1>6. \A d \in Call \ {c} : Holds(d) => Holds(d)'
  BY <1>1, <1>2 DEF Holds
<1>7. QueueInv'
  <2>1. \A d \in Call : Unbegun(call'[d]) \/ Holds(d)'
    BY <1>3, <1>4, <1>6 DEF ChannelInv, QueueInv, Ready
  <2>2. \A i \in DOMAIN q : call'[q[i]].wait \in Locking
    <3>1. ASSUME NEW i \in DOMAIN q
          PROVE call'[q[i]].wait \in Locking
      <4>1. q[i] \in Call /\ q[i] # c /\ call[q[i]].wait \in Locking
        BY <1>2 DEF ChannelInv, QueueInv
      <4>2. QED
        BY <1>4, <4>1
    <3>2. QED
      BY <3>1
  <2>3. QED
    BY <1>1, <1>2, <2>1, <2>2 DEF QueueInv
<1>8. RowInv'
  BY <1>1, <1>3, <1>4 DEF ChannelInv, RowInv
<1>9. PartInv'
  BY <1>1, <1>3, <1>4 DEF ChannelInv, PartInv
<1>10. BanInv'
  BY <1>1, <1>3, <1>4 DEF ChannelInv, BanInv
<1>11. call[c].wait \in {"marking", "subscribing"} => call[c].kind # "part"
  BY WaitKinds DEF Staying
<1>12. refused => refused'
  BY DEF Cut
<1>13. call[c].kind # "part" => refused'
  BY DEF Cut
<1>14. stale => stale'
  BY DEF Cut
<1>15. Holds(c) /\ row # snap => stale'
  BY DEF Cut
<1>16. Marks => Marks' \/ (Holds(c) /\ call[c].wait = "marking")
  BY <1>4, <1>6 DEF Marks
<1>17. JoinInv'
  <2>1. Joined(row) /\ ~Joined(snap) => row # snap
    OBVIOUS
  <2>2. Joined(row) /\ ~Joined(snap) => stale' \/ Marks'
    BY <1>14, <1>15, <1>16, <2>1 DEF ChannelInv, JoinInv
  <2>3. Joined(row) /\ ~Joined(snap) => subscribed \/ refused' \/ Marks'
    BY <1>11, <1>12, <1>13, <1>16 DEF ChannelInv, JoinInv
  <2>4. Joined(snap) => subscribed \/ refused' \/ \E d \in Call : call'[d].wait = "subscribing"
    <3>1. ASSUME NEW d \in Call, call[d].wait = "subscribing"
          PROVE refused' \/ call'[d].wait = "subscribing"
      BY <1>4, <1>11, <1>13, <3>1
    <3>2. QED
      BY <1>12, <3>1 DEF ChannelInv, JoinInv
  <2>5. QED
    BY <1>1, <2>2, <2>3, <2>4 DEF JoinInv, Joined
<1>18. QED
  BY <1>5, <1>7, <1>8, <1>9, <1>10, <1>17 DEF ChannelInv

-----------------------------------------------------------------------------
(* Every behaviour. *)

LEMMA ChannelInit == Init => ChannelInv
<1> SUFFICES ASSUME Init PROVE ChannelInv
  OBVIOUS
<1>1. Ready(Idle) /\ Idle.wait = "idle" /\ Idle \in Calls
  <2>1. Ready(Idle) /\ Idle.wait = "idle"
    BY AtReady DEF Idle, Kinds, Away
  <2>2. QED
    BY <2>1 DEF Ready, CallOK
<1>2. \A c \in Call : call[c] = Idle
  BY DEF Init
<1>3. CallsInv
  BY <1>1, <1>2 DEF Init, CallsInv, Ready
<1>4. QueueInv
  BY <1>1, <1>2 DEF Init, QueueInv, Ready
<1>5. RowInv /\ PartInv /\ BanInv
  BY <1>1, <1>2, NewRows DEF Init, RowInv, PartInv, BanInv, Ready
<1>6. JoinInv
  BY DEF Init, JoinInv, Joined, NoRow
<1>7. QED
  BY <1>3, <1>4, <1>5, <1>6 DEF ChannelInv

\* The lock, the calls and the settings are as they were.
LEMMA Undisturbed ==
  ASSUME ChannelInv, UNCHANGED <<policyVars, policyq, call, subscribed, refused, barred>>
  PROVE ChannelInv'
BY DEF ChannelInv, CallsInv, QueueInv, RowInv, PartInv, JoinInv, BanInv, Marks, Holds, policyVars

LEMMA ChannelNext == ChannelInv /\ [Next]_vars => ChannelInv'
<1> SUFFICES ASSUME ChannelInv, [Next]_vars PROVE ChannelInv'
  OBVIOUS
<1>1. ASSUME NEW c \in Call, JoinAsked(c)
      PROVE ChannelInv'
  BY <1>1, JoinKeeps DEF JoinAsked
<1>2. ASSUME NEW c \in Call, Authorized(c)
      PROVE ChannelInv'
  BY <1>2, JoinKeeps DEF Authorized
<1>3. ASSUME NEW c \in Call, Part(c) \/ LeaveBanned(c)
      PROVE ChannelInv'
  BY <1>3, LeaveKeeps
<1>4. ASSUME NEW c \in Call, StartTwitch(c) \/ Probe(c)
      PROVE ChannelInv'
  BY <1>4, StartKeeps, ProbeKeeps
<1>5. ASSUME NEW c \in Call, Step(c)
      PROVE ChannelInv'
  BY <1>5, WriteKeeps, ReloadKeeps, SubscribeKeeps, AwaitKeeps DEF Step
<1>6. ASSUME NEW c \in Call, Cut(c)
      PROVE ChannelInv'
  BY <1>6, CutKeeps
<1>7. CASE Badge
  BY <1>7, Undisturbed DEF Badge
<1>8. CASE UNCHANGED vars
  BY <1>8, Undisturbed DEF vars
<1>9. QED
  BY <1>1, <1>2, <1>3, <1>4, <1>5, <1>6, <1>7, <1>8 DEF Next

\* However joins, parts, bans, starts and probes cross, and whatever command is cut
\* between two of its writes: when nothing is under way, a channel the bot means to be
\* in is subscribed, unless that was refused (ChannelManager._mark_joined, _subscribe).
THEOREM JoinedSafety == Spec => []JoinedIsSubscribed
<1>1. ChannelInv => JoinedIsSubscribed
  BY DEF ChannelInv, JoinInv, JoinedIsSubscribed, Idle, At
<1>2. QED
  BY <1>1, ChannelInit, ChannelNext, PTL DEF Spec

\* For every number of calls: a ban no other change was racing lasts until somebody asks
\* for a rejoin or a part (ChannelManager.join, leave_banned).
THEOREM BanSafety == Spec => []BanHolds
<1>1. ChannelInv => BanHolds
  BY DEF ChannelInv, BanInv, BanHolds
<1>2. QED
  BY <1>1, ChannelInit, ChannelNext, PTL DEF Spec

----------------------------------------------------------------------------
(***************************************************************************)
(* Web requests that runs share.                                           *)
(***************************************************************************)

Gets == [at : {"idle", "asking", "sharing"}, url : Url \cup {None}, hop : Url \cup {None},
         hops : Nat, ended : {None, "answered", "refused", "expired", "cut"}, asks : Nat]

\* Every variable has its type.
TypeOK ==
  /\ listed \subseteq Hosts
  /\ get \in [Run -> Gets]
  /\ \A r \in Run : get[r].at # "idle" => get[r].url \in Url
  /\ inflight \in [Url -> Run \cup {Nobody}]
  /\ cached \in [Url -> 0 .. Window]
  /\ hits \in [Channels \cup Hosts -> Seq(Nat)]

\* The host of an address and the channel of a run have windows of their own.
LEMMA Windows ==
  ASSUME NEW r \in Run, NEW u \in Url
  PROVE ChannelOf[r] \in Channels /\ HostOf[u] \in Hosts /\ ChannelOf[r] # HostOf[u]
        /\ HostOf[u] \notin Channels
BY FetchAssumption DEF Channels, Hosts

\* A tick later a window holds no more requests.
LEMMA LaterIsShorter ==
  ASSUME NEW ages \in Seq(Nat)
  PROVE Later(ages) \in Seq(Nat) /\ Len(Later(ages)) <= Len(ages)
<1> DEFINE leaving == {i \in DOMAIN ages : ages[i] = Window - 1}
           gone == Cardinality(leaving)
<1>1. DOMAIN ages = 1 .. Len(ages) /\ Len(ages) \in Nat
  OBVIOUS
<1>2. IsFiniteSet(1 .. Len(ages)) /\ Cardinality(1 .. Len(ages)) = Len(ages)
  <2>1. 1 \in Int /\ Len(ages) \in Int
    BY <1>1
  <2>2. /\ IsFiniteSet(1 .. Len(ages))
        /\ Cardinality(1 .. Len(ages)) = IF 1 > Len(ages) THEN 0 ELSE Len(ages) - 1 + 1
    BY <2>1, FS_Interval
  <2>3. (IF 1 > Len(ages) THEN 0 ELSE Len(ages) - 1 + 1) = Len(ages)
    BY <1>1
  <2>4. QED
    BY <2>2, <2>3
<1>3. leaving \subseteq 1 .. Len(ages)
  BY <1>1
<1>4. gone \in Nat /\ gone <= Len(ages)
  <2>1. IsFiniteSet(leaving) /\ Cardinality(leaving) <= Cardinality(1 .. Len(ages))
    BY <1>2, <1>3, FS_Subset
  <2>2. QED
    BY <1>2, <2>1, FS_CardinalityType
<1>5. Later(ages) = [i \in 1 .. Len(ages) - gone |-> ages[i + gone] + 1]
  BY DEF Later
<1> HIDE DEF gone
<1>6. ASSUME NEW i \in 1 .. Len(ages) - gone
      PROVE ages[i + gone] + 1 \in Nat
  <2>1. i + gone \in 1 .. Len(ages)
    BY <1>1, <1>4
  <2>2. QED
    BY <1>1, <2>1
<1>7. Len(ages) - gone \in Nat /\ Len(ages) - gone <= Len(ages)
  BY <1>1, <1>4
<1>8. QED
  BY <1>5, <1>6, <1>7

-----------------------------------------------------------------------------
(* The types. *)

LEMMA EndedIsGet ==
  ASSUME TypeOK, NEW r \in Run, NEW how \in {"answered", "refused", "expired", "cut"}
  PROVE Ended(r, how) \in Gets /\ Ended(r, how).at = "idle"
BY DEF TypeOK, Gets, Ended

LEMMA BeganIsGet ==
  ASSUME TypeOK, NEW r \in Run, NEW at \in {"idle", "asking", "sharing"}, NEW u \in Url \cup {None},
         NEW ended \in {None, "answered", "refused"}
  PROVE /\ Began(r, at, u, ended) \in Gets
        /\ Began(r, at, u, ended).at = at /\ Began(r, at, u, ended).url = u
<1>1. get[r] \in Gets
  BY DEF TypeOK
<1>2. (IF at = "asking" THEN u ELSE None) \in Url \cup {None} /\ get[r].asks + 1 \in Nat
  BY <1>1 DEF Gets
<1> DEFINE hop == IF at = "asking" THEN u ELSE None
           asks == get[r].asks + 1
<1>3. Began(r, at, u, ended) =
        [get[r] EXCEPT !.at = at, !.url = u, !.hop = hop, !.ended = ended, !.asks = asks]
  BY <1>1 DEF Began, Gets
<1>4. hop \in Url \cup {None} /\ asks \in Nat
  BY <1>2
<1> HIDE DEF hop, asks
<1>5. QED
  BY <1>1, <1>3, <1>4 DEF Gets

\* What the end of a request does to those that take part in it.
LEMMA DoneGets ==
  ASSUME TypeOK, NEW r \in Run, get[r].at = "asking",
         NEW how \in {"answered", "refused", "expired"}, Done(r, how)
  PROVE /\ get' \in [Run -> Gets]
        /\ get'[r].at = "idle"
        /\ \A s \in Run : \/ get'[s].at = "idle"
                          \/ /\ get'[s] = get[s] /\ s # r
                             /\ ~(get[s].at = "sharing" /\ get[s].url = get[r].url)
        /\ inflight' = [inflight EXCEPT ![get[r].url] = Nobody]
<1> DEFINE new(s) == IF s = r THEN Ended(s, how)
                     ELSE IF s \in SharersTold(r, how)
                          THEN Ended(s, IF how = "expired" THEN "cut" ELSE how)
                     ELSE get[s]
<1>1. get' = [s \in Run |-> new(s)] /\ inflight' = [inflight EXCEPT ![get[r].url] = Nobody]
  BY DEF Done
<1>2. ASSUME NEW s \in Run
      PROVE /\ new(s) \in Gets
            /\ \/ new(s).at = "idle"
               \/ /\ new(s) = get[s] /\ s # r
                  /\ ~(get[s].at = "sharing" /\ get[s].url = get[r].url)
  <2>1. CASE s = r
    BY <2>1, EndedIsGet
  <2>2. CASE s # r /\ s \in SharersTold(r, how)
    BY <2>2, EndedIsGet
  <2>3. CASE s # r /\ s \notin SharersTold(r, how)
    BY <2>3 DEF SharersTold, TypeOK
  <2>4. QED
    BY <2>1, <2>2, <2>3
<1>3. new(r).at = "idle"
  BY EndedIsGet
<1> HIDE DEF new
<1>4. QED
  BY <1>1, <1>2, <1>3

\* One run's get is replaced.
LEMMA GetReplaced ==
  ASSUME TypeOK, NEW r \in Run, NEW new \in Gets, get' = [get EXCEPT ![r] = new]
  PROVE /\ get' \in [Run -> Gets] /\ get'[r] = new
        /\ \A s \in Run \ {r} : get'[s] = get[s]
BY DEF TypeOK

LEMMA GetType ==
  ASSUME TypeOK, NEW r \in Run, NEW u \in Url, Get(r, u)
  PROVE TypeOK'
<1>1. listed' = listed /\ cached' = cached /\ get[r].at = "idle"
  BY DEF Get
<1>2. get' \in [Run -> Gets] /\ \A s \in Run : get'[s].at # "idle" => get'[s].url \in Url
  <2>1. PICK at \in {"idle", "asking", "sharing"}, v \in {u, None}, ended \in {None, "answered", "refused"} :
          /\ get' = [get EXCEPT ![r] = Began(r, at, v, ended)]
          /\ at # "idle" => v = u
    BY DEF Get
  <2>2. Began(r, at, v, ended) \in Gets /\ Began(r, at, v, ended).at = at
        /\ Began(r, at, v, ended).url = v
    BY BeganIsGet
  <2>3. get' \in [Run -> Gets] /\ get'[r] = Began(r, at, v, ended)
        /\ \A s \in Run \ {r} : get'[s] = get[s]
    BY <2>1, <2>2, GetReplaced
  <2>4. QED
    BY <2>1, <2>2, <2>3 DEF TypeOK
<1>3. inflight' \in [Url -> Run \cup {Nobody}]
  BY DEF Get, TypeOK
<1>4. hits' \in [Channels \cup Hosts -> Seq(Nat)]
  <2>1. CASE hits' = hits
    BY <2>1 DEF TypeOK
  <2>2. CASE hits' = [hits EXCEPT ![ChannelOf[r]] = Append(@, 0), ![HostOf[u]] = Append(@, 0)]
    <3>1. \A ages \in Seq(Nat) : Append(ages, 0) \in Seq(Nat)
      OBVIOUS
    <3>2. ChannelOf[r] \in Channels \cup Hosts /\ HostOf[u] \in Channels \cup Hosts
          /\ ChannelOf[r] # HostOf[u]
      BY Windows
    <3>3. /\ DOMAIN hits' = Channels \cup Hosts
          /\ hits'[ChannelOf[r]] = Append(hits[ChannelOf[r]], 0)
          /\ hits'[HostOf[u]] = Append(hits[HostOf[u]], 0)
          /\ \A k \in (Channels \cup Hosts) \ {ChannelOf[r], HostOf[u]} : hits'[k] = hits[k]
      BY <2>2, <3>2 DEF TypeOK
    <3>4. \A k \in Channels \cup Hosts : hits'[k] \in Seq(Nat)
      BY <3>1, <3>2, <3>3 DEF TypeOK
    <3>5. hits' = [k \in Channels \cup Hosts |-> hits'[k]]
      BY <2>2 DEF TypeOK
    <3>6. QED
      BY <3>4, <3>5
  <2>3. QED
    BY <2>1, <2>2 DEF Get
<1>5. QED
  BY <1>1, <1>2, <1>3, <1>4 DEF TypeOK

\* The end of a request keeps the types.
LEMMA DoneType ==
  ASSUME TypeOK, NEW r \in Run, get[r].at = "asking",
         NEW how \in {"answered", "refused", "expired"}, Done(r, how), listed' = listed, hits' = hits
  PROVE TypeOK'
<1>1. get' \in [Run -> Gets] /\ \A s \in Run : get'[s].at # "idle" => get'[s].url \in Url
  BY DoneGets DEF TypeOK
<1>2. inflight' \in [Url -> Run \cup {Nobody}]
  BY DoneGets DEF TypeOK
<1>3. cached' \in [Url -> 0 .. Window]
  BY FetchAssumption DEF Done, TypeOK
<1>4. QED
  BY <1>1, <1>2, <1>3 DEF TypeOK

LEMMA FetchType == TypeOK /\ [FetchNext]_fetchVars => TypeOK'
<1> SUFFICES ASSUME TypeOK, [FetchNext]_fetchVars PROVE TypeOK'
  OBVIOUS
<1>1. ASSUME NEW r \in Run, NEW u \in Url, Get(r, u)
      PROVE TypeOK'
  BY <1>1, GetType
<1>2. ASSUME NEW r \in Run, Answer(r)
      PROVE TypeOK'
  <2>1. get[r].at = "asking" /\ listed' = listed /\ hits' = hits
    BY <1>2 DEF Answer
  <2>2. CASE Done(r, "answered") \/ Done(r, "refused")
    BY <2>1, <2>2, DoneType
  <2>3. ASSUME NEW v \in Url, get' = [get EXCEPT ![r].hop = v, ![r].hops = @ + 1],
               UNCHANGED <<inflight, cached>>
        PROVE TypeOK'
    <3>1. get' = [get EXCEPT ![r] = [get[r] EXCEPT !.hop = v, !.hops = get[r].hops + 1]]
      BY <2>3, Zenon
    <3>2. [get[r] EXCEPT !.hop = v, !.hops = get[r].hops + 1] \in Gets
          /\ [get[r] EXCEPT !.hop = v, !.hops = get[r].hops + 1].at = get[r].at
          /\ [get[r] EXCEPT !.hop = v, !.hops = get[r].hops + 1].url = get[r].url
      <4> DEFINE hops == get[r].hops + 1
      <4>1. get[r] \in Gets /\ hops \in Nat
        BY DEF TypeOK, Gets
      <4> HIDE DEF hops
      <4>2. /\ [get[r] EXCEPT !.hop = v, !.hops = hops] \in Gets
            /\ [get[r] EXCEPT !.hop = v, !.hops = hops].at = get[r].at
            /\ [get[r] EXCEPT !.hop = v, !.hops = hops].url = get[r].url
        BY <4>1 DEF Gets
      <4>3. QED
        BY <4>2 DEF hops
    <3>3. QED
      BY <2>1, <2>3, <3>1, <3>2, GetReplaced DEF TypeOK
  <2>4. QED
    BY <1>2, <2>2, <2>3 DEF Answer
<1>3. ASSUME NEW r \in Run, Expire(r)
      PROVE TypeOK'
  <2>1. listed' = listed /\ hits' = hits
    BY <1>3 DEF Expire
  <2>2. CASE get[r].at = "asking" /\ Done(r, "expired")
    BY <2>1, <2>2, DoneType
  <2>3. CASE /\ get[r].at = "sharing" /\ get' = [get EXCEPT ![r] = Ended(r, "expired")]
             /\ UNCHANGED <<inflight, cached>>
    BY <2>1, <2>3, EndedIsGet, GetReplaced DEF TypeOK
  <2>4. QED
    BY <1>3, <2>2, <2>3 DEF Expire
<1>4. CASE Age
  <2>1. hits' \in [Channels \cup Hosts -> Seq(Nat)]
    BY <1>4, LaterIsShorter DEF Age, TypeOK
  <2>2. cached' \in [Url -> 0 .. Window]
    <3>1. \A x \in 0 .. Window : (IF x = Window THEN Window ELSE x + 1) \in 0 .. Window
      BY FetchAssumption
    <3>2. QED
      BY <1>4, <3>1 DEF Age, TypeOK
  <2>3. QED
    BY <1>4, <2>1, <2>2 DEF Age, TypeOK
<1>5. ASSUME NEW h \in Hosts, Relist(h)
      PROVE TypeOK'
  BY <1>5 DEF Relist, TypeOK
<1>6. CASE UNCHANGED fetchVars
  BY <1>6 DEF fetchVars, TypeOK
<1>7. QED
  BY <1>1, <1>2, <1>3, <1>4, <1>5, <1>6 DEF FetchNext

LEMMA FetchInitType == FetchInit => TypeOK
<1> SUFFICES ASSUME FetchInit PROVE TypeOK
  OBVIOUS
<1>1. NotAsking \in Gets /\ NotAsking.at = "idle"
  BY DEF NotAsking, Gets
<1>2. <<>> \in Seq(Nat) /\ Window \in 0 .. Window
  BY FetchAssumption
<1>3. QED
  BY <1>1, <1>2 DEF FetchInit, TypeOK

-----------------------------------------------------------------------------
(* Requests that are on their way. *)

\* Nobody is no run.
LEMMA NobodyRuns == Nobody \notin Run
BY FetchAssumption

\* The end of a request, with all who share it.
LEMMA DoneExact ==
  ASSUME TypeOK, InflightExact, NEW r \in Run, get[r].at = "asking",
         NEW how \in {"answered", "refused", "expired"}, Done(r, how)
  PROVE InflightExact'
<1>1. /\ get'[r].at = "idle"
      /\ \A s \in Run : \/ get'[s].at = "idle"
                        \/ /\ get'[s] = get[s] /\ s # r
                           /\ ~(get[s].at = "sharing" /\ get[s].url = get[r].url)
      /\ inflight' = [inflight EXCEPT ![get[r].url] = Nobody]
  BY DoneGets
<1>2. get[r].url \in Url /\ inflight[get[r].url] = r /\ inflight \in [Url -> Run \cup {Nobody}]
  BY DEF TypeOK, InflightExact
<1>3. /\ inflight'[get[r].url] = Nobody
      /\ \A u \in Url \ {get[r].url} : inflight'[u] = inflight[u]
  BY <1>1, <1>2
<1>4. ASSUME NEW u \in Url, NEW s \in Run
      PROVE inflight'[u] = s <=> get'[s].at = "asking" /\ get'[s].url = u
  <2>1. CASE u = get[r].url
    <3>1. inflight'[u] # s
      BY <1>3, <2>1, NobodyRuns
    <3>2. ~(get'[s].at = "asking" /\ get'[s].url = u)
      BY <1>1, <1>2, <2>1 DEF InflightExact
    <3>3. QED
      BY <3>1, <3>2
  <2>2. CASE u # get[r].url
    <3>1. inflight'[u] = inflight[u]
      BY <1>3, <2>2
    <3>2. get'[s].at = "asking" /\ get'[s].url = u => get[s].at = "asking" /\ get[s].url = u
      BY <1>1
    <3>3. get[s].at = "asking" /\ get[s].url = u => get'[s] = get[s]
      <4>1. s \in SharersTold(r, how) => get[s].at = "sharing"
        BY DEF SharersTold
      <4>2. ASSUME get[s].at = "asking", get[s].url = u
            PROVE get'[s] = get[s]
        <5>1. s # r /\ s \notin SharersTold(r, how)
          BY <2>2, <4>1, <4>2
        <5>2. QED
          BY <5>1 DEF Done
      <4>3. QED
        BY <4>2
    <3>4. QED
      BY <3>1, <3>2, <3>3 DEF InflightExact
  <2>3. QED
    BY <2>1, <2>2
<1>5. ASSUME NEW s \in Run, get'[s].at = "sharing"
      PROVE inflight'[get'[s].url] # Nobody
  <2>1. get'[s] = get[s] /\ get[s].at = "sharing" /\ get[s].url # get[r].url /\ get[s].url \in Url
    BY <1>1, <1>5 DEF TypeOK
  <2>2. QED
    BY <1>3, <2>1 DEF InflightExact
<1>6. QED
  BY <1>4, <1>5 DEF InflightExact

LEMMA GetExact ==
  ASSUME TypeOK, InflightExact, NEW r \in Run, NEW u \in Url, Get(r, u)
  PROVE InflightExact'
<1>1. get[r].at = "idle" /\ get \in [Run -> Gets] /\ inflight \in [Url -> Run \cup {Nobody}]
  BY DEF Get, TypeOK
<1>2. CASE Goes(r, u) /\ get' = [get EXCEPT ![r] = Began(r, "asking", u, None)]
           /\ inflight' = [inflight EXCEPT ![u] = r]
  <2>1. inflight[u] = Nobody
    BY <1>2 DEF Goes, OnItsWay
  <2>2. Began(r, "asking", u, None) \in Gets /\ Began(r, "asking", u, None).at = "asking"
        /\ Began(r, "asking", u, None).url = u
    BY BeganIsGet
  <2>3. get'[r].at = "asking" /\ get'[r].url = u /\ \A s \in Run \ {r} : get'[s] = get[s]
    BY <1>2, <2>2, GetReplaced
  <2>4. inflight'[u] = r /\ \A v \in Url \ {u} : inflight'[v] = inflight[v]
    BY <1>1, <1>2
  <2>5. ASSUME NEW v \in Url, NEW s \in Run
        PROVE inflight'[v] = s <=> get'[s].at = "asking" /\ get'[s].url = v
    <3>1. CASE v = u /\ s = r
      BY <2>3, <2>4, <3>1
    <3>2. CASE v = u /\ s # r
      <4>1. ~(get[s].at = "asking" /\ get[s].url = u)
        BY <2>1, NobodyRuns DEF InflightExact
      <4>2. QED
        BY <2>3, <2>4, <3>2, <4>1
    <3>3. CASE v # u /\ s = r
      <4>1. inflight[v] # r
        BY <1>1 DEF InflightExact
      <4>2. QED
        BY <2>3, <2>4, <3>3, <4>1
    <3>4. CASE v # u /\ s # r
      BY <2>3, <2>4, <3>4 DEF InflightExact
    <3>5. QED
      BY <3>1, <3>2, <3>3, <3>4
  <2>6. ASSUME NEW s \in Run, get'[s].at = "sharing"
        PROVE inflight'[get'[s].url] # Nobody
    <3>1. s # r /\ get'[s] = get[s] /\ get[s].url \in Url
      BY <2>3, <2>6 DEF TypeOK
    <3>2. QED
      BY <2>1, <2>4, <2>6, <3>1 DEF InflightExact
  <2>7. QED
    BY <2>5, <2>6 DEF InflightExact
<1>3. CASE OnItsWay(u) /\ get' = [get EXCEPT ![r] = Began(r, "sharing", u, None)]
           /\ inflight' = inflight
  <2>1. Began(r, "sharing", u, None) \in Gets /\ Began(r, "sharing", u, None).at = "sharing"
        /\ Began(r, "sharing", u, None).url = u
    BY BeganIsGet
  <2>2. get'[r].at = "sharing" /\ get'[r].url = u /\ \A s \in Run \ {r} : get'[s] = get[s]
    BY <1>3, <2>1, GetReplaced
  <2>3. QED
    BY <1>1, <1>3, <2>2 DEF InflightExact, OnItsWay
<1>4. ASSUME NEW ended \in {"answered", "refused"},
             get' = [get EXCEPT ![r] = Began(r, "idle", None, ended)], inflight' = inflight
      PROVE InflightExact'
  <2>1. Began(r, "idle", None, ended) \in Gets /\ Began(r, "idle", None, ended).at = "idle"
    BY BeganIsGet
  <2>2. get'[r].at = "idle" /\ \A s \in Run \ {r} : get'[s] = get[s]
    BY <1>4, <2>1, GetReplaced
  <2>3. QED
    BY <1>1, <1>4, <2>2 DEF InflightExact
<1>5. QED
  BY <1>2, <1>3, <1>4 DEF Get

LEMMA ExactNext == TypeOK /\ InflightExact /\ [FetchNext]_fetchVars => InflightExact'
<1> SUFFICES ASSUME TypeOK, InflightExact, [FetchNext]_fetchVars PROVE InflightExact'
  OBVIOUS
<1>1. ASSUME NEW r \in Run, NEW u \in Url, Get(r, u)
      PROVE InflightExact'
  BY <1>1, GetExact
<1>2. ASSUME NEW r \in Run, Answer(r)
      PROVE InflightExact'
  <2>1. CASE Done(r, "answered") \/ Done(r, "refused")
    BY <1>2, <2>1, DoneExact DEF Answer
  <2>2. ASSUME NEW v \in Url, get' = [get EXCEPT ![r].hop = v, ![r].hops = @ + 1], inflight' = inflight
        PROVE InflightExact'
    <3>1. \A s \in Run : get'[s].at = get[s].at /\ get'[s].url = get[s].url
      BY <2>2 DEF TypeOK, Gets
    <3>2. \A u \in Url, s \in Run : inflight[u] = s <=> get'[s].at = "asking" /\ get'[s].url = u
      BY <3>1 DEF InflightExact
    <3>3. \A s \in Run : get'[s].at = "sharing" => inflight[get'[s].url] # Nobody
      BY <3>1 DEF InflightExact
    <3>4. inflight' = inflight
      BY <2>2
    <3>5. QED
      BY <3>2, <3>3, <3>4, Zenon DEF InflightExact
  <2>3. QED
    BY <1>2, <2>1, <2>2 DEF Answer
<1>3. ASSUME NEW r \in Run, Expire(r)
      PROVE InflightExact'
  <2>1. CASE get[r].at = "asking" /\ Done(r, "expired")
    BY <2>1, DoneExact
  <2>2. CASE /\ get[r].at = "sharing" /\ get' = [get EXCEPT ![r] = Ended(r, "expired")]
             /\ inflight' = inflight
    <3>1. get'[r].at = "idle" /\ \A s \in Run \ {r} : get'[s] = get[s]
      BY <2>2, EndedIsGet, GetReplaced
    <3>2. \A u \in Url : inflight[u] # r
      BY <2>2 DEF InflightExact
    <3>3. ASSUME NEW u \in Url, NEW s \in Run
          PROVE inflight[u] = s <=> get'[s].at = "asking" /\ get'[s].url = u
      <4>1. CASE s = r
        BY <3>1, <3>2, <4>1
      <4>2. CASE s # r
        BY <3>1, <4>2 DEF InflightExact
      <4>3. QED
        BY <4>1, <4>2
    <3>4. \A s \in Run : get'[s].at = "sharing" => s # r /\ get'[s] = get[s]
      BY <3>1
    <3>5. QED
      BY <2>2, <3>3, <3>4 DEF InflightExact
  <2>3. QED
    BY <1>3, <2>1, <2>2 DEF Expire
<1>4. CASE Age \/ (\E h \in Hosts : Relist(h)) \/ UNCHANGED fetchVars
  BY <1>4 DEF Age, Relist, fetchVars, InflightExact
<1>5. QED
  BY <1>1, <1>2, <1>3, <1>4 DEF FetchNext

\* However many runs ask, and however their requests end: one request per address is on
\* its way, and nobody waits for one that is not (HttpFetcher._inflight).
THEOREM SharingSafety == FetchSpec => [](TypeOK /\ InflightExact)
<1>1. FetchInit => InflightExact
  BY NobodyRuns DEF FetchInit, InflightExact, NotAsking
<1>2. QED
  BY <1>1, FetchInitType, FetchType, ExactNext, PTL DEF FetchSpec

-----------------------------------------------------------------------------
(* The limits. *)

LEMMA LimitsNext == TypeOK /\ LimitsHeld /\ [FetchNext]_fetchVars => LimitsHeld'
<1> SUFFICES ASSUME TypeOK, LimitsHeld, [FetchNext]_fetchVars PROVE LimitsHeld'
  OBVIOUS
<1>1. \A k \in Channels \cup Hosts : hits[k] \in Seq(Nat) /\ Len(hits[k]) \in Nat /\ Limit(k) \in Nat
  BY FetchAssumption DEF TypeOK, Limit
<1>2. DOMAIN hits = Channels \cup Hosts
  BY DEF TypeOK
<1>3. CASE hits' = hits
  BY <1>3 DEF LimitsHeld, Recent, Limit
<1>4. ASSUME NEW r \in Run, NEW u \in Url, Goes(r, u),
             hits' = [hits EXCEPT ![ChannelOf[r]] = Append(@, 0), ![HostOf[u]] = Append(@, 0)]
      PROVE LimitsHeld'
  <2>1. ChannelOf[r] \in Channels \cup Hosts /\ HostOf[u] \in Channels \cup Hosts
        /\ ChannelOf[r] # HostOf[u]
    BY Windows
  <2>2. /\ DOMAIN hits' = Channels \cup Hosts
        /\ hits'[ChannelOf[r]] = Append(hits[ChannelOf[r]], 0)
        /\ hits'[HostOf[u]] = Append(hits[HostOf[u]], 0)
        /\ \A k \in (Channels \cup Hosts) \ {ChannelOf[r], HostOf[u]} : hits'[k] = hits[k]
    BY <1>2, <1>4, <2>1
  <2>3. \A ages \in Seq(Nat) : Len(Append(ages, 0)) = Len(ages) + 1
    OBVIOUS
  <2>4. Len(hits[ChannelOf[r]]) < Limit(ChannelOf[r]) /\ Len(hits[HostOf[u]]) < Limit(HostOf[u])
    BY <1>1, <1>4, <2>1 DEF Goes, Full, Recent
  <2>5. ASSUME NEW k \in Channels \cup Hosts
        PROVE Len(hits'[k]) <= Limit(k)
    <3>1. CASE k \in {ChannelOf[r], HostOf[u]}
      <4>1. Len(hits'[k]) = Len(hits[k]) + 1 /\ Len(hits[k]) < Limit(k)
        BY <1>1, <2>1, <2>2, <2>3, <2>4, <3>1
      <4>2. QED
        BY <1>1, <4>1
    <3>2. CASE k \notin {ChannelOf[r], HostOf[u]}
      BY <1>2, <2>2, <3>2 DEF LimitsHeld, Recent
    <3>3. QED
      BY <3>1, <3>2
  <2>6. QED
    BY <2>2, <2>5 DEF LimitsHeld, Recent, Limit
<1>5. CASE Age
  <2>1. /\ DOMAIN hits' = Channels \cup Hosts
        /\ \A k \in Channels \cup Hosts : hits'[k] = Later(hits[k])
    BY <1>2, <1>5 DEF Age
  <2>2. ASSUME NEW k \in Channels \cup Hosts
        PROVE Len(hits'[k]) <= Limit(k)
    <3>1. hits'[k] \in Seq(Nat) /\ Len(hits'[k]) <= Len(hits[k])
      BY <1>1, <2>1, LaterIsShorter
    <3>2. Len(hits[k]) <= Limit(k)
      BY <1>2 DEF LimitsHeld, Recent
    <3>3. Len(hits'[k]) \in Nat
      BY <3>1
    <3>4. QED
      BY <1>1, <3>1, <3>2, <3>3
  <2>3. QED
    BY <2>1, <2>2 DEF LimitsHeld, Recent, Limit
<1>6. QED
  BY <1>3, <1>4, <1>5 DEF FetchNext, Get, Answer, Expire, Relist, fetchVars

\* For every limit, also the 0 that turns requests off: no more of a channel's requests,
\* or to a host, begin within a minute (_Window.full and add).
THEOREM LimitsSafety == FetchSpec => []LimitsHeld
<1>1. FetchInit => LimitsHeld
  BY FetchAssumption DEF FetchInit, LimitsHeld, Recent, Limit
<1>2. QED
  BY <1>1, FetchInitType, FetchType, LimitsNext, PTL DEF FetchSpec
============================================================================
