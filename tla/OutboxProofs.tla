---------------------------- MODULE OutboxProofs ----------------------------
(***************************************************************************)
(* Proofs about Outbox: for any number of calls, channels and capacities,  *)
(* every variable keeps its type, the channel lock is passed on correctly, *)
(* the chunks of a message reach the channel together and in order, no     *)
(* channel gets more than its bucket and its refill allow, and every chunk *)
(* and every call is accounted for.                                        *)
(***************************************************************************)
EXTENDS Outbox, TLAPS

\* What makes Contiguous inductive: a call that is not inside the lock yet has
\* handed nothing over, and what the call inside it has handed over is the end
\* of the channel's transcript and comes before the chunk it is at.
Together ==
  \A s \in Send :
    LET h == handed[ChannelOf[s]]
    IN /\ pc[s] \in {"idle", "holding", "queued"} =>
            \A i \in DOMAIN h : h[i].send # s
       /\ pc[s] \in Inside =>
            \A i \in DOMAIN h : h[i].send = s =>
              /\ h[i].part <= part[s]
              /\ pc[s] \in {"ready", "waiting"} => h[i].part < part[s]
              /\ \A k \in i..Len(h) : h[k].send = s

IInv == TypeOK /\ LockDiscipline

-----------------------------------------------------------------------------

\* What the arithmetic of wait_time needs of integer division.
LEMMA DivNat ==
  ASSUME NEW n \in Nat, NEW m \in Nat, m > 0
  PROVE  n \div m \in Nat
  BY SMT

LEMMA DivPositive ==
  ASSUME NEW n \in Nat, NEW m \in Nat, m > 0, n >= m
  PROVE  n \div m >= 1
  BY Z3

LEMMA Succ ==
  ASSUME NEW m, NEW n, m = 1 \/ m = 2, n = 1 \/ n = 2, m < n
  PROVE  m + 1 \in {1, 2} /\ m + 1 <= n
<1>1. CASE m = 1
  BY <1>1
<1>2. CASE m = 2
  BY <1>2
<1> QED
  BY <1>1, <1>2

LEMMA CapacityType ==
  ASSUME OutboxAssumption, NEW n \in Capacities
  PROVE  n \in Nat \ {0} /\ Per \in Nat \ {0} /\ n * Per \in Nat
  BY DEF OutboxAssumption

\* A call is at a chunk it has.
LEMMA PartType ==
  ASSUME OutboxAssumption, TypeOK, NEW s \in Send
  PROVE  /\ part[s] \in {1, 2} /\ part[s] <= Len(Parts[s]) /\ Len(Parts[s]) \in {1, 2}
         /\ Parts[s] \in Seq(STRING) /\ ChannelOf[s] \in Channel
<1>1. part[s] \in {1, 2} /\ part[s] <= Len(Parts[s])
  BY DEF TypeOK
<1>2. Parts[s] \in Seq(STRING) /\ Len(Parts[s]) \in {1, 2} /\ ChannelOf[s] \in Channel
  BY DEF OutboxAssumption
<1> QED
  BY <1>1, <1>2

\* The bucket a chunk is measured against is a bucket of the right type.
LEMMA BucketAtType ==
  ASSUME OutboxAssumption, TypeOK, NEW s \in Send
  PROVE  /\ BucketAt(s) \in [cap : Capacities, level : Nat]
         /\ BucketAt(s).level <= BucketAt(s).cap * Per
         /\ WaitTime(BucketAt(s)) \in Nat
         /\ WaitTime(BucketAt(s)) = 0 => BucketAt(s).level >= Per
<1>1. ChannelOf[s] \in Channel /\ rate[ChannelOf[s]] \in Capacities
  BY DEF OutboxAssumption, TypeOK
<1>2. bucket[ChannelOf[s]] \in [cap : Capacities, level : Nat]
  BY <1>1 DEF TypeOK
<1>3. \A n \in Capacities : n \in Nat \ {0} /\ n * Per \in Nat
  BY DEF OutboxAssumption
<1>4. /\ BucketAt(s) \in [cap : Capacities, level : Nat]
      /\ BucketAt(s).level <= BucketAt(s).cap * Per
  <2> DEFINE fresh == [cap |-> rate[ChannelOf[s]], level |-> rate[ChannelOf[s]] * Per]
  <2>1. fresh \in [cap : Capacities, level : Nat] /\ fresh.level <= fresh.cap * Per
    <3> DEFINE full == rate[ChannelOf[s]] * Per
    <3>1. full \in Nat
      BY <1>1, <1>3
    <3>2. fresh.cap * Per = full /\ fresh.level = full
      OBVIOUS
    <3> HIDE DEF full
    <3> QED
      BY <1>1, <3>1, <3>2
  <2>2. bucket[ChannelOf[s]].level <= bucket[ChannelOf[s]].cap * Per
    BY <1>1 DEF TypeOK
  <2>3. BucketAt(s) = fresh \/ BucketAt(s) = bucket[ChannelOf[s]]
    BY DEF BucketAt, BucketOf
  <2> HIDE DEF fresh
  <2> QED
    BY <1>2, <2>1, <2>2, <2>3
<1>5. ASSUME NEW b \in [cap : Capacities, level : Nat]
      PROVE  /\ WaitTime(b) \in Nat
             /\ WaitTime(b) = 0 => b.level >= Per
  <2>1. b.cap \in Nat \ {0} /\ b.level \in Nat /\ Per \in Nat
    BY <1>3 DEF OutboxAssumption
  <2>2. CASE b.level >= Per
    BY <2>1, <2>2 DEF WaitTime
  <2>3. CASE b.level < Per
    <3>1. b.cap > 0
      BY <2>1
    <3>2. Per - b.level + b.cap - 1 \in Nat /\ Per - b.level + b.cap - 1 >= b.cap
      BY <2>1, <2>3
    <3>3. WaitTime(b) = (Per - b.level + b.cap - 1) \div b.cap
      BY <2>1, <2>3 DEF WaitTime
    <3> HIDE DEF WaitTime
    <3>4. WaitTime(b) \in Nat
      BY <2>1, <3>1, <3>2, <3>3, DivNat
    <3>5. WaitTime(b) >= 1
      BY <2>1, <3>1, <3>2, <3>3, DivPositive
    <3> QED
      BY <3>4, <3>5
  <2> QED
    BY <2>1, <2>2, <2>3
<1> QED
  BY <1>4, <1>5

\* The first of a lock's queue is the only call inside the lock.
LEMMA HolderFirst ==
  ASSUME OutboxAssumption, TypeOK, LockDiscipline, NEW s \in Send, pc[s] \in Inside
  PROVE  /\ lockq[ChannelOf[s]] # <<>>
         /\ lockq[ChannelOf[s]][1] = s
         /\ \A t \in Send : ChannelOf[t] = ChannelOf[s] /\ pc[t] \in Inside => t = s
<1>1. ASSUME NEW t \in Send, pc[t] \in Inside
      PROVE  lockq[ChannelOf[t]] # <<>> /\ lockq[ChannelOf[t]][1] = t
  <2>1. ChannelOf[t] \in Channel /\ lockq[ChannelOf[t]] \in Seq(Send)
    BY DEF OutboxAssumption, TypeOK
  <2>2. PICK i \in DOMAIN lockq[ChannelOf[t]] : lockq[ChannelOf[t]][i] = t
    BY <1>1, <2>1 DEF LockDiscipline
  <2>3. i = 1
    BY <1>1, <2>1, <2>2 DEF LockDiscipline, Inside
  <2> QED
    BY <2>1, <2>2, <2>3
<1> QED
  BY <1>1

\* Leaving the lock lets in the first waiter of its queue.
LEMMA ReleaseKeepsLock ==
  ASSUME OutboxAssumption, TypeOK, LockDiscipline, NEW s \in Send,
         pc[s] \in Inside, Release(s)
  PROVE  /\ lockq' \in [Channel -> Seq(Send)]
         /\ pc' \in [Send -> Location]
         /\ LockDiscipline'
<1> DEFINE c == ChannelOf[s]
           q == lockq[c]
<1>1. c \in Channel /\ q \in Seq(Send) /\ q # <<>> /\ q[1] = s
  BY HolderFirst DEF OutboxAssumption, TypeOK
<1>2. /\ Tail(q) \in Seq(Send)
      /\ Len(Tail(q)) = Len(q) - 1
      /\ \A i \in DOMAIN Tail(q) : i + 1 \in DOMAIN q /\ Tail(q)[i] = q[i + 1]
  BY <1>1
<1>3. lockq' \in [Channel -> Seq(Send)]
  BY <1>1, <1>2 DEF Release, TypeOK
<1>4. pc' \in [Send -> Location]
  BY <1>1 DEF Release, TypeOK, Location, Inside
<1>5. LockDiscipline'
  <2> SUFFICES ASSUME NEW d \in Channel
               PROVE  LET r == lockq'[d]
                      IN /\ \A i \in DOMAIN r :
                              /\ ChannelOf[r[i]] = d
                              /\ IF i = 1 THEN pc'[r[i]] \in Inside ELSE pc'[r[i]] = "queued"
                         /\ \A i, j \in DOMAIN r : r[i] = r[j] => i = j
                         /\ \A t \in Send : ChannelOf[t] = d /\ pc'[t] \in Inside \cup {"queued"} =>
                              \E i \in DOMAIN r : r[i] = t
    BY DEF LockDiscipline
  <2>1. CASE d # c
    <3>1. lockq'[d] = lockq[d]
      BY <2>1 DEF Release, TypeOK
    <3>2. \A t \in Send : ChannelOf[t] = d => pc'[t] = pc[t]
      BY <1>1, <2>1 DEF Release, LockDiscipline
    <3>3. lockq[d] \in Seq(Send) /\ \A i \in DOMAIN lockq[d] : lockq[d][i] \in Send
      BY DEF TypeOK
    <3>4. /\ \A i \in DOMAIN lockq[d] :
               /\ ChannelOf[lockq[d][i]] = d
               /\ IF i = 1 THEN pc[lockq[d][i]] \in Inside ELSE pc[lockq[d][i]] = "queued"
          /\ \A i, j \in DOMAIN lockq[d] : lockq[d][i] = lockq[d][j] => i = j
          /\ \A t \in Send : ChannelOf[t] = d /\ pc[t] \in Inside \cup {"queued"} =>
               \E i \in DOMAIN lockq[d] : lockq[d][i] = t
      BY DEF LockDiscipline
    <3>5. \A i \in DOMAIN lockq[d] :
            IF i = 1 THEN pc'[lockq[d][i]] \in Inside ELSE pc'[lockq[d][i]] = "queued"
      BY <3>2, <3>3, <3>4
    <3>6. \A t \in Send : ChannelOf[t] = d /\ pc'[t] \in Inside \cup {"queued"} =>
            \E i \in DOMAIN lockq[d] : lockq[d][i] = t
      BY <3>2, <3>4
    <3> QED
      BY <3>1, <3>4, <3>5, <3>6
  <2>2. CASE d = c
    <3>1. lockq'[d] = Tail(q)
      BY <1>1, <2>2 DEF Release, TypeOK
    <3>2. \A i \in DOMAIN q : i > 1 => q[i] # s /\ pc[q[i]] = "queued"
      BY <1>1 DEF LockDiscipline
    <3>3. \A i, j \in DOMAIN q : q[i] = q[j] => i = j
      BY <1>1 DEF LockDiscipline
    <3>4. \A i \in DOMAIN Tail(q) : pc'[Tail(q)[i]] = IF i = 1 THEN "ready" ELSE "queued"
      BY <1>1, <1>2, <3>2, <3>3 DEF Release
    <3>5. \A t \in Send : ChannelOf[t] = d /\ pc'[t] \in Inside \cup {"queued"} =>
            \E i \in DOMAIN Tail(q) : Tail(q)[i] = t
      <4> SUFFICES ASSUME NEW t \in Send, ChannelOf[t] = d, pc'[t] \in Inside \cup {"queued"}
                   PROVE  \E i \in DOMAIN Tail(q) : Tail(q)[i] = t
        OBVIOUS
      <4>1. t # s
        BY DEF Release, Inside
      <4>2. PICK i \in DOMAIN q : q[i] = t
        <5>1. CASE Len(q) > 1 /\ t = q[2]
          BY <1>1, <5>1
        <5>2. CASE ~(Len(q) > 1 /\ t = q[2])
          <6>1. pc[t] \in Inside \cup {"queued"}
            BY <1>1, <4>1, <5>2 DEF Release
          <6> QED
            BY <2>2, <6>1 DEF LockDiscipline
        <5> QED
          BY <5>1, <5>2
      <4>3. i # 1 /\ i \in Nat
        BY <1>1, <4>1, <4>2
      <4>4. i - 1 \in DOMAIN Tail(q) /\ Tail(q)[i - 1] = q[i]
        BY <1>1, <1>2, <4>2, <4>3
      <4> QED
        BY <4>2, <4>4
    <3>6. \A i \in DOMAIN Tail(q) : ChannelOf[Tail(q)[i]] = d
      BY <1>1, <1>2, <2>2 DEF LockDiscipline
    <3>7. \A i, j \in DOMAIN Tail(q) : Tail(q)[i] = Tail(q)[j] => i = j
      <4> SUFFICES ASSUME NEW i \in DOMAIN Tail(q), NEW j \in DOMAIN Tail(q), Tail(q)[i] = Tail(q)[j]
                   PROVE  i = j
        OBVIOUS
      <4>1. i \in Nat /\ j \in Nat
        BY <1>2
      <4>2. i + 1 = j + 1
        BY <1>2, <3>3
      <4> QED
        BY <4>1, <4>2
    <3> HIDE DEF c, q
    <3> QED
      BY <3>1, <3>4, <3>5, <3>6, <3>7 DEF Inside
  <2> QED
    BY <2>1, <2>2
<1> QED
  BY <1>3, <1>4, <1>5

\* A call that stays inside the lock, or stays out of its queue, leaves it as it is.
LEMMA MoveKeepsLock ==
  ASSUME OutboxAssumption, TypeOK, LockDiscipline, NEW s \in Send, NEW p \in Location,
         pc' = [pc EXCEPT ![s] = p], UNCHANGED lockq,
         \/ pc[s] \in Inside /\ p \in Inside
         \/ pc[s] \notin Inside \cup {"queued"} /\ p \notin Inside \cup {"queued"}
  PROVE  pc' \in [Send -> Location] /\ LockDiscipline'
<1>1. pc' \in [Send -> Location]
  BY DEF TypeOK
<1>2. \A t \in Send : /\ pc'[t] = pc[t] \/ (t = s /\ pc'[t] = p)
                      /\ pc'[t] \in Inside <=> pc[t] \in Inside
                      /\ pc'[t] = "queued" <=> pc[t] = "queued"
  BY DEF TypeOK, Inside
<1>3. ASSUME NEW c \in Channel
      PROVE  LET q == lockq[c]
             IN /\ \A i \in DOMAIN q :
                     /\ ChannelOf[q[i]] = c
                     /\ IF i = 1 THEN pc'[q[i]] \in Inside ELSE pc'[q[i]] = "queued"
                /\ \A i, j \in DOMAIN q : q[i] = q[j] => i = j
                /\ \A t \in Send : ChannelOf[t] = c /\ pc'[t] \in Inside \cup {"queued"} =>
                     \E i \in DOMAIN q : q[i] = t
  <2>1. \A i \in DOMAIN lockq[c] : lockq[c][i] \in Send
    BY DEF TypeOK
  <2> QED
    BY <1>2, <2>1 DEF LockDiscipline
<1> QED
  BY <1>1, <1>3 DEF LockDiscipline

\* Asking for the lock puts the call at the end of its queue, or inside when it is free.
LEMMA EnterKeepsLock ==
  ASSUME OutboxAssumption, TypeOK, LockDiscipline, NEW s \in Send,
         pc[s] \in {"idle", "holding"}, Filtered(s)
  PROVE  /\ lockq' \in [Channel -> Seq(Send)]
         /\ pc' \in [Send -> Location]
         /\ results' \in [Send -> Seq(Row)]
         /\ LockDiscipline'
<1> DEFINE c == ChannelOf[s]
           q == lockq[c]
<1>1. c \in Channel /\ q \in Seq(Send)
  BY DEF OutboxAssumption, TypeOK
<1>2. CASE Drop(s, "filter_block") /\ pc' = [pc EXCEPT ![s] = "done"] /\ UNCHANGED lockq
  <2>1. results' \in [Send -> Seq(Row)]
    BY <1>2 DEF Drop, TypeOK, Row, Outcome
  <2>2. "done" \in Location /\ "done" \notin Inside \cup {"queued"}
        /\ pc[s] \notin Inside \cup {"queued"}
    BY DEF Location, Inside
  <2>3. pc' \in [Send -> Location] /\ LockDiscipline'
    BY <1>2, <2>2, MoveKeepsLock
  <2> QED
    BY <1>2, <2>1, <2>3 DEF TypeOK
<1>3. CASE /\ lockq' = [lockq EXCEPT ![c] = Append(@, s)]
           /\ pc' = [pc EXCEPT ![s] = IF lockq[c] = <<>> THEN "ready" ELSE "queued"]
           /\ UNCHANGED results
  <2>1. lockq' \in [Channel -> Seq(Send)] /\ lockq'[c] = Append(q, s)
    BY <1>1, <1>3 DEF TypeOK
  <2>2. pc' \in [Send -> Location] /\ pc'[s] = (IF q = <<>> THEN "ready" ELSE "queued")
        /\ \A t \in Send : t # s => pc'[t] = pc[t]
    BY <1>1, <1>3 DEF TypeOK, Location, Inside
  <2>3. ASSUME NEW d \in Channel, NEW t \in Send, NEW i \in DOMAIN lockq[d], lockq[d][i] = t
        PROVE  t # s
    BY <2>3 DEF LockDiscipline, Inside
  <2>4. LockDiscipline'
    <3> SUFFICES ASSUME NEW d \in Channel
                 PROVE  LET r == lockq'[d]
                        IN /\ \A i \in DOMAIN r :
                                /\ ChannelOf[r[i]] = d
                                /\ IF i = 1 THEN pc'[r[i]] \in Inside ELSE pc'[r[i]] = "queued"
                           /\ \A i, j \in DOMAIN r : r[i] = r[j] => i = j
                           /\ \A t \in Send : ChannelOf[t] = d /\ pc'[t] \in Inside \cup {"queued"} =>
                                \E i \in DOMAIN r : r[i] = t
      BY DEF LockDiscipline
    <3>0. lockq[d] \in Seq(Send) /\ \A i \in DOMAIN lockq[d] : lockq[d][i] \in Send \ {s}
      BY <2>3 DEF TypeOK
    <3>1. /\ \A i \in DOMAIN lockq[d] :
               /\ ChannelOf[lockq[d][i]] = d
               /\ IF i = 1 THEN pc'[lockq[d][i]] \in Inside ELSE pc'[lockq[d][i]] = "queued"
          /\ \A i, j \in DOMAIN lockq[d] : lockq[d][i] = lockq[d][j] => i = j
      <4>1. \A i \in DOMAIN lockq[d] : pc'[lockq[d][i]] = pc[lockq[d][i]]
        BY <2>2, <3>0
      <4>2. /\ \A i \in DOMAIN lockq[d] :
                 /\ ChannelOf[lockq[d][i]] = d
                 /\ IF i = 1 THEN pc[lockq[d][i]] \in Inside ELSE pc[lockq[d][i]] = "queued"
            /\ \A i, j \in DOMAIN lockq[d] : lockq[d][i] = lockq[d][j] => i = j
        BY DEF LockDiscipline
      <4> QED
        BY <4>1, <4>2
    <3>2. \A t \in Send \ {s} : ChannelOf[t] = d /\ pc'[t] \in Inside \cup {"queued"} =>
            \E i \in DOMAIN lockq[d] : lockq[d][i] = t
      BY <2>2 DEF LockDiscipline
    <3>3. CASE d # c
      <4>1. lockq'[d] = lockq[d]
        BY <1>3, <3>3 DEF TypeOK
      <4> QED
        BY <3>1, <3>2, <3>3, <4>1
    <3>4. CASE d = c
      <4>1. /\ lockq'[d] \in Seq(Send) /\ Len(lockq'[d]) = Len(q) + 1
            /\ \A i \in DOMAIN q : lockq'[d][i] = q[i]
            /\ lockq'[d][Len(q) + 1] = s
        <5> HIDE DEF q
        <5>1. s \in Send /\ q \in Seq(Send) /\ lockq'[d] = Append(q, s)
          BY <1>1, <2>1, <3>4
        <5> QED
          BY <5>1
      <4>2. \A i \in DOMAIN lockq'[d] : i \in DOMAIN q \/ (i = Len(q) + 1 /\ lockq'[d][i] = s)
        BY <1>1, <4>1
      <4>3. \A i \in DOMAIN q : i \in 1..Len(q) /\ q[i] # s
        BY <1>1, <3>0, <3>4
      <4>4. pc'[s] = IF Len(q) + 1 = 1 THEN "ready" ELSE "queued"
        BY <1>1, <2>2
      <4>5. \A i \in DOMAIN lockq'[d] :
              /\ ChannelOf[lockq'[d][i]] = d
              /\ IF i = 1 THEN pc'[lockq'[d][i]] \in Inside ELSE pc'[lockq'[d][i]] = "queued"
        <5> SUFFICES ASSUME NEW i \in DOMAIN lockq'[d]
                     PROVE  /\ ChannelOf[lockq'[d][i]] = d
                            /\ IF i = 1 THEN pc'[lockq'[d][i]] \in Inside
                               ELSE pc'[lockq'[d][i]] = "queued"
          OBVIOUS
        <5>1. CASE i \in DOMAIN q
          BY <3>1, <3>4, <4>1, <5>1
        <5>2. CASE i = Len(q) + 1
          BY <3>4, <4>1, <4>4, <5>2 DEF Inside
        <5> QED
          BY <4>2, <5>1, <5>2
      <4>6. \A i, j \in DOMAIN lockq'[d] : lockq'[d][i] = lockq'[d][j] => i = j
        <5>1. \A i, j \in DOMAIN q : q[i] = q[j] => i = j
          BY <3>1, <3>4
        <5> SUFFICES ASSUME NEW i \in DOMAIN lockq'[d], NEW j \in DOMAIN lockq'[d],
                            lockq'[d][i] = lockq'[d][j]
                     PROVE  i = j
          OBVIOUS
        <5> HIDE DEF q, c
        <5>2. CASE i \in DOMAIN q /\ j \in DOMAIN q
          BY <4>1, <5>1, <5>2
        <5>3. CASE i = Len(q) + 1 \/ j = Len(q) + 1
          BY <4>1, <4>2, <4>3, <5>3
        <5> QED
          BY <4>2, <5>2, <5>3
      <4>7. Len(q) + 1 \in DOMAIN lockq'[d] /\ \A i \in DOMAIN q : i \in DOMAIN lockq'[d]
        BY <1>1, <4>1
      <4>8. \A t \in Send : ChannelOf[t] = d /\ pc'[t] \in Inside \cup {"queued"} =>
              \E i \in DOMAIN lockq'[d] : lockq'[d][i] = t
        BY <3>2, <3>4, <4>1, <4>7
      <4> QED
        BY <4>5, <4>6, <4>8
    <3> QED
      BY <3>3, <3>4
  <2> QED
    BY <1>3, <2>1, <2>2, <2>4 DEF TypeOK
<1> QED
  BY <1>2, <1>3 DEF Filtered

-----------------------------------------------------------------------------
(* Every action keeps the types and the lock. *)

\* The parts of TypeOK a step of a call inside the lock may leave alone.
LEMMA KeepBucketType ==
  ASSUME OutboxAssumption, TypeOK, NEW s \in Send, NEW b,
         b \in [cap : Capacities, level : Nat], b.level <= b.cap * Per,
         bucket' = [bucket EXCEPT ![ChannelOf[s]] = b]
  PROVE  /\ bucket' \in [Channel -> [cap : Capacities, level : Nat]]
         /\ \A c \in Channel : bucket'[c].level <= bucket'[c].cap * Per
BY DEF OutboxAssumption, TypeOK

LEMMA BeginInv ==
  ASSUME OutboxAssumption, IInv, NEW s \in Send, Begin(s)
  PROVE  IInv'
<1> USE DEF IInv
<1>1. PICK h \in Holds : IF h > 0
                         THEN /\ pc' = [pc EXCEPT ![s] = "holding"]
                              /\ timer' = [timer EXCEPT ![s] = h]
                              /\ UNCHANGED <<results, lockq>>
                         ELSE Filtered(s) /\ UNCHANGED timer
  BY DEF Begin
<1>2. h \in Nat /\ pc[s] = "idle"
  BY DEF OutboxAssumption, Begin
<1>3. timer' \in [Send -> Nat]
  BY <1>1, <1>2 DEF TypeOK
<1>4. /\ lockq' \in [Channel -> Seq(Send)]
      /\ pc' \in [Send -> Location]
      /\ results' \in [Send -> Seq(Row)]
      /\ LockDiscipline'
  <2>1. CASE h > 0
    <3>1. "holding" \in Location /\ {"holding", "idle"} \cap (Inside \cup {"queued"}) = {}
      BY DEF Location, Inside
    <3>2. pc' \in [Send -> Location] /\ LockDiscipline'
      BY <1>1, <1>2, <2>1, <3>1, MoveKeepsLock
    <3> QED
      BY <1>1, <2>1, <3>2 DEF TypeOK
  <2>2. CASE ~(h > 0)
    BY <1>1, <1>2, <2>2, EnterKeepsLock
  <2> QED
    BY <2>1, <2>2
<1> QED
  BY <1>3, <1>4 DEF TypeOK, Begin

LEMMA HoldOverInv ==
  ASSUME OutboxAssumption, IInv, NEW s \in Send, HoldOver(s)
  PROVE  IInv'
<1>1. /\ lockq' \in [Channel -> Seq(Send)]
      /\ pc' \in [Send -> Location]
      /\ results' \in [Send -> Seq(Row)]
      /\ LockDiscipline'
  BY EnterKeepsLock DEF HoldOver, IInv
<1> QED
  BY <1>1 DEF HoldOver, IInv, TypeOK

\* The two ways out of the lock with a dropped message.
LEMMA DropOutInv ==
  ASSUME OutboxAssumption, IInv, NEW s \in Send, NEW o \in Outcome, AtBucket(s),
         Drop(s, o), Release(s), KeepBucket(s),
         UNCHANGED <<timer, age, part, rate, last, invalid, handed>>
  PROVE  IInv'
<1>1. pc[s] \in Inside
  BY DEF AtBucket, Inside
<1>2. /\ lockq' \in [Channel -> Seq(Send)]
      /\ pc' \in [Send -> Location]
      /\ LockDiscipline'
  BY <1>1, ReleaseKeepsLock DEF IInv
<1>3. results' \in [Send -> Seq(Row)]
  <2>1. [outcome |-> o, linked |-> FALSE] \in Row
    BY DEF Row
  <2>2. results \in [Send -> Seq(Row)]
    BY DEF IInv, TypeOK
  <2> QED
    BY <2>1, <2>2 DEF Drop
<1>4. /\ bucket' \in [Channel -> [cap : Capacities, level : Nat]]
      /\ \A c \in Channel : bucket'[c].level <= bucket'[c].cap * Per
  BY BucketAtType, KeepBucketType DEF KeepBucket, IInv
<1> QED
  BY <1>2, <1>3, <1>4 DEF IInv, TypeOK

LEMMA SleepInv ==
  ASSUME OutboxAssumption, IInv, NEW s \in Send, Sleep(s)
  PROVE  IInv'
<1>1. pc[s] \in Inside /\ "waiting" \in Inside /\ "waiting" \in Location
  BY DEF Sleep, AtBucket, Inside, Location
<1>2. pc' \in [Send -> Location] /\ LockDiscipline'
  BY <1>1, MoveKeepsLock DEF Sleep, IInv
<1>3. timer' \in [Send -> Nat]
  BY BucketAtType DEF Sleep, IInv, TypeOK
<1>4. /\ bucket' \in [Channel -> [cap : Capacities, level : Nat]]
      /\ \A c \in Channel : bucket'[c].level <= bucket'[c].cap * Per
  BY BucketAtType, KeepBucketType DEF Sleep, KeepBucket, IInv
<1> QED
  BY <1>2, <1>3, <1>4 DEF Sleep, IInv, TypeOK

\* A chunk's wording is a wording.
LEMMA WordingType ==
  ASSUME OutboxAssumption, TypeOK, NEW s \in Send
  PROVE  WordingOf(s, part[s]) \in Wording
<1>1. part[s] \in 1..Len(Parts[s]) /\ Parts[s] \in Seq(STRING)
  BY PartType
<1>2. Parts[s][part[s]] \in STRING
  BY <1>1
<1> QED
  BY <1>2 DEF WordingOf, Wording

LEMMA HandOverInv ==
  ASSUME OutboxAssumption, IInv, NEW s \in Send, HandOver(s)
  PROVE  IInv'
<1>1. pc[s] \in Inside /\ "sending" \in Inside /\ "sending" \in Location
  BY DEF HandOver, AtBucket, Inside, Location
<1>2. pc' \in [Send -> Location] /\ LockDiscipline'
  BY <1>1, MoveKeepsLock DEF HandOver, IInv
<1>3. /\ bucket' \in [Channel -> [cap : Capacities, level : Nat]]
      /\ \A c \in Channel : bucket'[c].level <= bucket'[c].cap * Per
  <2> DEFINE b == BucketAt(s)
  <2>1. b \in [cap : Capacities, level : Nat] /\ b.level <= b.cap * Per /\ b.level >= Per
    BY BucketAtType DEF HandOver, IInv
  <2>2. b.cap * Per \in Nat /\ Per \in Nat
    BY <2>1, CapacityType
  <2>3. Take(b) = [cap |-> b.cap, level |-> b.level - Per]
    BY <2>1 DEF Take
  <2>4. Take(b) \in [cap : Capacities, level : Nat] /\ Take(b).cap = b.cap
        /\ Take(b).level = b.level - Per
    BY <2>1, <2>2, <2>3
  <2>5. Take(b).level <= Take(b).cap * Per
    <3> HIDE DEF b
    <3>1. b.level \in Nat
      BY <2>1
    <3>2. b.level - Per <= b.cap * Per
      BY <2>1, <2>2, <3>1
    <3> QED
      BY <2>4, <3>2
  <2> QED
    BY <2>4, <2>5, KeepBucketType DEF HandOver, IInv
<1>4. handed' \in [Channel -> Seq(Handed)]
  <2>1. [send |-> s, part |-> part[s], wording |-> WordingOf(s, part[s]), ago |-> 0] \in Handed
    BY WordingType, PartType, 0 \in 0..Per DEF Handed, IInv
  <2> QED
    BY <2>1 DEF HandOver, IInv, TypeOK, OutboxAssumption
<1> QED
  BY <1>2, <1>3, <1>4 DEF HandOver, IInv, TypeOK

LEMMA AnswerInv ==
  ASSUME OutboxAssumption, IInv, NEW s \in Send, Answer(s)
  PROVE  IInv'
<1> DEFINE c == ChannelOf[s]
<1>1. PICK o \in Answers :
        /\ Report(s, o)
        /\ last' = IF o = "sent" THEN [last EXCEPT ![c] = WordingOf(s, part[s])] ELSE last
        /\ IF o = "banned"
           THEN pc' = [pc EXCEPT ![s] = "leaving"] /\ UNCHANGED <<part, lockq>>
           ELSE IF part[s] < Len(Parts[s])
           THEN /\ part' = [part EXCEPT ![s] = @ + 1]
                /\ pc' = [pc EXCEPT ![s] = "ready"]
                /\ UNCHANGED lockq
           ELSE Release(s) /\ UNCHANGED part
  BY DEF Answer
<1>2. results' \in [Send -> Seq(Row)]
  BY <1>1 DEF Report, IInv, TypeOK, Row, Outcome, OutboxAssumption
<1>3. last' \in [Channel -> Wording \cup {NoText}]
  BY <1>1, WordingType DEF IInv, TypeOK, OutboxAssumption
<1>4. pc[s] \in Inside /\ {"leaving", "ready"} \subseteq Inside
      /\ {"leaving", "ready"} \subseteq Location
  BY DEF Answer, Inside, Location
<1>5. /\ lockq' \in [Channel -> Seq(Send)]
      /\ pc' \in [Send -> Location]
      /\ LockDiscipline'
  <2>1. CASE o = "banned"
    BY <1>1, <1>4, <2>1, MoveKeepsLock DEF IInv, TypeOK
  <2>2. CASE o # "banned" /\ part[s] < Len(Parts[s])
    BY <1>1, <1>4, <2>2, MoveKeepsLock DEF IInv, TypeOK
  <2>3. CASE o # "banned" /\ ~(part[s] < Len(Parts[s]))
    BY <1>1, <1>4, <2>3, ReleaseKeepsLock DEF IInv
  <2> QED
    BY <2>1, <2>2, <2>3
<1>6. part' \in [Send -> {1, 2}] /\ \A t \in Send : part'[t] <= Len(Parts[t])
  <2>1. part \in [Send -> {1, 2}]
    BY DEF IInv, TypeOK
  <2>2. UNCHANGED part \/ (part[s] < Len(Parts[s]) /\ part' = [part EXCEPT ![s] = @ + 1])
    BY <1>1
  <2> QED
    <3>1. \A t \in Send : part[t] \in {1, 2} /\ part[t] <= Len(Parts[t]) /\ Len(Parts[t]) \in {1, 2}
      BY PartType DEF IInv
    <3>2. CASE UNCHANGED part
      BY <2>1, <3>1, <3>2
    <3>3. CASE part[s] < Len(Parts[s]) /\ part' = [part EXCEPT ![s] = @ + 1]
      <4>1. part[s] + 1 \in {1, 2} /\ part[s] + 1 <= Len(Parts[s])
        <5>1. part[s] = 1 \/ part[s] = 2
          BY <3>1
        <5>2. Len(Parts[s]) = 1 \/ Len(Parts[s]) = 2
          BY <3>1
        <5> QED
          BY <3>3, <5>1, <5>2, Succ
      <4> QED
        BY <2>1, <3>1, <3>3, <4>1
    <3> QED
      BY <2>2, <3>2, <3>3
<1> QED
  BY <1>2, <1>3, <1>5, <1>6 DEF Answer, IInv, TypeOK

LEMMA LeftInv ==
  ASSUME OutboxAssumption, IInv, NEW s \in Send, Left(s)
  PROVE  IInv'
<1>1. pc[s] \in Inside
  BY DEF Left, Inside
<1>2. /\ lockq' \in [Channel -> Seq(Send)]
      /\ pc' \in [Send -> Location]
      /\ LockDiscipline'
  BY <1>1, ReleaseKeepsLock DEF Left, IInv
<1> QED
  BY <1>2 DEF Left, IInv, TypeOK

LEMMA TickInv ==
  ASSUME OutboxAssumption, IInv, Tick
  PROVE  IInv'
<1>1. timer' \in [Send -> Nat]
  BY DEF Tick, IInv, TypeOK
<1>2. age' \in [Send -> 0..(Ttl + 1)]
  BY DEF Tick, IInv, TypeOK, OutboxAssumption
<1>3. ASSUME NEW c \in Channel
      PROVE  /\ bucket'[c] \in [cap : Capacities, level : Nat]
             /\ bucket'[c].level <= bucket'[c].cap * Per
  <2> DEFINE b == bucket[c]
             full == b.cap * Per
  <2>1. b \in [cap : Capacities, level : Nat] /\ b.level <= full
    BY DEF IInv, TypeOK
  <2>2. full \in Nat /\ b.cap \in Nat
    BY <2>1, CapacityType
  <2>3. bucket'[c] = [cap |-> b.cap,
                      level |-> IF b.level + b.cap > full THEN full ELSE b.level + b.cap]
    BY <2>1 DEF Tick, Refill
  <2>4. bucket'[c].cap * Per = full
    BY <2>3
  <2> HIDE DEF full
  <2> QED
    BY <2>1, <2>2, <2>3, <2>4
<1>4. bucket' = [c \in Channel |-> bucket'[c]]
  BY DEF Tick
<1>5. handed' \in [Channel -> Seq(Handed)]
  <2>1. ASSUME NEW c \in Channel
        PROVE  [i \in DOMAIN handed[c] |->
                  [handed[c][i] EXCEPT !.ago = IF @ < Per THEN @ + 1 ELSE @]] \in Seq(Handed)
    <3>1. handed[c] \in Seq(Handed)
      BY DEF IInv, TypeOK
    <3>2. \A h \in Handed : [h EXCEPT !.ago = IF @ < Per THEN @ + 1 ELSE @] \in Handed
      <4>1. Per \in Nat
        BY DEF OutboxAssumption
      <4>2. \A h \in Handed :
              /\ h.ago \in 0..Per
              /\ [h EXCEPT !.ago = IF @ < Per THEN @ + 1 ELSE @] =
                 [send |-> h.send, part |-> h.part, wording |-> h.wording,
                  ago |-> IF h.ago < Per THEN h.ago + 1 ELSE h.ago]
        BY SMTT(60) DEF Handed
      <4> QED
        BY <4>1, <4>2 DEF Handed
    <3> QED
      BY <3>1, <3>2
  <2> QED
    BY <2>1 DEF Tick
<1>6. LockDiscipline'
  BY DEF Tick, IInv, LockDiscipline
<1> QED
  BY <1>1, <1>2, <1>3, <1>4, <1>5, <1>6 DEF Tick, IInv, TypeOK

\* What a change of rate does to the transcript keeps its type.
LEMMA ForgetType ==
  ASSUME OutboxAssumption, TypeOK, NEW c \in Channel, ChangeRate(c)
  PROVE  handed' \in [Channel -> Seq(Handed)]
<1>1. ASSUME NEW d \in Channel
      PROVE  [i \in DOMAIN handed[d] |->
                [handed[d][i] EXCEPT !.ago = IF d = c THEN Per ELSE @]] \in Seq(Handed)
  <2>1. handed[d] \in Seq(Handed)
    BY DEF TypeOK
  <2>2. CASE d = c
    <3>1. \A h \in Handed : [h EXCEPT !.ago = Per] \in Handed
      BY DEF OutboxAssumption, Handed
    <3>2. [i \in DOMAIN handed[d] |-> [handed[d][i] EXCEPT !.ago = Per]] \in Seq(Handed)
      BY <2>1, <3>1
    <3> QED
      BY <2>2, <3>2
  <2>3. CASE d # c
    <3>1. \A h \in Handed : [h EXCEPT !.ago = @] = h
      BY DEF Handed
    <3>2. \A i \in DOMAIN handed[d] : [handed[d][i] EXCEPT !.ago = @] = handed[d][i]
      BY <2>1, <3>1
    <3>3. [i \in DOMAIN handed[d] |-> [handed[d][i] EXCEPT !.ago = @]] =
            [i \in DOMAIN handed[d] |-> handed[d][i]]
      BY <3>2
    <3>4. [i \in DOMAIN handed[d] |-> handed[d][i]] = handed[d]
      BY <2>1
    <3> QED
      BY <2>1, <2>3, <3>3, <3>4
  <2> QED
    BY <2>2, <2>3
<1> QED
  BY <1>1 DEF ChangeRate

-----------------------------------------------------------------------------

THEOREM InitInv ==
  ASSUME OutboxAssumption, Init
  PROVE  IInv
<1>1. \A c \in Channel : rate[c] \in Nat /\ rate[c] * Per \in Nat
  BY CapacityType DEF Init
<1>2. bucket \in [Channel -> [cap : Capacities, level : Nat]]
  BY <1>1 DEF Init
<1>3. \A c \in Channel : bucket[c].level <= bucket[c].cap * Per
  <2> SUFFICES ASSUME NEW c \in Channel
               PROVE  bucket[c].level <= bucket[c].cap * Per
    OBVIOUS
  <2> DEFINE full == rate[c] * Per
  <2>1. bucket[c].level = full /\ bucket[c].cap * Per = full /\ full \in Nat
    BY <1>1 DEF Init
  <2> HIDE DEF full
  <2> QED
    BY <2>1
<1>4. LockDiscipline
  <2>1. \A c \in Channel : lockq[c] = <<>>
    BY DEF Init
  <2>2. \A s \in Send : pc[s] \notin Inside \cup {"queued"}
    BY DEF Init, Inside
  <2> QED
    <3>1. ASSUME NEW c \in Channel
          PROVE  DOMAIN lockq[c] = {}
      BY <2>1
    <3> QED
      BY <2>2, <3>1 DEF LockDiscipline
<1>5. part \in [Send -> {1, 2}] /\ \A s \in Send : part[s] <= Len(Parts[s])
  <2>1. \A s \in Send : part[s] = 1 /\ Len(Parts[s]) \in {1, 2}
    BY DEF Init, OutboxAssumption
  <2> QED
    <3>1. part = [s \in Send |-> 1]
      BY DEF Init
    <3>2. part \in [Send -> {1, 2}]
      BY <3>1
    <3> QED
      <4>1. \A s \in Send : Len(Parts[s]) = 1 \/ Len(Parts[s]) = 2
        BY <2>1
      <4>2. \A s \in Send : part[s] = 1
        BY <2>1
      <4>3. \A s \in Send : part[s] <= Len(Parts[s])
        BY <4>1, <4>2
      <4> QED
        BY <3>2, <4>3
<1>6. age \in [Send -> 0..(Ttl + 1)]
  BY DEF Init, OutboxAssumption
<1>7. /\ pc \in [Send -> Location] /\ timer \in [Send -> Nat]
      /\ results \in [Send -> Seq(Row)] /\ lockq \in [Channel -> Seq(Send)]
      /\ rate \in [Channel -> Capacities] /\ invalid \in [Send -> BOOLEAN]
      /\ last \in [Channel -> Wording \cup {NoText}] /\ handed \in [Channel -> Seq(Handed)]
  BY DEF Init, Location
<1> QED
  BY <1>2, <1>3, <1>4, <1>5, <1>6, <1>7 DEF IInv, TypeOK

THEOREM NextInv ==
  ASSUME OutboxAssumption, IInv, [Next]_vars
  PROVE  IInv'
<1>1. ASSUME NEW s \in Send, Begin(s)
      PROVE  IInv'
  BY <1>1, BeginInv
<1>2. ASSUME NEW s \in Send, SendStep(s)
      PROVE  IInv'
  <2>1. CASE Expire(s)
    BY <2>1, DropOutInv DEF Expire, Outcome
  <2>2. CASE Moderated(s)
    BY <2>2, DropOutInv DEF Moderated, Outcome
  <2> QED
    BY <1>2, <2>1, <2>2, HoldOverInv, SleepInv, HandOverInv, AnswerInv, LeftInv DEF SendStep
<1>3. ASSUME NEW s \in Send, Invalidate(s)
      PROVE  IInv'
  BY <1>3 DEF Invalidate, IInv, TypeOK, LockDiscipline
<1>4. ASSUME NEW c \in Channel, ChangeRate(c)
      PROVE  IInv'
  <2>1. handed' \in [Channel -> Seq(Handed)]
    BY <1>4, ForgetType DEF IInv
  <2>2. rate' \in [Channel -> Capacities]
    BY <1>4 DEF ChangeRate, IInv, TypeOK
  <2>3. TypeOK'
    BY <1>4, <2>1, <2>2 DEF ChangeRate, IInv, TypeOK
  <2>4. LockDiscipline'
    BY <1>4 DEF ChangeRate, IInv, LockDiscipline
  <2> QED
    BY <2>3, <2>4 DEF IInv
<1>5. CASE Tick
  BY <1>5, TickInv
<1>6. CASE UNCHANGED vars
  BY <1>6 DEF vars, IInv, TypeOK, LockDiscipline
<1> QED
  BY <1>1, <1>2, <1>3, <1>4, <1>5, <1>6 DEF Next

\* For every set of calls and channels, whatever is held, slept, refused or
\* invalidated in between: the variables keep their types (no bucket goes below
\* zero or above its capacity) and the channel lock is always passed on.
THEOREM LockSafety ==
  ASSUME OutboxAssumption
  PROVE  Spec => [](TypeOK /\ LockDiscipline)
<1>1. Init => IInv
  BY InitInv
<1>2. IInv /\ [Next]_vars => IInv'
  BY NextInv
<1>3. IInv => TypeOK /\ LockDiscipline
  BY DEF IInv
<1> QED
  BY <1>1, <1>2, <1>3, PTL DEF Spec

-----------------------------------------------------------------------------
(* The order of the chunks. *)

Order == Together /\ Contiguous

\* Steps that hand nothing over and move no call back, nor to another chunk
\* without having handed over the one before.
LEMMA OrderKept ==
  ASSUME OutboxAssumption, IInv, Order, UNCHANGED handed,
         \A t \in Send : pc'[t] \in {"idle", "holding", "queued"} =>
           pc[t] \in {"idle", "holding", "queued"},
         \A t \in Send : pc'[t] \in Inside =>
           \/ pc[t] = "queued"
           \/ pc[t] \in {"idle", "holding"}
           \/ /\ pc[t] \in Inside /\ part'[t] = part[t]
              /\ pc'[t] \in {"ready", "waiting"} => pc[t] \in {"ready", "waiting"}
           \/ pc[t] \in Inside /\ part'[t] = part[t] + 1
  PROVE  Order'
<1>1. Contiguous'
  BY DEF Order, Contiguous
<1>2. ASSUME NEW t \in Send, pc'[t] \in {"idle", "holding", "queued"}
      PROVE  \A i \in DOMAIN handed[ChannelOf[t]] : handed[ChannelOf[t]][i].send # t
  BY <1>2 DEF Order, Together
<1>3. ASSUME NEW t \in Send, pc'[t] \in Inside,
             NEW i \in DOMAIN handed[ChannelOf[t]], handed[ChannelOf[t]][i].send = t
      PROVE  /\ handed[ChannelOf[t]][i].part <= part'[t]
             /\ pc'[t] \in {"ready", "waiting"} => handed[ChannelOf[t]][i].part < part'[t]
             /\ \A k \in i..Len(handed[ChannelOf[t]]) : handed[ChannelOf[t]][k].send = t
  <2>1. pc[t] \in Inside
    BY <1>3 DEF Order, Together
  <2>2. /\ handed[ChannelOf[t]][i].part <= part[t]
        /\ pc[t] \in {"ready", "waiting"} => handed[ChannelOf[t]][i].part < part[t]
        /\ \A k \in i..Len(handed[ChannelOf[t]]) : handed[ChannelOf[t]][k].send = t
    BY <1>3, <2>1 DEF Order, Together
  <2>3. handed[ChannelOf[t]][i].part \in 1..2
    <3>1. handed[ChannelOf[t]] \in Seq(Handed)
      BY PartType DEF IInv, TypeOK
    <3> QED
      <4>1. handed[ChannelOf[t]][i] \in Handed
        BY <1>3, <3>1
      <4> QED
        BY <4>1 DEF Handed
  <2>4. part[t] \in Nat
    BY PartType DEF IInv
  <2>5. part'[t] = part[t] \/ part'[t] = part[t] + 1
    BY <1>3, <2>1 DEF Inside
  <2>6. part'[t] = part[t] => (pc'[t] \in {"ready", "waiting"} => pc[t] \in {"ready", "waiting"})
    BY <1>3, <2>1, <2>4 DEF Inside
  <2>7. CASE part'[t] = part[t]
    BY <2>2, <2>6, <2>7
  <2>8. CASE part'[t] = part[t] + 1
    BY <2>2, <2>3, <2>4, <2>8
  <2> QED
    BY <2>5, <2>7, <2>8
<1>4. Together'
  BY <1>2, <1>3 DEF Together
<1> QED
  BY <1>1, <1>4 DEF Order

\* Handing a chunk over puts it behind the chunks of the same call, or first.
LEMMA HandOverOrder ==
  ASSUME OutboxAssumption, IInv, Order, NEW s \in Send, HandOver(s)
  PROVE  Order'
<1> DEFINE c == ChannelOf[s]
           h == handed[c]
           e == [send |-> s, part |-> part[s], wording |-> WordingOf(s, part[s]), ago |-> 0]
<1>1. /\ c \in Channel
      /\ h \in Seq(Handed)
      /\ handed' = [handed EXCEPT ![c] = Append(h, e)]
      /\ pc[s] \in {"ready", "waiting"}
      /\ part' = part
      /\ pc' = [pc EXCEPT ![s] = "sending"]
  BY PartType DEF HandOver, AtBucket, IInv, TypeOK
<1>2. /\ handed'[c] = Append(h, e)
      /\ \A d \in Channel : d # c => handed'[d] = handed[d]
      /\ pc'[s] = "sending" /\ \A t \in Send : t # s => pc'[t] = pc[t]
  BY <1>1 DEF IInv, TypeOK
<1>3. /\ Len(handed'[c]) = Len(h) + 1 /\ DOMAIN handed'[c] = 1..(Len(h) + 1)
      /\ \A i \in 1..Len(h) : handed'[c][i] = h[i]
      /\ handed'[c][Len(h) + 1] = e
      /\ DOMAIN h = 1..Len(h) /\ Len(h) \in Nat
  <2> HIDE DEF e, h
  <2> QED
    BY <1>1, <1>2
<1>4. e.send = s /\ e.part = part[s] /\ part[s] \in Nat
  BY PartType DEF IInv
<1>5. \A i \in 1..Len(h) : h[i].send = s =>
        h[i].part < part[s] /\ \A k \in i..Len(h) : h[k].send = s
  BY <1>1 DEF Order, Together, Inside
<1>6. \A i \in 1..Len(h) : h[i].part \in 1..2
  <2>1. \A i \in 1..Len(h) : h[i] \in Handed
    BY <1>1
  <2>2. \A x \in Handed : x.part \in 1..2
    BY DEF Handed
  <2> QED
    BY <2>1, <2>2
<1> HIDE DEF e
<1>7. Together'
  <2>1. ASSUME NEW t \in Send, pc'[t] \in {"idle", "holding", "queued"}
        PROVE  \A i \in DOMAIN handed'[ChannelOf[t]] : handed'[ChannelOf[t]][i].send # t
    <3>1. t # s /\ pc[t] \in {"idle", "holding", "queued"} /\ ChannelOf[t] \in Channel
      BY <1>2, <2>1, PartType DEF IInv
    <3>2. \A i \in DOMAIN handed[ChannelOf[t]] : handed[ChannelOf[t]][i].send # t
      BY <3>1 DEF Order, Together
    <3>3. CASE ChannelOf[t] = c
      <4> SUFFICES ASSUME NEW i \in DOMAIN handed'[c]
                   PROVE  handed'[c][i].send # t
        BY <3>3
      <4>1. i \in 1..Len(h) \/ i = Len(h) + 1
        BY <1>3
      <4>2. \A j \in 1..Len(h) : h[j].send # t
        BY <1>3, <3>2, <3>3
      <4> HIDE DEF h, c
      <4> QED
        BY <1>3, <1>4, <3>1, <4>1, <4>2
    <3>4. CASE ChannelOf[t] # c
      BY <1>2, <3>1, <3>2, <3>4
    <3> QED
      BY <3>3, <3>4
  <2>2. ASSUME NEW t \in Send, pc'[t] \in Inside, t # s
        PROVE  \A i \in DOMAIN handed'[ChannelOf[t]] : handed'[ChannelOf[t]][i].send = t =>
                 /\ handed'[ChannelOf[t]][i].part <= part'[t]
                 /\ pc'[t] \in {"ready", "waiting"} => handed'[ChannelOf[t]][i].part < part'[t]
                 /\ \A k \in i..Len(handed'[ChannelOf[t]]) : handed'[ChannelOf[t]][k].send = t
    <3>1. pc[t] \in Inside /\ pc[s] \in Inside /\ pc'[t] = pc[t]
      BY <1>1, <1>2, <2>2 DEF Inside
    <3>2. ChannelOf[t] # c /\ ChannelOf[t] \in Channel
      BY <2>2, <3>1, HolderFirst, PartType DEF IInv
    <3> QED
      BY <1>1, <1>2, <3>1, <3>2 DEF Order, Together
  <2>3. \A i \in DOMAIN handed'[c] : handed'[c][i].send = s =>
          /\ handed'[c][i].part <= part'[s]
          /\ \A k \in i..Len(handed'[c]) : handed'[c][k].send = s
    <3> SUFFICES ASSUME NEW i \in DOMAIN handed'[c], handed'[c][i].send = s
                 PROVE  /\ handed'[c][i].part <= part[s]
                        /\ \A k \in i..Len(handed'[c]) : handed'[c][k].send = s
      BY <1>1
    <3> HIDE DEF h, c
    <3>1. CASE i \in 1..Len(h)
      <4>1. h[i].send = s /\ handed'[c][i] = h[i] /\ h[i].part \in 1..2
        BY <1>3, <1>6, <3>1
      <4>2. h[i].part < part[s]
        BY <1>5, <3>1, <4>1
      <4>3. \A k \in i..Len(handed'[c]) : k \in i..Len(h) \/ k = Len(h) + 1
        BY <1>3, <3>1
      <4>4. \A k \in i..Len(h) : handed'[c][k].send = s
        BY <1>3, <1>5, <3>1, <4>1
      <4> QED
        BY <1>3, <1>4, <4>1, <4>2, <4>3, <4>4
    <3>2. CASE i = Len(h) + 1
      BY <1>3, <1>4, <3>2
    <3> QED
      BY <1>3, <3>1, <3>2
  <2> QED
    <3>1. ASSUME NEW t \in Send, pc'[t] \in Inside
          PROVE  \A i \in DOMAIN handed'[ChannelOf[t]] : handed'[ChannelOf[t]][i].send = t =>
                   /\ handed'[ChannelOf[t]][i].part <= part'[t]
                   /\ pc'[t] \in {"ready", "waiting"} => handed'[ChannelOf[t]][i].part < part'[t]
                   /\ \A k \in i..Len(handed'[ChannelOf[t]]) : handed'[ChannelOf[t]][k].send = t
      <4>1. CASE t = s
        BY <1>2, <2>3, <4>1
      <4>2. CASE t # s
        BY <2>2, <3>1, <4>2
      <4> QED
        BY <4>1, <4>2
    <3> HIDE DEF h, c
    <3> QED
      BY <2>1, <3>1 DEF Together
<1>8. Contiguous'
  <2> SUFFICES ASSUME NEW d \in Channel, NEW i \in DOMAIN handed'[d], NEW j \in DOMAIN handed'[d],
                      i < j, handed'[d][i].send = handed'[d][j].send,
                      NEW k \in i..(j - 1)
               PROVE  /\ handed'[d][k + 1].send = handed'[d][i].send
                      /\ handed'[d][k].part < handed'[d][k + 1].part
    BY DEF Contiguous
  <2>1. CASE d # c
    <3>1. handed'[d] = handed[d]
      BY <1>2, <2>1
    <3>2. \A a, b \in DOMAIN handed[d] : (a < b /\ handed[d][a].send = handed[d][b].send) =>
            \A m \in a..(b - 1) : /\ handed[d][m + 1].send = handed[d][a].send
                                  /\ handed[d][m].part < handed[d][m + 1].part
      BY DEF Order, Contiguous
    <3> HIDE DEF h, c
    <3> QED
      BY <3>1, <3>2
  <2>2. CASE d = c
    <3>1. \A a, b \in 1..Len(h) : (a < b /\ h[a].send = h[b].send) =>
            \A m \in a..(b - 1) : h[m + 1].send = h[a].send /\ h[m].part < h[m + 1].part
      BY <1>1, <1>3 DEF Order, Contiguous
    <3> HIDE DEF h, c
    <3>2. i \in 1..Len(h) /\ k \in 1..Len(h) /\ k \in Nat /\ i <= k
      BY <1>3, <2>2
    <3>3. CASE j \in 1..Len(h)
      <4>1. k + 1 \in 1..Len(h)
        BY <1>3, <3>2, <3>3
      <4> QED
        BY <1>3, <2>2, <3>1, <3>2, <3>3, <4>1, SMTT(60)
    <3>4. CASE j = Len(h) + 1
      <4>1. handed'[d][i] = h[i] /\ h[i].send = s
        BY <1>3, <1>4, <2>2, <3>2, <3>4
      <4>2. \A m \in i..Len(h) : h[m].send = s
        BY <1>5, <3>2, <4>1
      <4>3. CASE k < Len(h)
        <5>1. Len(h) \in 1..Len(h) /\ i < Len(h) /\ k \in i..(Len(h) - 1) /\ Len(h) \in i..Len(h)
          BY <1>3, <3>2, <4>3
        <5>2. h[Len(h)].send = h[i].send
          BY <4>1, <4>2, <5>1
        <5>3. h[k + 1].send = h[i].send /\ h[k].part < h[k + 1].part
          BY <3>1, <3>2, <5>1, <5>2
        <5>4. k + 1 \in 1..Len(h)
          BY <1>3, <3>2, <4>3
        <5> QED
          BY <1>3, <2>2, <3>2, <4>1, <5>3, <5>4
      <4>4. CASE k = Len(h)
        <5>1. h[k].send = s /\ h[k].part < part[s]
          BY <1>3, <1>5, <3>2, <4>2, <4>4
        <5> QED
          BY <1>3, <1>4, <2>2, <3>2, <4>1, <4>4, <5>1
      <4> QED
        <5>1. Len(h) \in Nat /\ k \in Nat /\ k <= Len(h)
          BY <1>3, <3>2
        <5>2. k < Len(h) \/ k = Len(h)
          BY <5>1
        <5> QED
          BY <4>3, <4>4, <5>2
    <3> QED
      BY <1>3, <2>2, <3>3, <3>4
  <2> QED
    BY <2>1, <2>2
<1> QED
  BY <1>7, <1>8 DEF Order

THEOREM NextOrder ==
  ASSUME OutboxAssumption, IInv, Order, [Next]_vars
  PROVE  Order'
<1> DEFINE Out == {"idle", "holding", "queued"}
           Before == {"ready", "waiting"}
           Kept == /\ UNCHANGED handed
                   /\ \A t \in Send : pc'[t] \in Out => pc[t] \in Out
                   /\ \A t \in Send : pc'[t] \in Inside =>
                        \/ pc[t] \in Out
                        \/ /\ pc[t] \in Inside /\ part'[t] = part[t]
                           /\ pc'[t] \in Before => pc[t] \in Before
                        \/ pc[t] \in Inside /\ part'[t] = part[t] + 1
           SameTranscript ==
             /\ UNCHANGED <<pc, part>>
             /\ \A c \in Channel : /\ DOMAIN handed'[c] = DOMAIN handed[c]
                                   /\ Len(handed'[c]) = Len(handed[c])
                                   /\ \A i \in DOMAIN handed[c] : /\ handed'[c][i].send = handed[c][i].send
                                                                  /\ handed'[c][i].part = handed[c][i].part
<1>1. Kept => Order'
  BY OrderKept
<1>2. ASSUME NEW s \in Send, Release(s), pc[s] \in Inside, UNCHANGED <<handed, part>>
      PROVE  Kept
  <2>1. \A t \in Send : pc'[t] = "done" \/ pc'[t] = pc[t]
          \/ (pc'[t] = "ready" /\ pc[t] = "queued")
    <3>1. ChannelOf[s] \in Channel /\ lockq[ChannelOf[s]] \in Seq(Send)
      BY PartType DEF IInv, TypeOK
    <3>2. Len(lockq[ChannelOf[s]]) > 1 => pc[lockq[ChannelOf[s]][2]] = "queued"
      BY <3>1 DEF IInv, LockDiscipline
    <3> QED
      BY <1>2, <3>2 DEF Release
  <2> QED
    BY <1>2, <2>1 DEF Inside
<1>3. ASSUME NEW s \in Send, NEW p \in Location, pc' = [pc EXCEPT ![s] = p],
             pc[s] \notin {"queued", "done"},
             p \in Out => pc[s] \in Out,
             p \in Before => pc[s] \in Out \cup Before,
             UNCHANGED <<handed, part>>
      PROVE  Kept
  BY <1>3 DEF IInv, TypeOK, Inside, Location
<1>4. ASSUME NEW s \in Send, pc[s] \in {"idle", "holding"}, Filtered(s), UNCHANGED <<handed, part>>
      PROVE  Kept
  <2>1. PICK p \in {"done", "ready", "queued"} : pc' = [pc EXCEPT ![s] = p]
    BY <1>4 DEF Filtered
  <2> QED
    BY <1>3, <1>4, <2>1 DEF Location, Inside
<1>5. ASSUME NEW s \in Send, Begin(s)
      PROVE  Kept
  BY <1>3, <1>4, <1>5 DEF Begin, Location
<1>6. ASSUME NEW s \in Send, SendStep(s)
      PROVE  Order'
  <2>1. CASE HoldOver(s)
    BY <1>1, <1>4, <2>1 DEF HoldOver
  <2>2. CASE Expire(s) \/ Moderated(s) \/ Left(s)
    BY <1>1, <1>2, <2>2 DEF Expire, Moderated, Left, AtBucket, Inside
  <2>3. CASE Sleep(s)
    BY <1>1, <1>3, <2>3 DEF Sleep, AtBucket, Location, Inside
  <2>4. CASE HandOver(s)
    BY <2>4, HandOverOrder
  <2>5. CASE Answer(s)
    <3>1. CASE pc' = [pc EXCEPT ![s] = "leaving"] /\ UNCHANGED part
      BY <1>1, <1>3, <2>5, <3>1 DEF Answer, Location, Inside
    <3>2. CASE pc' = [pc EXCEPT ![s] = "ready"] /\ part' = [part EXCEPT ![s] = @ + 1]
      <4>1. Kept
        BY <2>5, <3>2, PartType DEF Answer, IInv, TypeOK, Inside
      <4> QED
        BY <1>1, <4>1
    <3>3. CASE Release(s) /\ UNCHANGED part
      BY <1>1, <1>2, <2>5, <3>3 DEF Answer, Inside
    <3> QED
      BY <2>5, <3>1, <3>2, <3>3 DEF Answer
  <2> QED
    BY <1>6, <2>1, <2>2, <2>3, <2>4, <2>5 DEF SendStep
<1>7. ASSUME UNCHANGED <<pc, part, handed>>
      PROVE  Kept
  BY <1>7
<1>8. ASSUME SameTranscript
      PROVE  Order'
  <2>1. \A c \in Channel : /\ DOMAIN handed'[c] = DOMAIN handed[c]
                           /\ Len(handed'[c]) = Len(handed[c])
                           /\ \A i \in DOMAIN handed[c] : /\ handed'[c][i].send = handed[c][i].send
                                                          /\ handed'[c][i].part = handed[c][i].part
    BY <1>8
  <2>2. pc' = pc /\ part' = part
    BY <1>8
  <2>3. Together'
    <3> SUFFICES ASSUME NEW s \in Send
                 PROVE  LET h == handed'[ChannelOf[s]]
                        IN /\ pc[s] \in {"idle", "holding", "queued"} =>
                                \A i \in DOMAIN h : h[i].send # s
                           /\ pc[s] \in Inside =>
                                \A i \in DOMAIN h : h[i].send = s =>
                                  /\ h[i].part <= part[s]
                                  /\ pc[s] \in {"ready", "waiting"} => h[i].part < part[s]
                                  /\ \A k \in i..Len(h) : h[k].send = s
      BY <2>2 DEF Together
    <3>1. ChannelOf[s] \in Channel /\ handed[ChannelOf[s]] \in Seq(Handed)
      BY PartType DEF IInv, TypeOK
    <3>2. \A i \in DOMAIN handed[ChannelOf[s]] :
            \A k \in i..Len(handed[ChannelOf[s]]) : k \in DOMAIN handed[ChannelOf[s]]
      BY <3>1
    <3>3. /\ pc[s] \in {"idle", "holding", "queued"} =>
               \A i \in DOMAIN handed[ChannelOf[s]] : handed[ChannelOf[s]][i].send # s
          /\ pc[s] \in Inside =>
               \A i \in DOMAIN handed[ChannelOf[s]] : handed[ChannelOf[s]][i].send = s =>
                 /\ handed[ChannelOf[s]][i].part <= part[s]
                 /\ pc[s] \in {"ready", "waiting"} => handed[ChannelOf[s]][i].part < part[s]
                 /\ \A k \in i..Len(handed[ChannelOf[s]]) : handed[ChannelOf[s]][k].send = s
      BY DEF Order, Together
    <3> DEFINE h == handed[ChannelOf[s]]
               g == handed'[ChannelOf[s]]
    <3>4. /\ DOMAIN g = DOMAIN h /\ Len(g) = Len(h)
          /\ \A i \in DOMAIN h : g[i].send = h[i].send /\ g[i].part = h[i].part
          /\ \A i \in DOMAIN h : \A k \in i..Len(h) : k \in DOMAIN h
      BY <2>1, <3>1, <3>2
    <3> HIDE DEF g, h
    <3>5. /\ pc[s] \in {"idle", "holding", "queued"} => \A i \in DOMAIN g : g[i].send # s
          /\ pc[s] \in Inside =>
               \A i \in DOMAIN g : g[i].send = s =>
                 /\ g[i].part <= part[s]
                 /\ pc[s] \in {"ready", "waiting"} => g[i].part < part[s]
                 /\ \A k \in i..Len(g) : g[k].send = s
      BY <3>3, <3>4 DEF h
    <3> QED
      BY <3>5 DEF g
  <2>4. Contiguous'
    <3> SUFFICES ASSUME NEW c \in Channel, NEW i \in DOMAIN handed'[c], NEW j \in DOMAIN handed'[c],
                        i < j, handed'[c][i].send = handed'[c][j].send, NEW k \in i..(j - 1)
                 PROVE  /\ handed'[c][k + 1].send = handed'[c][i].send
                        /\ handed'[c][k].part < handed'[c][k + 1].part
      BY DEF Contiguous
    <3>1. handed[c] \in Seq(Handed) /\ i \in DOMAIN handed[c] /\ j \in DOMAIN handed[c]
          /\ handed[c][i].send = handed[c][j].send
      BY <2>1 DEF IInv, TypeOK
    <3>2. k \in DOMAIN handed[c] /\ k + 1 \in DOMAIN handed[c]
      BY <3>1
    <3>3. handed[c][k + 1].send = handed[c][i].send /\ handed[c][k].part < handed[c][k + 1].part
      BY <3>1 DEF Order, Contiguous
    <3> QED
      BY <2>1, <3>1, <3>2, <3>3
  <2> QED
    BY <2>3, <2>4 DEF Order
<1>9. CASE \E s \in Send : Invalidate(s)
  BY <1>1, <1>7, <1>9 DEF Invalidate
<1>10. ASSUME NEW c \in Channel, ChangeRate(c)
       PROVE  SameTranscript
  <2> SUFFICES ASSUME NEW d \in Channel
               PROVE  /\ DOMAIN handed'[d] = DOMAIN handed[d]
                      /\ Len(handed'[d]) = Len(handed[d])
                      /\ \A i \in DOMAIN handed[d] : /\ handed'[d][i].send = handed[d][i].send
                                                     /\ handed'[d][i].part = handed[d][i].part
    BY <1>10 DEF ChangeRate
  <2>1. handed[d] \in Seq(Handed) /\ handed'[d] \in Seq(Handed)
    BY <1>10, ForgetType DEF IInv, TypeOK
  <2>2. handed'[d] = [i \in DOMAIN handed[d] |->
                        [handed[d][i] EXCEPT !.ago = IF d = c THEN Per ELSE @]]
    BY <1>10 DEF ChangeRate
  <2>3. \A i \in DOMAIN handed[d] : handed[d][i] \in Handed
    BY <2>1
  <2> QED
    BY <2>1, <2>2, <2>3 DEF Handed
<1>12. ASSUME Tick
       PROVE  SameTranscript
  <2> SUFFICES ASSUME NEW c \in Channel
               PROVE  /\ DOMAIN handed'[c] = DOMAIN handed[c]
                      /\ Len(handed'[c]) = Len(handed[c])
                      /\ \A i \in DOMAIN handed[c] : /\ handed'[c][i].send = handed[c][i].send
                                                     /\ handed'[c][i].part = handed[c][i].part
    BY <1>12 DEF Tick
  <2>1. handed[c] \in Seq(Handed) /\ handed'[c] \in Seq(Handed)
    BY <1>12, TickInv DEF IInv, TypeOK
  <2>2. handed'[c] = [i \in DOMAIN handed[c] |->
                        [handed[c][i] EXCEPT !.ago = IF @ < Per THEN @ + 1 ELSE @]]
    BY <1>12 DEF Tick
  <2>3. \A i \in DOMAIN handed[c] : handed[c][i] \in Handed
    BY <2>1
  <2> QED
    BY <2>1, <2>2, <2>3 DEF Handed
<1>11. CASE UNCHANGED vars
  BY <1>1, <1>7, <1>11 DEF vars
<1> HIDE DEF Kept, SameTranscript
<1> QED
  BY <1>1, <1>5, <1>6, <1>8, <1>9, <1>10, <1>11, <1>12 DEF Next

\* However many calls wait, sleep or are refused, the chunks of one message reach
\* their channel in order with nothing of another message between them.
THEOREM ChunkOrder ==
  ASSUME OutboxAssumption
  PROVE  Spec => []Contiguous
<1>1. Init => IInv /\ Order
  <2>1. Init => IInv
    BY InitInv
  <2>2. ASSUME Init
        PROVE  Order
    <3>1. ASSUME NEW c \in Channel
          PROVE  handed[c] = <<>> /\ DOMAIN handed[c] = {}
      BY <2>2 DEF Init
    <3>2. \A s \in Send : pc[s] = "idle"
      BY <2>2 DEF Init
    <3> QED
      BY <3>1, <3>2 DEF Order, Together, Contiguous, Inside, OutboxAssumption
  <2> QED
    BY <2>1, <2>2
<1>2. IInv /\ Order /\ [Next]_vars => IInv' /\ Order'
  BY NextInv, NextOrder
<1>3. Order => Contiguous
  BY DEF Order
<1> QED
  BY <1>1, <1>2, <1>3, PTL DEF Spec

-----------------------------------------------------------------------------
(* What the outbox delivers: no channel gets more in any stretch of time   *)
(* than its bucket and its refill allow, and every chunk is accounted for. *)


\* A bucket's level and what was handed over in the last `ago` ticks fit in the
\* bucket and what was refilled in them.
Within(h, b) ==
  \A i \in DOMAIN h : h[i].ago < Per => (Len(h) - i) * Per + b.level <= b.cap * (Per + h[i].ago)

\* What makes RateBound inductive: a bucket of the channel's rate has room for what
\* was handed over; a bucket of an earlier rate, which only a call that slept on it
\* still uses, was used once at most since the rate changed, and by no one who sleeps.
Budget ==
  \A c \in Channel :
    /\ bucket[c].cap = rate[c] => Within(handed[c], bucket[c])
    /\ bucket[c].cap # rate[c] =>
         \A i \in DOMAIN handed[c] : handed[c][i].ago < Per =>
           /\ i = Len(handed[c])
           /\ \A t \in Send : ChannelOf[t] = c => pc[t] # "waiting"

Bucket == [cap : Capacities, level : Nat]

-----------------------------------------------------------------------------
(* The arithmetic of a bucket. *)

LEMMA Products ==
  ASSUME NEW m \in Nat, NEW n \in Nat
  PROVE  m * n \in Nat /\ m * (n + 1) = m * n + m /\ (m + 1) * n = m * n + n
  BY Z3

LEMMA ProductsMonotone ==
  ASSUME NEW m \in Nat, NEW n \in Nat, NEW k \in Nat
  PROVE  m * n <= m * (n + k)
<1>1. m * (n + k) = m * n + m * k
  BY Z3
<1>2. m * n \in Nat /\ m * k \in Nat
  BY Products
<1> QED
  BY <1>1, <1>2

LEMMA HandedFacts ==
  ASSUME OutboxAssumption, NEW h \in Seq(Handed)
  PROVE  /\ Len(h) \in Nat /\ DOMAIN h = 1..Len(h) /\ Per \in Nat \ {0}
         /\ \A i \in DOMAIN h : h[i] \in Handed /\ h[i].ago \in 0..Per
<1>1. \A x \in Handed : x.ago \in 0..Per
  BY DEF Handed
<1>2. \A i \in DOMAIN h : h[i] \in Handed
  OBVIOUS
<1> QED
  BY <1>1, <1>2 DEF OutboxAssumption

\* A tick refills a capacity's worth, and gives everything handed over a tick more.
LEMMA RefillWithin ==
  ASSUME OutboxAssumption, NEW h \in Seq(Handed), NEW g \in Seq(Handed), NEW b \in Bucket,
         Within(h, b), DOMAIN g = DOMAIN h, Len(g) = Len(h),
         \A i \in DOMAIN h : g[i].ago = IF h[i].ago < Per THEN h[i].ago + 1 ELSE h[i].ago
  PROVE  Within(g, Refill(b))
<1>1. /\ Len(h) \in Nat /\ DOMAIN h = 1..Len(h) /\ Per \in Nat \ {0}
      /\ \A i \in DOMAIN h : h[i].ago \in 0..Per
  BY HandedFacts
<1>2. b.cap \in Nat \ {0} /\ b.level \in Nat /\ b.cap * Per \in Nat
  BY CapacityType DEF Bucket
<1>3. Refill(b).cap = b.cap /\ Refill(b).level <= b.level + b.cap
  BY <1>2 DEF Refill, Bucket
<1>4. Refill(b).level \in Nat
  BY <1>2 DEF Refill, Bucket
<1> SUFFICES ASSUME NEW i \in DOMAIN h, g[i].ago < Per
             PROVE  (Len(h) - i) * Per + Refill(b).level <= b.cap * (Per + g[i].ago)
  BY <1>3 DEF Within
<1>5. h[i].ago < Per /\ g[i].ago = h[i].ago + 1
  BY <1>1
<1> DEFINE x == (Len(h) - i) * Per
           room == b.cap * (Per + h[i].ago)
<1>6. x + b.level <= room
  BY <1>5 DEF Within
<1>7. x \in Nat
  BY <1>1, Products
<1>8. room \in Nat /\ b.cap * (Per + g[i].ago) = room + b.cap
  <2> DEFINE y == Per + h[i].ago
  <2>1. y \in Nat /\ Per + g[i].ago = y + 1
    BY <1>1, <1>5
  <2> HIDE DEF y
  <2>2. b.cap * y \in Nat /\ b.cap * (y + 1) = b.cap * y + b.cap
    BY <1>2, <2>1, Products
  <2> QED
    BY <2>1, <2>2 DEF y
<1> HIDE DEF x, room
<1>9. x + Refill(b).level <= room + b.cap
  BY <1>2, <1>3, <1>4, <1>6, <1>7, <1>8
<1> QED
  BY <1>8, <1>9 DEF x

\* A token taken for a chunk that is handed over
LEMMA TakeWithin ==
  ASSUME OutboxAssumption, NEW h \in Seq(Handed), NEW e, e.ago = 0, NEW b \in Bucket,
         Within(h, b), b.level >= Per, b.level <= b.cap * Per
  PROVE  Within(Append(h, e), Take(b))
<1> DEFINE g == Append(h, e)
           n == Len(h)
<1>1. /\ n \in Nat /\ DOMAIN h = 1..n /\ Per \in Nat \ {0}
      /\ \A i \in DOMAIN h : h[i].ago \in 0..Per
  BY HandedFacts
<1>2. DOMAIN g = 1..(n + 1) /\ Len(g) = n + 1 /\ g[n + 1] = e /\ \A i \in 1..n : g[i] = h[i]
  OBVIOUS
<1>3. b.cap \in Nat \ {0} /\ b.level \in Nat
  BY CapacityType DEF Bucket
<1>4. Take(b).cap = b.cap /\ Take(b).level = b.level - Per
  BY DEF Take, Bucket
<1> SUFFICES ASSUME NEW i \in 1..(n + 1), g[i].ago < Per
             PROVE  (n + 1 - i) * Per + (b.level - Per) <= b.cap * (Per + g[i].ago)
  BY <1>2, <1>4 DEF Within
<1> HIDE DEF g
<1>5. CASE i = n + 1
  <2>1. Per + g[i].ago = Per /\ (n + 1 - i) = 0
    BY <1>1, <1>2, <1>5
  <2>2. 0 * Per = 0 /\ b.cap * Per \in Nat
    BY <1>1, <1>3, Products
  <2> DEFINE full == b.cap * Per
  <2> HIDE DEF full
  <2>3. full \in Nat /\ b.level <= full
    BY <2>2 DEF full
  <2>4. 0 + (b.level - Per) <= full
    BY <1>1, <1>3, <2>3
  <2> QED
    BY <2>1, <2>2, <2>4 DEF full
<1>6. CASE i \in 1..n
  <2>1. g[i] = h[i] /\ i \in DOMAIN h
    BY <1>1, <1>2, <1>6
  <2> DEFINE x == (n - i) * Per
             room == b.cap * (Per + h[i].ago)
  <2>2. x + b.level <= room
    BY <2>1 DEF Within
  <2>3. n - i \in Nat /\ n + 1 - i = (n - i) + 1
    BY <1>1, <1>6
  <2>4. x \in Nat /\ (n + 1 - i) * Per = x + Per
    BY <1>1, <2>3, Products
  <2>5. room \in Nat
    BY <1>1, <1>3, <2>1, Products
  <2> HIDE DEF x, room
  <2>6. (x + Per) + (b.level - Per) <= room
    BY <1>1, <1>3, <2>2, <2>4, <2>5
  <2> QED
    BY <2>1, <2>4, <2>6 DEF room
<1> QED
  BY <1>1, <1>5, <1>6

\* A new bucket has room for the one chunk a call that slept handed over before.
LEMMA FreshWithin ==
  ASSUME OutboxAssumption, NEW h \in Seq(Handed), NEW n \in Capacities,
         \A i \in DOMAIN h : h[i].ago < Per => i = Len(h)
  PROVE  Within(h, [cap |-> n, level |-> n * Per])
<1> SUFFICES ASSUME NEW i \in DOMAIN h, h[i].ago < Per
             PROVE  (Len(h) - i) * Per + n * Per <= n * (Per + h[i].ago)
  BY DEF Within
<1>1. Len(h) - i = 0
  BY HandedFacts
<1>2. h[i].ago \in Nat /\ Per \in Nat /\ n \in Nat
  BY HandedFacts, CapacityType
<1>3. n * Per \in Nat /\ 0 * Per = 0 /\ n * Per <= n * (Per + h[i].ago)
  BY <1>2, Products, ProductsMonotone
<1> DEFINE full == n * Per
           room == n * (Per + h[i].ago)
<1> HIDE DEF full, room
<1>4. full \in Nat /\ full <= room
  BY <1>3 DEF full, room
<1>5. 0 + full <= room
  BY <1>4
<1> QED
  BY <1>1, <1>3, <1>5 DEF full, room

-----------------------------------------------------------------------------
(* The budget of every channel. *)

LEMMA ChannelFacts ==
  ASSUME OutboxAssumption, TypeOK, NEW c \in Channel
  PROVE  /\ handed[c] \in Seq(Handed) /\ bucket[c] \in Bucket
         /\ rate[c] \in Capacities
         /\ bucket[c].level <= bucket[c].cap * Per
  BY DEF TypeOK, Bucket

\* Steps that leave buckets, rates and the transcript alone, and put no call to sleep
LEMMA BudgetKept ==
  ASSUME Budget, UNCHANGED <<bucket, rate, handed>>,
         \A t \in Send : pc'[t] = "waiting" => pc[t] = "waiting"
  PROVE  Budget'
  BY DEF Budget, Within

\* The bucket that a call at a chunk looks up has room for what was handed over,
\* if it is one of the channel's rate.
LEMMA LookedUp ==
  ASSUME OutboxAssumption, TypeOK, Budget, NEW s \in Send, AtBucket(s)
  PROVE  LET c == ChannelOf[s]
         IN /\ BucketAt(s).cap = rate[c] => Within(handed[c], BucketAt(s))
            /\ pc[s] = "ready" => BucketAt(s).cap = rate[c]
            /\ pc[s] = "waiting" => BucketAt(s) = bucket[c]
<1> DEFINE c == ChannelOf[s]
           full == [cap |-> rate[c], level |-> rate[c] * Per]
<1>1. /\ c \in Channel /\ rate[c] \in Capacities
      /\ handed[c] \in Seq(Handed) /\ bucket[c] \in Bucket
  BY PartType, ChannelFacts
<1>2. CASE pc[s] = "waiting"
  <2>1. BucketAt(s) = bucket[c]
    BY <1>2 DEF BucketAt
  <2> QED
    BY <1>1, <1>2, <2>1 DEF Budget
<1>3. CASE pc[s] = "ready"
  <2>1. BucketAt(s) = IF bucket[c].cap = rate[c] THEN bucket[c] ELSE full
    BY <1>3 DEF BucketAt, BucketOf
  <2>2. CASE bucket[c].cap = rate[c]
    BY <1>1, <1>3, <2>1, <2>2 DEF Budget
  <2>3. CASE bucket[c].cap # rate[c]
    <3>1. \A i \in DOMAIN handed[c] : handed[c][i].ago < Per => i = Len(handed[c])
      BY <1>1, <2>3 DEF Budget
    <3>2. Within(handed[c], full)
      BY <1>1, <3>1, FreshWithin
    <3>3. full.cap = rate[c]
      OBVIOUS
    <3> HIDE DEF full
    <3> QED
      BY <1>3, <2>1, <2>3, <3>2, <3>3
  <2> QED
    BY <2>2, <2>3
<1> QED
  BY <1>2, <1>3 DEF AtBucket

\* Steps of a call that keeps the bucket it looked up: it sleeps on it or ends
LEMMA KeepBucketBudget ==
  ASSUME OutboxAssumption, TypeOK, Budget, NEW s \in Send, AtBucket(s), KeepBucket(s),
         UNCHANGED <<rate, handed>>,
         \A t \in Send : t # s /\ pc'[t] = "waiting" => pc[t] = "waiting"
  PROVE  Budget'
<1> DEFINE c == ChannelOf[s]
<1>1. c \in Channel /\ bucket'[c] = BucketAt(s) /\ \A d \in Channel \ {c} : bucket'[d] = bucket[d]
  BY PartType DEF KeepBucket, TypeOK
<1>2. BucketAt(s).cap = rate[c] => Within(handed[c], BucketAt(s))
  BY LookedUp
<1>3. BucketAt(s).cap # rate[c] => pc[s] = "waiting" /\ BucketAt(s) = bucket[c]
  BY LookedUp DEF AtBucket
<1>4. BucketAt(s).cap # rate[c] => \A i \in DOMAIN handed[c] : ~(handed[c][i].ago < Per)
  BY <1>1, <1>3 DEF Budget
<1> HIDE DEF c
<1>5. ASSUME NEW d \in Channel
      PROVE  /\ bucket'[d].cap = rate[d] => Within(handed[d], bucket'[d])
             /\ bucket'[d].cap # rate[d] =>
                  \A i \in DOMAIN handed[d] : handed[d][i].ago < Per =>
                    /\ i = Len(handed[d])
                    /\ \A t \in Send : ChannelOf[t] = d => pc'[t] # "waiting"
  <2>1. CASE d = c
    BY <1>1, <1>2, <1>4, <2>1
  <2>2. CASE d # c
    <3>1. \A t \in Send : ChannelOf[t] = d /\ pc'[t] = "waiting" => pc[t] = "waiting"
      BY <2>2 DEF c
    <3> QED
      BY <1>1, <2>2, <3>1, SMTT(60) DEF Budget
  <2> QED
    BY <2>1, <2>2
<1> QED
  BY <1>5 DEF Budget, Within

\* A chunk is handed over for one token of the bucket its call looked up.
LEMMA HandOverBudget ==
  ASSUME OutboxAssumption, IInv, Budget, NEW s \in Send, HandOver(s)
  PROVE  Budget'
<1> DEFINE c == ChannelOf[s]
           h == handed[c]
           e == [send |-> s, part |-> part[s], wording |-> WordingOf(s, part[s]), ago |-> 0]
           b == BucketAt(s)
<1> USE DEF IInv
<1>1. /\ c \in Channel /\ h \in Seq(Handed) /\ b \in Bucket
      /\ b.level >= Per /\ b.level <= b.cap * Per
  BY PartType, BucketAtType, ChannelFacts DEF HandOver, Bucket
<1>2. /\ handed'[c] = Append(h, e) /\ bucket'[c] = Take(b)
      /\ \A d \in Channel \ {c} : handed'[d] = handed[d] /\ bucket'[d] = bucket[d]
      /\ rate' = rate
  BY <1>1 DEF HandOver, TypeOK
<1>3. /\ pc[s] \in {"ready", "waiting"} /\ pc'[s] = "sending"
      /\ \A t \in Send : t # s => pc'[t] = pc[t]
  BY DEF HandOver, AtBucket, TypeOK
<1>4. e.ago = 0 /\ Take(b).cap = b.cap
  BY <1>1 DEF Take, Bucket
<1>5. AtBucket(s)
  BY DEF HandOver
<1> HIDE DEF e, b
<1>6. b.cap = rate[c] => Within(Append(h, e), Take(b))
  <2>1. b.cap = rate[c] => Within(h, b)
    BY <1>5, LookedUp DEF b
  <2> HIDE DEF h
  <2> QED
    BY <1>1, <1>4, <2>1, TakeWithin
<1>7. ASSUME b.cap # rate[c], NEW i \in DOMAIN Append(h, e), Append(h, e)[i].ago < Per
      PROVE  /\ i = Len(Append(h, e))
             /\ \A t \in Send : ChannelOf[t] = c => pc'[t] # "waiting"
  <2>1. pc[s] = "waiting" /\ b = bucket[c]
    BY <1>3, <1>5, <1>7, LookedUp DEF b
  <2>2. \A j \in DOMAIN h : ~(h[j].ago < Per)
    BY <1>1, <1>7, <2>1 DEF Budget
  <2>3. i = Len(h) + 1
    <3> HIDE DEF h
    <3> QED
      BY <1>1, <1>7, <2>2
  <2>4. \A t \in Send : ChannelOf[t] = c /\ pc[t] = "waiting" => t = s
    BY <2>1, HolderFirst DEF Inside
  <2>5. Len(Append(h, e)) = Len(h) + 1
    BY <1>1
  <2> HIDE DEF h, c
  <2> QED
    BY <1>3, <2>3, <2>4, <2>5
<1>8. ASSUME NEW d \in Channel \ {c}
      PROVE  /\ bucket'[d].cap = rate'[d] => Within(handed'[d], bucket'[d])
             /\ bucket'[d].cap # rate'[d] =>
                  \A i \in DOMAIN handed'[d] : handed'[d][i].ago < Per =>
                    /\ i = Len(handed'[d])
                    /\ \A t \in Send : ChannelOf[t] = d => pc'[t] # "waiting"
  <2>1. \A t \in Send : pc'[t] = "waiting" => pc[t] = "waiting"
    BY <1>3
  <2>2. /\ bucket[d].cap = rate[d] => Within(handed[d], bucket[d])
        /\ bucket[d].cap # rate[d] =>
             \A i \in DOMAIN handed[d] : handed[d][i].ago < Per =>
               /\ i = Len(handed[d])
               /\ \A t \in Send : ChannelOf[t] = d => pc[t] # "waiting"
    BY DEF Budget
  <2>3. handed'[d] = handed[d] /\ bucket'[d] = bucket[d] /\ rate'[d] = rate[d]
    BY <1>2
  <2> QED
    BY <2>1, <2>2, <2>3
<1> HIDE DEF c, h
<1>9. ASSUME NEW d \in Channel
      PROVE  /\ bucket'[d].cap = rate'[d] => Within(handed'[d], bucket'[d])
             /\ bucket'[d].cap # rate'[d] =>
                  \A i \in DOMAIN handed'[d] : handed'[d][i].ago < Per =>
                    /\ i = Len(handed'[d])
                    /\ \A t \in Send : ChannelOf[t] = d => pc'[t] # "waiting"
  <2>1. CASE d = c
    BY <1>2, <1>4, <1>6, <1>7, <2>1
  <2>2. CASE d # c
    BY <1>8, <2>2
  <2> QED
    BY <2>1, <2>2
<1> QED
  BY <1>9 DEF Budget, Within

\* After a change of rate nothing that was handed over before counts any more.
LEMMA ChangeRateBudget ==
  ASSUME OutboxAssumption, IInv, Budget, NEW c \in Channel, ChangeRate(c)
  PROVE  Budget'
<1>1. /\ bucket' = bucket /\ pc' = pc
      /\ \A d \in Channel \ {c} : rate'[d] = rate[d]
  BY DEF ChangeRate, IInv, TypeOK
<1>2. \A d \in Channel : handed'[d] = [i \in DOMAIN handed[d] |->
                           [handed[d][i] EXCEPT !.ago = IF d = c THEN Per ELSE @]]
  BY DEF ChangeRate
<1>3. ASSUME NEW d \in Channel
      PROVE  /\ handed[d] \in Seq(Handed)
             /\ \A i \in DOMAIN handed[d] : handed[d][i] \in Handed
  <2>1. handed[d] \in Seq(Handed)
    BY DEF IInv, TypeOK
  <2> QED
    BY <2>1
<1>4. ASSUME NEW i \in DOMAIN handed'[c]
      PROVE  ~(handed'[c][i].ago < Per)
  <2>1. handed'[c][i].ago = Per
    <3>0. handed'[c] = [j \in DOMAIN handed[c] |->
                          [handed[c][j] EXCEPT !.ago = IF c = c THEN Per ELSE handed[c][j].ago]]
      BY <1>2
    <3>1. i \in DOMAIN handed[c] /\ handed'[c][i] = [handed[c][i] EXCEPT !.ago = Per]
      BY <3>0
    <3>2. handed[c][i] \in Handed
      BY <1>3, <3>1
    <3> QED
      BY <3>1, <3>2 DEF Handed
  <2> QED
    BY <2>1 DEF OutboxAssumption
<1>5. ASSUME NEW d \in Channel \ {c}
      PROVE  handed'[d] = handed[d]
  <2>1. \A i \in DOMAIN handed[d] :
          [handed[d][i] EXCEPT !.ago = IF d = c THEN Per ELSE @] = handed[d][i]
    BY <1>3 DEF Handed
  <2>2. handed'[d] = [i \in DOMAIN handed[d] |-> handed[d][i]]
    <3>1. handed'[d] = [i \in DOMAIN handed[d] |->
                          [handed[d][i] EXCEPT !.ago = IF d = c THEN Per ELSE @]]
      BY <1>2
    <3> QED
      BY <2>1, <3>1, Zenon
  <2>3. handed[d] = [i \in DOMAIN handed[d] |-> handed[d][i]]
    BY <1>3
  <2> QED
    BY <2>2, <2>3
<1>6. ASSUME NEW d \in Channel
      PROVE  /\ bucket'[d].cap = rate'[d] => Within(handed'[d], bucket'[d])
             /\ bucket'[d].cap # rate'[d] =>
                  \A i \in DOMAIN handed'[d] : handed'[d][i].ago < Per =>
                    /\ i = Len(handed'[d])
                    /\ \A t \in Send : ChannelOf[t] = d => pc'[t] # "waiting"
  <2>1. CASE d = c
    BY <1>4, <2>1 DEF Within
  <2>2. CASE d # c
    BY <1>1, <1>5, <2>2 DEF Budget
  <2> QED
    BY <2>1, <2>2
<1> QED
  BY <1>6 DEF Budget, Within

LEMMA TickBudget ==
  ASSUME OutboxAssumption, IInv, Budget, Tick
  PROVE  Budget'
<1> SUFFICES ASSUME NEW c \in Channel
             PROVE  /\ bucket'[c].cap = rate'[c] => Within(handed'[c], bucket'[c])
                    /\ bucket'[c].cap # rate'[c] =>
                         \A i \in DOMAIN handed'[c] : handed'[c][i].ago < Per =>
                           /\ i = Len(handed'[c])
                           /\ \A t \in Send : ChannelOf[t] = c => pc'[t] # "waiting"
  BY DEF Budget, Within
<1>0. TypeOK'
  BY TickInv DEF IInv
<1>1. /\ handed[c] \in Seq(Handed) /\ handed'[c] \in Seq(Handed) /\ bucket[c] \in Bucket
      /\ \A i \in DOMAIN handed[c] : handed[c][i] \in Handed
  <2>1. handed[c] \in Seq(Handed) /\ bucket[c] \in Bucket
    BY ChannelFacts DEF IInv
  <2>2. handed'[c] \in Seq(Handed)
    BY <1>0 DEF TypeOK
  <2> QED
    BY <2>1, <2>2
<1>2. /\ handed'[c] = [i \in DOMAIN handed[c] |->
                         [handed[c][i] EXCEPT !.ago = IF @ < Per THEN @ + 1 ELSE @]]
      /\ bucket'[c] = Refill(bucket[c]) /\ rate' = rate /\ pc' = pc
  BY DEF Tick
<1>3. /\ DOMAIN handed'[c] = DOMAIN handed[c] /\ Len(handed'[c]) = Len(handed[c])
      /\ \A i \in DOMAIN handed[c] :
           handed'[c][i].ago = IF handed[c][i].ago < Per THEN handed[c][i].ago + 1 ELSE handed[c][i].ago
  BY <1>1, <1>2 DEF Handed
<1>4. bucket'[c].cap = bucket[c].cap
  BY <1>1, <1>2 DEF Refill, Bucket
<1>5. Within(handed[c], bucket[c]) => Within(handed'[c], bucket'[c])
  <2> DEFINE g == handed'[c]
             h == handed[c]
             b == bucket[c]
  <2>1. /\ h \in Seq(Handed) /\ g \in Seq(Handed) /\ b \in Bucket
        /\ DOMAIN g = DOMAIN h /\ Len(g) = Len(h)
        /\ \A i \in DOMAIN h : g[i].ago = IF h[i].ago < Per THEN h[i].ago + 1 ELSE h[i].ago
    BY <1>1, <1>3
  <2> HIDE DEF g, h, b
  <2>2. Within(h, b) => Within(g, Refill(b))
    BY <2>1, RefillWithin
  <2> QED
    BY <1>2, <2>2 DEF g, h, b
<1>6. ASSUME NEW i \in DOMAIN handed[c], handed'[c][i].ago < Per
      PROVE  handed[c][i].ago < Per
  BY <1>1, <1>3, <1>6, HandedFacts
<1> QED
  BY <1>2, <1>3, <1>4, <1>5, <1>6 DEF Budget

THEOREM NextBudget ==
  ASSUME OutboxAssumption, IInv, Budget, [Next]_vars
  PROVE  Budget'
<1> USE DEF IInv
<1>1. ASSUME NEW s \in Send, Release(s)
      PROVE  \A t \in Send : pc'[t] = "waiting" => pc[t] = "waiting"
  BY <1>1 DEF Release
<1>2. ASSUME NEW s \in Send, NEW p, p # "waiting", pc' = [pc EXCEPT ![s] = p]
      PROVE  \A t \in Send : pc'[t] = "waiting" => pc[t] = "waiting"
  BY <1>2 DEF TypeOK
<1>3. ASSUME NEW s \in Send, Filtered(s)
      PROVE  \A t \in Send : pc'[t] = "waiting" => pc[t] = "waiting"
  BY <1>2, <1>3 DEF Filtered
<1>4. ASSUME NEW s \in Send, Begin(s)
      PROVE  Budget'
  BY <1>2, <1>3, <1>4, BudgetKept DEF Begin
<1>5. ASSUME NEW s \in Send, HoldOver(s)
      PROVE  Budget'
  BY <1>3, <1>5, BudgetKept DEF HoldOver
<1>6. ASSUME NEW s \in Send, Expire(s) \/ Moderated(s)
      PROVE  Budget'
  BY <1>1, <1>6, KeepBucketBudget DEF Expire, Moderated
<1>7. ASSUME NEW s \in Send, Sleep(s)
      PROVE  Budget'
  <2>1. \A t \in Send : t # s /\ pc'[t] = "waiting" => pc[t] = "waiting"
    BY <1>7 DEF Sleep, TypeOK
  <2> QED
    BY <1>7, <2>1, KeepBucketBudget DEF Sleep
<1>8. ASSUME NEW s \in Send, Answer(s)
      PROVE  Budget'
  <2>1. \/ pc' = [pc EXCEPT ![s] = "leaving"]
        \/ pc' = [pc EXCEPT ![s] = "ready"]
        \/ Release(s)
    BY <1>8 DEF Answer
  <2>2. \A t \in Send : pc'[t] = "waiting" => pc[t] = "waiting"
    BY <1>1, <1>2, <2>1
  <2> QED
    BY <1>8, <2>2, BudgetKept DEF Answer
<1>9. ASSUME NEW s \in Send, Left(s)
      PROVE  Budget'
  BY <1>1, <1>9, BudgetKept DEF Left
<1>10. ASSUME NEW s \in Send, SendStep(s)
       PROVE  Budget'
  BY <1>5, <1>6, <1>7, <1>8, <1>9, <1>10, HandOverBudget DEF SendStep
<1>11. ASSUME NEW s \in Send, Invalidate(s)
       PROVE  Budget'
  BY <1>11, BudgetKept DEF Invalidate
<1>12. CASE UNCHANGED vars
  BY <1>12, BudgetKept DEF vars
<1> QED
  BY <1>4, <1>10, <1>11, <1>12, ChangeRateBudget, TickBudget DEF Next

\* Whatever the rate of a channel and however it changes, in no stretch of time is more
\* handed to Twitch than a full bucket, what was refilled in it and the one chunk of a
\* call that slept on the bucket before.
THEOREM RateNeverExceeded ==
  ASSUME OutboxAssumption
  PROVE  Spec => []RateBound
<1>1. ASSUME Init
      PROVE  Budget
  <2>1. ASSUME NEW c \in Channel
        PROVE  bucket[c].cap = rate[c] /\ DOMAIN handed[c] = {}
    BY <1>1 DEF Init
  <2> QED
    BY <2>1 DEF Budget, Within
<1>2. IInv /\ Budget => RateBound
  <2> SUFFICES ASSUME IInv, Budget, NEW c \in Channel, NEW i \in DOMAIN handed[c], handed[c][i].ago < Per
               PROVE  (Len(handed[c]) - i + 1 - 1) * Per <= bucket[c].cap * (Per + handed[c][i].ago)
    BY DEF RateBound
  <2> DEFINE n == Len(handed[c]) - i
             x == n * Per
             room == bucket[c].cap * (Per + handed[c][i].ago)
  <2>1. /\ handed[c] \in Seq(Handed) /\ bucket[c] \in Bucket
        /\ bucket[c].cap \in Nat /\ bucket[c].level \in Nat
    BY ChannelFacts, CapacityType DEF IInv, Bucket
  <2>2. n \in Nat /\ Per \in Nat /\ Per + handed[c][i].ago \in Nat /\ Len(handed[c]) - i + 1 - 1 = n
    BY <2>1, HandedFacts
  <2>3. x \in Nat /\ room \in Nat /\ 0 * Per = 0
    <3> HIDE DEF n
    <3> QED
      BY <2>1, <2>2, Products
  <2>4. x <= room
    <3>1. CASE bucket[c].cap = rate[c]
      <4>1. x + bucket[c].level <= room
        BY <3>1 DEF Budget, Within
      <4> HIDE DEF x, room
      <4> QED
        BY <2>1, <2>3, <4>1
    <3>2. CASE bucket[c].cap # rate[c]
      <4>1. n = 0
        BY <2>1, <3>2, HandedFacts DEF Budget
      <4> HIDE DEF n, room
      <4> QED
        BY <2>3, <4>1
    <3> QED
      BY <3>1, <3>2
  <2> HIDE DEF n, room
  <2> QED
    BY <2>2, <2>4 DEF room
<1>3. IInv /\ Budget /\ [Next]_vars => IInv' /\ Budget'
  BY NextInv, NextBudget
<1>4. Init => IInv
  BY InitInv
<1> QED
  BY <1>1, <1>2, <1>3, <1>4, PTL DEF Spec

-----------------------------------------------------------------------------
(* Every chunk and every call is accounted for. *)

Dropped == {"ttl", "moderated", "filter_block"}

\* The results that stand for a chunk given to Twitch
RowsOf(r) == {i \in DOMAIN r : r[i].outcome \notin Dropped}

\* Where a call's chunks are in its channel's transcript, and which they are
Given(s) == {i \in DOMAIN handed[ChannelOf[s]] : handed[ChannelOf[s]][i].send = s}
Chunks(s) == {handed[ChannelOf[s]][i].part : i \in Given(s)}

\* What makes Accounted inductive: a call has one result for every chunk before the
\* one it is at, and a result that ends it is its last.
Progress(s) ==
  LET r == results[s]
  IN /\ pc[s] \in {"idle", "holding", "queued"} => r = <<>> /\ part[s] = 1
     /\ pc[s] \in {"ready", "waiting", "sending"} => Len(r) = part[s] - 1
     /\ pc[s] = "leaving" => Len(r) = part[s] /\ r[Len(r)].outcome = "banned"
     /\ \A i \in DOMAIN r : r[i].outcome \in Final => i = Len(r) /\ pc[s] \in {"leaving", "done"}
     /\ pc[s] = "done" => /\ Len(r) \in 1..Len(Parts[s])
                          /\ Len(r) < Len(Parts[s]) => r[Len(r)].outcome \in Final

Ledger(s) ==
  /\ Chunks(s) = RowsOf(results[s]) \cup (IF pc[s] = "sending" THEN {part[s]} ELSE {})
  /\ \A i, j \in Given(s) : handed[ChannelOf[s]][i].part = handed[ChannelOf[s]][j].part => i = j

Account == \A s \in Send : Progress(s) /\ Ledger(s)

LEMMA RowAppended ==
  ASSUME NEW r \in Seq(Row), NEW e \in Row
  PROVE  /\ Len(Append(r, e)) = Len(r) + 1 /\ Len(r) \in Nat
         /\ DOMAIN r = 1..Len(r) /\ DOMAIN Append(r, e) = 1..(Len(r) + 1)
         /\ \A i \in 1..Len(r) : Append(r, e)[i] = r[i]
         /\ Append(r, e)[Len(r) + 1] = e
         /\ e.outcome \in Dropped => RowsOf(Append(r, e)) = RowsOf(r)
         /\ e.outcome \notin Dropped => RowsOf(Append(r, e)) = RowsOf(r) \cup {Len(r) + 1}
<1> DEFINE q == Append(r, e)
           n == Len(r)
<1>1. /\ Len(q) = n + 1 /\ n \in Nat /\ DOMAIN r = 1..n /\ DOMAIN q = 1..(n + 1)
      /\ \A i \in 1..n : q[i] = r[i]
      /\ q[n + 1] = e
  OBVIOUS
<1>2. 1..(n + 1) = (1..n) \cup {n + 1}
  BY <1>1
<1> HIDE DEF q, n
<1>3. e.outcome \in Dropped => RowsOf(q) = RowsOf(r)
  BY <1>1, <1>2 DEF RowsOf
<1>4. e.outcome \notin Dropped => RowsOf(q) = RowsOf(r) \cup {n + 1}
  BY <1>1, <1>2 DEF RowsOf
<1> QED
  BY <1>1, <1>3, <1>4 DEF q, n

\* A transcript that keeps its chunks keeps every call's.
LEMMA TranscriptKept ==
  ASSUME NEW s \in Send,
         DOMAIN handed'[ChannelOf[s]] = DOMAIN handed[ChannelOf[s]],
         \A i \in DOMAIN handed[ChannelOf[s]] :
           /\ handed'[ChannelOf[s]][i].send = handed[ChannelOf[s]][i].send
           /\ handed'[ChannelOf[s]][i].part = handed[ChannelOf[s]][i].part
  PROVE  /\ Given(s)' = Given(s) /\ Chunks(s)' = Chunks(s)
         /\ \A i \in Given(s) : handed'[ChannelOf[s]][i].part = handed[ChannelOf[s]][i].part
<1>1. Given(s)' = Given(s)
  BY DEF Given
<1>2. \A i \in Given(s) : handed'[ChannelOf[s]][i].part = handed[ChannelOf[s]][i].part
  BY DEF Given
<1> QED
  BY <1>1, <1>2 DEF Chunks

\* A call that a step leaves where it is, or lets into the lock
LEMMA OtherKept ==
  ASSUME NEW t \in Send, Progress(t), Ledger(t),
         results'[t] = results[t], part'[t] = part[t],
         pc'[t] = pc[t] \/ (pc[t] = "queued" /\ pc'[t] = "ready"),
         Given(t)' = Given(t), Chunks(t)' = Chunks(t),
         \A i \in Given(t) : handed'[ChannelOf[t]][i].part = handed[ChannelOf[t]][i].part
  PROVE  Progress(t)' /\ Ledger(t)'
<1>1. Ledger(t)'
  BY DEF Ledger
<1>2. CASE pc'[t] = pc[t]
  BY <1>1, <1>2 DEF Progress
<1>3. CASE pc[t] = "queued" /\ pc'[t] = "ready"
  <2>1. results'[t] = <<>> /\ part'[t] = 1
    BY <1>3 DEF Progress
  <2>2. Len(<<>>) = 1 - 1 /\ \A i \in DOMAIN <<>> : FALSE
    OBVIOUS
  <2> QED
    BY <1>1, <1>3, <2>1, <2>2 DEF Progress
<1> QED
  BY <1>2, <1>3

\* A step of a call that gives nothing to Twitch leaves the others where they are.
LEMMA OthersKept ==
  ASSUME Account, NEW s \in Send, UNCHANGED handed,
         \A t \in Send : t # s => /\ results'[t] = results[t] /\ part'[t] = part[t]
                                  /\ pc'[t] = pc[t] \/ (pc[t] = "queued" /\ pc'[t] = "ready"),
         Progress(s)', Ledger(s)'
  PROVE  Account'
<1>1. ASSUME NEW t \in Send, t # s
      PROVE  Progress(t)' /\ Ledger(t)'
  <2>1. /\ Given(t)' = Given(t) /\ Chunks(t)' = Chunks(t)
        /\ \A i \in Given(t) : handed'[ChannelOf[t]][i].part = handed[ChannelOf[t]][i].part
    BY DEF Given, Chunks
  <2>2. Progress(t) /\ Ledger(t)
    BY DEF Account
  <2> QED
    BY <1>1, <2>1, <2>2, OtherKept
<1> QED
  BY <1>1 DEF Account

\* Only the waiter behind a call that leaves the lock is let in.
LEMMA ReleaseMoves ==
  ASSUME OutboxAssumption, IInv, NEW s \in Send, Release(s), pc[s] \in Inside
  PROVE  /\ pc'[s] = "done"
         /\ \A t \in Send : t # s => pc'[t] = pc[t] \/ (pc[t] = "queued" /\ pc'[t] = "ready")
<1>1. ChannelOf[s] \in Channel /\ lockq[ChannelOf[s]] \in Seq(Send)
  BY PartType DEF IInv, TypeOK
<1>2. Len(lockq[ChannelOf[s]]) > 1 => pc[lockq[ChannelOf[s]][2]] = "queued"
  BY <1>1 DEF IInv, LockDiscipline
<1> QED
  BY <1>1, <1>2 DEF Release

\* One more result for a call that had one for every chunk before the one it is at
LEMMA ResultAdded ==
  ASSUME OutboxAssumption, IInv, Account, NEW s \in Send,
         pc[s] \in {"ready", "waiting", "sending"}, NEW e \in Row,
         results' = [results EXCEPT ![s] = Append(@, e)]
  PROVE  /\ results'[s] \in Seq(Row) /\ Len(results'[s]) = part[s] /\ results'[s][part[s]] = e
         /\ \A i \in DOMAIN results'[s] : results'[s][i].outcome \in Final => i = part[s]
         /\ e.outcome \in Dropped => RowsOf(results'[s]) = RowsOf(results[s])
         /\ e.outcome \notin Dropped => RowsOf(results'[s]) = RowsOf(results[s]) \cup {part[s]}
         /\ \A t \in Send : t # s => results'[t] = results[t]
<1> DEFINE r == results[s]
<1>1. r \in Seq(Row) /\ results'[s] = Append(r, e) /\ \A t \in Send : t # s => results'[t] = results[t]
  BY DEF IInv, TypeOK
<1>2. /\ Len(r) = part[s] - 1 /\ part[s] \in Nat
      /\ \A i \in DOMAIN r : r[i].outcome \notin Final
  <2>1. Progress(s)
    BY DEF Account
  <2> QED
    BY <2>1, PartType DEF Progress, IInv
<1>3. Append(r, e) \in Seq(Row)
  BY <1>1
<1> HIDE DEF r
<1>4. Len(r) + 1 = part[s]
  BY <1>2
<1>5. \A i \in 1..(Len(r) + 1) : i \in 1..Len(r) \/ i = Len(r) + 1
  BY <1>2
<1> QED
  BY <1>1, <1>2, <1>3, <1>4, <1>5, RowAppended DEF r

\* A message that is dropped at a chunk ends with that.
LEMMA DropAccount ==
  ASSUME OutboxAssumption, IInv, Account, NEW s \in Send, NEW o \in {"ttl", "moderated"}, AtBucket(s),
         Drop(s, o), Release(s), UNCHANGED <<part, handed>>
  PROVE  Account'
<1> DEFINE e == [outcome |-> o, linked |-> FALSE]
<1>1. pc[s] \in {"ready", "waiting"} /\ pc[s] \in Inside
  BY DEF AtBucket, Inside
<1>2. e \in Row /\ e.outcome \in Dropped /\ e.outcome \in Final
  BY DEF Row, Outcome, Dropped, Final
<1>3. results' = [results EXCEPT ![s] = Append(@, e)]
  BY DEF Drop
<1> HIDE DEF e
<1>4. /\ Len(results'[s]) = part[s] /\ results'[s][part[s]] = e
      /\ \A i \in DOMAIN results'[s] : results'[s][i].outcome \in Final => i = part[s]
      /\ RowsOf(results'[s]) = RowsOf(results[s])
      /\ \A t \in Send : t # s => results'[t] = results[t]
  BY <1>1, <1>2, <1>3, ResultAdded
<1>5. /\ pc'[s] = "done"
      /\ \A t \in Send : t # s => pc'[t] = pc[t] \/ (pc[t] = "queued" /\ pc'[t] = "ready")
  BY <1>1, ReleaseMoves
<1>6. part[s] \in 1..Len(Parts[s])
  BY PartType DEF IInv
<1>7. Progress(s)'
  BY <1>2, <1>4, <1>5, <1>6 DEF Progress
<1>8. Ledger(s)'
  <2>1. Ledger(s)
    BY DEF Account
  <2> QED
    BY <1>1, <1>4, <1>5, <2>1 DEF Ledger, Chunks, Given
<1> QED
  BY <1>4, <1>5, <1>7, <1>8, OthersKept

\* A call whose text the filter blocks, or that asks for the lock
LEMMA FilteredAccount ==
  ASSUME OutboxAssumption, IInv, Account, NEW s \in Send, pc[s] \in {"idle", "holding"},
         Filtered(s), UNCHANGED <<part, handed>>
  PROVE  Account'
<1>1. Progress(s) /\ Ledger(s) /\ results[s] = <<>> /\ part[s] = 1
  BY DEF Account, Progress
<1>2. CASE Drop(s, "filter_block") /\ pc' = [pc EXCEPT ![s] = "done"]
  <2> DEFINE e == [outcome |-> "filter_block", linked |-> FALSE]
  <2>1. /\ results'[s] = <<e>> /\ pc'[s] = "done"
        /\ \A t \in Send : t # s => results'[t] = results[t] /\ pc'[t] = pc[t]
    <3>1. results' = [results EXCEPT ![s] = Append(results[s], e)]
      BY <1>2 DEF Drop
    <3>2. Append(<<>>, e) = <<e>>
      OBVIOUS
    <3> HIDE DEF e
    <3> QED
      BY <1>1, <1>2, <3>1, <3>2 DEF IInv, TypeOK
  <2>2. e.outcome \in Final /\ e.outcome \in Dropped
    BY DEF Final, Dropped
  <2> HIDE DEF e
  <2>3. Len(<<e>>) = 1 /\ DOMAIN <<e>> = {1} /\ <<e>>[1] = e /\ DOMAIN <<>> = {}
    OBVIOUS
  <2>4. 1 \in 1..Len(Parts[s])
    BY <1>1, PartType DEF IInv
  <2>5. Progress(s)'
    BY <1>1, <2>1, <2>2, <2>3, <2>4 DEF Progress
  <2>6. RowsOf(results'[s]) = {} /\ RowsOf(results[s]) = {}
    BY <1>1, <2>1, <2>2, <2>3 DEF RowsOf
  <2>7. Ledger(s)'
    <3>1. Chunks(s)' = Chunks(s) /\ Given(s)' = Given(s)
      BY DEF Chunks, Given
    <3>2. RowsOf(results[s])' = {}
      BY <2>6
    <3> QED
      BY <1>1, <2>1, <2>6, <3>1, <3>2 DEF Ledger
  <2> QED
    BY <2>1, <2>5, <2>7, OthersKept
<1>3. CASE /\ pc' = [pc EXCEPT ![s] = IF lockq[ChannelOf[s]] = <<>> THEN "ready" ELSE "queued"]
           /\ UNCHANGED results
  <2>1. pc'[s] \in {"ready", "queued"} /\ \A t \in Send : t # s => pc'[t] = pc[t]
    BY <1>3 DEF IInv, TypeOK
  <2>2. Len(<<>>) = 1 - 1 /\ \A i \in DOMAIN <<>> : FALSE
    OBVIOUS
  <2>3. Progress(s)'
    BY <1>1, <1>3, <2>1, <2>2 DEF Progress
  <2>4. Ledger(s)'
    BY <1>1, <1>3, <2>1 DEF Ledger, Chunks, Given
  <2> QED
    BY <1>3, <2>1, <2>3, <2>4, OthersKept
<1> QED
  BY <1>2, <1>3 DEF Filtered

\* Steps that change no result, transcript or chunk, and move one call at most
LEMMA MoveAccount ==
  ASSUME OutboxAssumption, IInv, Account, NEW s \in Send, NEW p, pc' = [pc EXCEPT ![s] = p],
         \/ pc[s] = "idle" /\ p = "holding"
         \/ pc[s] \in {"ready", "waiting"} /\ p = "waiting",
         UNCHANGED <<part, results, handed>>
  PROVE  Account'
<1>1. pc'[s] = p /\ \A t \in Send : t # s => pc'[t] = pc[t]
  BY DEF IInv, TypeOK
<1>2. Progress(s) /\ Ledger(s)
  BY DEF Account
<1>3. Progress(s)'
  BY <1>1, <1>2 DEF Progress
<1>4. Ledger(s)'
  BY <1>1, <1>2 DEF Ledger, Chunks, Given
<1> QED
  BY <1>1, <1>3, <1>4, OthersKept

\* A chunk is handed over once: the ones before it have their results already.
LEMMA HandOverAccount ==
  ASSUME OutboxAssumption, IInv, Account, NEW s \in Send, HandOver(s)
  PROVE  Account'
<1> DEFINE c == ChannelOf[s]
           h == handed[c]
           e == [send |-> s, part |-> part[s], wording |-> WordingOf(s, part[s]), ago |-> 0]
<1>1. /\ c \in Channel /\ h \in Seq(Handed) /\ handed'[c] = Append(h, e)
      /\ \A d \in Channel \ {c} : handed'[d] = handed[d]
  BY PartType DEF HandOver, IInv, TypeOK
<1>2. /\ pc[s] \in {"ready", "waiting"} /\ pc'[s] = "sending"
      /\ \A t \in Send : t # s => pc'[t] = pc[t]
      /\ results' = results /\ part' = part
  BY DEF HandOver, AtBucket, IInv, TypeOK
<1>3. e.send = s /\ e.part = part[s]
  OBVIOUS
<1> HIDE DEF e
<1>4. /\ Len(h) \in Nat /\ DOMAIN h = 1..Len(h) /\ DOMAIN handed'[c] = (1..Len(h)) \cup {Len(h) + 1}
      /\ \A i \in 1..Len(h) : handed'[c][i] = h[i]
      /\ handed'[c][Len(h) + 1] = e
  <2> HIDE DEF h
  <2>1. DOMAIN Append(h, e) = 1..(Len(h) + 1) /\ Len(h) \in Nat
    BY <1>1
  <2>2. 1..(Len(h) + 1) = (1..Len(h)) \cup {Len(h) + 1}
    BY <2>1
  <2> QED
    BY <1>1, <2>1, <2>2
<1>5. ASSUME NEW t \in Send, t # s
      PROVE  Progress(t)' /\ Ledger(t)'
  <2>1. ChannelOf[t] \in Channel
    BY PartType DEF IInv
  <2>2. /\ Given(t)' = Given(t)
        /\ \A i \in Given(t) : handed'[ChannelOf[t]][i].part = handed[ChannelOf[t]][i].part
    <3>1. CASE ChannelOf[t] = c
      <4>1. \A i \in DOMAIN handed'[c] : handed'[c][i].send = t => i \in 1..Len(h)
        BY <1>3, <1>4, <1>5
      <4>2. \A i \in 1..Len(h) : i \in DOMAIN handed'[c] /\ i \in DOMAIN h /\ handed'[c][i] = h[i]
        BY <1>4
      <4>3. {i \in DOMAIN handed'[c] : handed'[c][i].send = t} = {i \in DOMAIN h : h[i].send = t}
        <5> HIDE DEF h, c
        <5> QED
          BY <1>4, <4>1, <4>2
      <4> QED
        BY <1>4, <3>1, <4>2, <4>3, SMTT(60) DEF Given
    <3>2. CASE ChannelOf[t] # c
      BY <1>1, <2>1, <3>2 DEF Given
    <3> QED
      BY <3>1, <3>2
  <2>3. Chunks(t)' = Chunks(t)
    BY <2>2 DEF Chunks
  <2>4. Progress(t) /\ Ledger(t) /\ pc'[t] = pc[t] /\ results'[t] = results[t] /\ part'[t] = part[t]
    BY <1>2, <1>5 DEF Account
  <2> QED
    BY <2>2, <2>3, <2>4, OtherKept
<1>6. Progress(s)'
  <2>1. Progress(s)
    BY DEF Account
  <2> QED
    BY <1>2, <2>1 DEF Progress
<1>7. Given(s)' = Given(s) \cup {Len(h) + 1} /\ Given(s) \subseteq 1..Len(h)
  BY <1>3, <1>4 DEF Given
<1>8. /\ \A i \in Given(s) : handed'[c][i].part = h[i].part
      /\ handed'[c][Len(h) + 1].part = part[s]
  BY <1>3, <1>4, <1>7
<1>9. Chunks(s)' = Chunks(s) \cup {part[s]}
  <2>1. Chunks(s)' = {handed'[c][i].part : i \in Given(s)'} /\ Chunks(s) = {h[i].part : i \in Given(s)}
    BY DEF Chunks
  <2> DEFINE n == Len(h) + 1
             p(i) == handed'[c][i].part
             q(i) == h[i].part
  <2>2. /\ Given(s)' = Given(s) \cup {n}
        /\ \A i \in Given(s) : p(i) = q(i)
        /\ p(n) = part[s]
        /\ Chunks(s)' = {p(i) : i \in Given(s)'} /\ Chunks(s) = {q(i) : i \in Given(s)}
    BY <1>7, <1>8, <2>1
  <2> HIDE DEF n, p, q
  <2>3. {p(i) : i \in Given(s)'} = {q(i) : i \in Given(s)} \cup {p(n)}
    BY <2>2
  <2> QED
    BY <2>2, <2>3
<1>10. Chunks(s) = RowsOf(results[s]) /\ \A i, j \in Given(s) : h[i].part = h[j].part => i = j
  <2>1. Ledger(s)
    BY DEF Account
  <2> QED
    BY <1>2, <2>1 DEF Ledger
<1>11. part[s] \notin Chunks(s)
  <2>1. Len(results[s]) = part[s] - 1 /\ part[s] \in Nat /\ results[s] \in Seq(Row)
    <3>1. TypeOK /\ Progress(s)
      BY DEF IInv, Account
    <3>2. Len(results[s]) = part[s] - 1
      BY <3>1, <1>2 DEF Progress
    <3>3. part[s] \in Nat
      BY <3>1, PartType
    <3>4. results[s] \in Seq(Row)
      BY <3>1 DEF TypeOK
    <3> QED
      BY <3>2, <3>3, <3>4
  <2>2. RowsOf(results[s]) \subseteq 1..Len(results[s])
    BY <2>1 DEF RowsOf
  <2> QED
    BY <1>10, <2>1, <2>2
<1>12. \A i \in Given(s) : h[i].part # part[s]
  BY <1>11 DEF Chunks
<1>13. \A i, j \in Given(s)' : handed'[c][i].part = handed'[c][j].part => i = j
  <2> HIDE DEF h, c
  <2> QED
    BY <1>7, <1>8, <1>10, <1>12
<1>14. Ledger(s)'
  BY <1>2, <1>9, <1>10, <1>13 DEF Ledger
<1> QED
  BY <1>5, <1>6, <1>14 DEF Account

\* The answer to a chunk is its result, and the call goes on with the next or ends.
LEMMA AnswerAccount ==
  ASSUME OutboxAssumption, IInv, Account, NEW s \in Send, Answer(s)
  PROVE  Account'
<1>1. PICK o \in Answers :
        /\ Report(s, o)
        /\ IF o = "banned"
           THEN pc' = [pc EXCEPT ![s] = "leaving"] /\ UNCHANGED <<part, lockq>>
           ELSE IF part[s] < Len(Parts[s])
           THEN /\ part' = [part EXCEPT ![s] = @ + 1]
                /\ pc' = [pc EXCEPT ![s] = "ready"]
                /\ UNCHANGED lockq
           ELSE Release(s) /\ UNCHANGED part
  BY DEF Answer
<1>2. pc[s] = "sending" /\ UNCHANGED handed
  BY DEF Answer
<1> DEFINE e == [outcome |-> o, linked |-> TRUE]
<1>3. e \in Row /\ e.outcome = o /\ o \notin Dropped /\ (o \in Final <=> o = "banned")
  BY DEF OutboxAssumption, Row, Outcome, Dropped, Final
<1>4. results' = [results EXCEPT ![s] = Append(@, e)]
  BY <1>1 DEF Report
<1> HIDE DEF e
<1>5. /\ results'[s] \in Seq(Row) /\ Len(results'[s]) = part[s] /\ results'[s][part[s]] = e
      /\ \A i \in DOMAIN results'[s] : results'[s][i].outcome \in Final => i = part[s]
      /\ RowsOf(results'[s]) = RowsOf(results[s]) \cup {part[s]}
      /\ \A t \in Send : t # s => results'[t] = results[t]
  BY <1>2, <1>3, <1>4, ResultAdded
<1>6. part[s] \in {1, 2} /\ part[s] \in 1..Len(Parts[s]) /\ Len(Parts[s]) \in {1, 2}
  BY PartType DEF IInv
<1>7. part[s] \in DOMAIN results'[s] /\ \A i \in DOMAIN results'[s] : i \in 1..part[s]
  BY <1>5, <1>6
<1>8. /\ Given(s)' = Given(s) /\ Chunks(s)' = RowsOf(results'[s])
      /\ \A i, j \in Given(s) : handed'[ChannelOf[s]][i].part = handed'[ChannelOf[s]][j].part => i = j
  <2>1. Ledger(s)
    BY DEF Account
  <2> QED
    BY <1>2, <1>5, <2>1 DEF Ledger, Given, Chunks
<1>9. pc'[s] # "sending" => Ledger(s)'
  BY <1>8 DEF Ledger
<1>10. CASE o = "banned"
  <2>1. /\ pc'[s] = "leaving" /\ part' = part
        /\ \A t \in Send : t # s => pc'[t] = pc[t]
    BY <1>1, <1>10 DEF IInv, TypeOK
  <2>2. Progress(s)'
    BY <1>3, <1>5, <1>6, <1>10, <2>1 DEF Progress
  <2> QED
    BY <1>2, <1>5, <1>9, <2>1, <2>2, OthersKept
<1>11. CASE o # "banned" /\ part[s] < Len(Parts[s])
  <2>1. /\ pc'[s] = "ready" /\ part'[s] = part[s] + 1
        /\ \A t \in Send : t # s => pc'[t] = pc[t] /\ part'[t] = part[t]
    BY <1>1, <1>11 DEF IInv, TypeOK
  <2>2. \A i \in DOMAIN results'[s] : results'[s][i].outcome \notin Final
    BY <1>3, <1>5, <1>11
  <2>3. Len(results'[s]) = part'[s] - 1
    BY <1>5, <1>6, <2>1
  <2>4. Progress(s)'
    BY <2>1, <2>2, <2>3 DEF Progress
  <2> QED
    BY <1>2, <1>5, <1>9, <2>1, <2>4, OthersKept
<1>12. CASE o # "banned" /\ ~(part[s] < Len(Parts[s]))
  <2>1. /\ pc'[s] = "done" /\ part' = part
        /\ \A t \in Send : t # s => pc'[t] = pc[t] \/ (pc[t] = "queued" /\ pc'[t] = "ready")
    BY <1>1, <1>2, <1>12, ReleaseMoves DEF Inside
  <2>2. \A i \in DOMAIN results'[s] : results'[s][i].outcome \notin Final
    BY <1>3, <1>5, <1>12
  <2>3. Len(results'[s]) \in 1..Len(Parts[s]) /\ ~(Len(results'[s]) < Len(Parts[s]))
    BY <1>5, <1>6, <1>12
  <2>4. Progress(s)'
    BY <2>1, <2>2, <2>3 DEF Progress
  <2> QED
    BY <1>2, <1>5, <1>9, <2>1, <2>4, OthersKept
<1> QED
  BY <1>10, <1>11, <1>12

LEMMA LeftAccount ==
  ASSUME OutboxAssumption, IInv, Account, NEW s \in Send, Left(s)
  PROVE  Account'
<1>1. /\ pc[s] = "leaving" /\ Release(s) /\ UNCHANGED <<part, results, handed>>
      /\ Progress(s) /\ Ledger(s)
  BY DEF Left, Account
<1>2. /\ pc'[s] = "done"
      /\ \A t \in Send : t # s => pc'[t] = pc[t] \/ (pc[t] = "queued" /\ pc'[t] = "ready")
  BY <1>1, ReleaseMoves DEF Inside
<1>3. Len(results[s]) \in 1..Len(Parts[s]) /\ results[s][Len(results[s])].outcome \in Final
  BY <1>1, PartType DEF Progress, Final, IInv
<1>4. Progress(s)'
  BY <1>1, <1>2, <1>3 DEF Progress
<1>5. Ledger(s)'
  BY <1>1, <1>2 DEF Ledger, Given, Chunks
<1> QED
  BY <1>1, <1>2, <1>4, <1>5, OthersKept

\* Time and a change of rate leave the chunks of a transcript what they are.
LEMMA AgedAccount ==
  ASSUME OutboxAssumption, IInv, Account, UNCHANGED <<pc, part, results>>,
         \A c \in Channel :
           /\ DOMAIN handed'[c] = DOMAIN handed[c]
           /\ \A i \in DOMAIN handed[c] : /\ handed'[c][i].send = handed[c][i].send
                                          /\ handed'[c][i].part = handed[c][i].part
  PROVE  Account'
<1> SUFFICES ASSUME NEW t \in Send
             PROVE  Progress(t)' /\ Ledger(t)'
  BY DEF Account
<1>1. ChannelOf[t] \in Channel
  BY PartType DEF IInv
<1>2. /\ Given(t)' = Given(t) /\ Chunks(t)' = Chunks(t)
      /\ \A i \in Given(t) : handed'[ChannelOf[t]][i].part = handed[ChannelOf[t]][i].part
  BY <1>1, TranscriptKept
<1>3. Progress(t) /\ Ledger(t)
  BY DEF Account
<1> QED
  BY <1>2, <1>3, OtherKept

LEMMA TickAccount ==
  ASSUME OutboxAssumption, IInv, Account, Tick
  PROVE  Account'
<1>1. ASSUME NEW c \in Channel
      PROVE  /\ DOMAIN handed'[c] = DOMAIN handed[c]
             /\ \A i \in DOMAIN handed[c] : /\ handed'[c][i].send = handed[c][i].send
                                            /\ handed'[c][i].part = handed[c][i].part
  <2>1. \A i \in DOMAIN handed[c] : handed[c][i] \in Handed
    BY ChannelFacts, HandedFacts DEF IInv
  <2>2. handed'[c] = [i \in DOMAIN handed[c] |->
                        [handed[c][i] EXCEPT !.ago = IF @ < Per THEN @ + 1 ELSE @]]
    BY DEF Tick
  <2> QED
    BY <2>1, <2>2 DEF Handed
<1> QED
  BY <1>1, AgedAccount DEF Tick

LEMMA ChangeRateAccount ==
  ASSUME OutboxAssumption, IInv, Account, NEW d \in Channel, ChangeRate(d)
  PROVE  Account'
<1>1. ASSUME NEW c \in Channel
      PROVE  /\ DOMAIN handed'[c] = DOMAIN handed[c]
             /\ \A i \in DOMAIN handed[c] : /\ handed'[c][i].send = handed[c][i].send
                                            /\ handed'[c][i].part = handed[c][i].part
  <2>1. \A i \in DOMAIN handed[c] : handed[c][i] \in Handed
    BY ChannelFacts, HandedFacts DEF IInv
  <2>2. handed'[c] = [i \in DOMAIN handed[c] |->
                        [handed[c][i] EXCEPT !.ago = IF c = d THEN Per ELSE @]]
    BY DEF ChangeRate
  <2> QED
    BY <2>1, <2>2 DEF Handed
<1> QED
  BY <1>1, AgedAccount DEF ChangeRate

THEOREM NextAccount ==
  ASSUME OutboxAssumption, IInv, Account, [Next]_vars
  PROVE  Account'
<1>1. ASSUME NEW s \in Send, Begin(s)
      PROVE  Account'
  <2>1. UNCHANGED <<part, handed>> /\ pc[s] = "idle"
    BY <1>1 DEF Begin
  <2>2. \/ pc' = [pc EXCEPT ![s] = "holding"] /\ UNCHANGED results
        \/ Filtered(s)
    BY <1>1 DEF Begin
  <2> QED
    BY <2>1, <2>2, FilteredAccount, MoveAccount
<1>2. ASSUME NEW s \in Send, HoldOver(s)
      PROVE  Account'
  BY <1>2, FilteredAccount DEF HoldOver
<1>3. ASSUME NEW s \in Send, Expire(s) \/ Moderated(s)
      PROVE  Account'
  BY <1>3, DropAccount DEF Expire, Moderated
<1>4. ASSUME NEW s \in Send, Sleep(s)
      PROVE  Account'
  BY <1>4, MoveAccount DEF Sleep, AtBucket
<1>5. ASSUME NEW s \in Send, SendStep(s)
      PROVE  Account'
  BY <1>2, <1>3, <1>4, <1>5, HandOverAccount, AnswerAccount, LeftAccount DEF SendStep
<1>6. ASSUME UNCHANGED <<pc, part, results, handed>>
      PROVE  Account'
  BY <1>6, AgedAccount
<1>7. ASSUME NEW s \in Send, Invalidate(s)
      PROVE  Account'
  BY <1>6, <1>7 DEF Invalidate
<1>8. CASE UNCHANGED vars
  BY <1>6, <1>8 DEF vars
<1> QED
  BY <1>1, <1>5, <1>7, <1>8, TickAccount, ChangeRateAccount DEF Next

\* Whatever fails on the way, a call that ended has one result per chunk or the reason it
\* stopped, and what Twitch was given is what the results say, no chunk twice.
THEOREM EveryChunkAccounted ==
  ASSUME OutboxAssumption
  PROVE  Spec => []Accounted
<1>1. Init => IInv
  BY InitInv
<1>2. ASSUME Init
      PROVE  Account
  <2> SUFFICES ASSUME NEW s \in Send
               PROVE  Progress(s) /\ Ledger(s)
    BY DEF Account
  <2>1. ChannelOf[s] \in Channel
    BY DEF OutboxAssumption
  <2>2. pc[s] = "idle" /\ results[s] = <<>> /\ part[s] = 1 /\ handed[ChannelOf[s]] = <<>>
    BY <1>2, <2>1 DEF Init
  <2>3. \A i \in DOMAIN <<>> : FALSE
    OBVIOUS
  <2>4. Given(s) = {} /\ RowsOf(results[s]) = {}
    BY <2>2, <2>3 DEF Given, RowsOf
  <2> QED
    BY <2>2, <2>3, <2>4 DEF Progress, Ledger, Chunks
<1>3. IInv /\ Account /\ [Next]_vars => IInv' /\ Account'
  BY NextInv, NextAccount
<1>4. IInv /\ Account => Accounted
  <2> SUFFICES ASSUME IInv, Account, NEW s \in Send
               PROVE  LET r == results[s]
                          h == handed[ChannelOf[s]]
                          given == {i \in DOMAIN h : h[i].send = s}
                          rows  == {i \in DOMAIN r : r[i].outcome \notin {"ttl", "moderated", "filter_block"}}
                      IN /\ pc[s] = "done" =>
                              /\ r # <<>>
                              /\ Len(r) = Len(Parts[s]) \/ (Len(r) < Len(Parts[s]) /\ r[Len(r)].outcome \in Final)
                              /\ \A i \in 1..(Len(r) - 1) : r[i].outcome \notin Final
                         /\ {h[i].part : i \in given} = rows \cup (IF pc[s] = "sending" THEN {part[s]} ELSE {})
                         /\ \A i, j \in given : h[i].part = h[j].part => i = j
    BY DEF Accounted
  <2>1. results[s] \in Seq(Row) /\ Len(Parts[s]) \in {1, 2}
    BY PartType DEF IInv, TypeOK
  <2>2. Progress(s) /\ Ledger(s)
    BY DEF Account
  <2>3. ASSUME pc[s] = "done"
        PROVE  /\ results[s] # <<>>
               /\ \/ Len(results[s]) = Len(Parts[s])
                  \/ /\ Len(results[s]) < Len(Parts[s])
                     /\ results[s][Len(results[s])].outcome \in Final
               /\ \A i \in 1..(Len(results[s]) - 1) : results[s][i].outcome \notin Final
    BY <2>1, <2>2, <2>3 DEF Progress
  <2> QED
    BY <2>2, <2>3 DEF Ledger, Given, Chunks, RowsOf, Dropped
<1> QED
  BY <1>1, <1>2, <1>3, <1>4, PTL DEF Spec

-----------------------------------------------------------------------------
(* One sleep suffices. *)

\* What makes OneSleepSuffices hold: the bucket a call sleeps on will hold a token
\* when the sleep ends, and the sleep ends within the message's TTL.
Rested ==
  \A s \in Send : pc[s] = "waiting" =>
    /\ timer[s] > 0 => age[s] + timer[s] <= Ttl
    /\ Per <= timer[s] * bucket[ChannelOf[s]].cap + bucket[ChannelOf[s]].level

LEMMA DivCeil ==
  ASSUME NEW n \in Nat, NEW m \in Nat, m > 0
  PROVE  n <= ((n + m - 1) \div m) * m
  BY Z3

LEMMA SleptOn ==
  ASSUME OutboxAssumption, NEW b \in Bucket
  PROVE  Per <= WaitTime(b) * b.cap + b.level
<1>1. b.cap \in Nat \ {0} /\ b.level \in Nat /\ Per \in Nat /\ b.cap > 0
  <2>1. b.cap \in Capacities /\ b.level \in Nat
    BY DEF Bucket
  <2>2. b.cap \in Nat \ {0} /\ Per \in Nat \ {0}
    BY <2>1, CapacityType
  <2> QED
    BY <2>1, <2>2
<1>2. CASE b.level >= Per
  <2>1. WaitTime(b) = 0 /\ 0 * b.cap = 0
    BY <1>1, <1>2 DEF WaitTime
  <2> QED
    BY <1>1, <1>2, <2>1
<1>3. CASE b.level < Per
  <2> DEFINE n == Per - b.level
  <2>1. n \in Nat /\ WaitTime(b) = (n + b.cap - 1) \div b.cap
    BY <1>1, <1>3 DEF WaitTime
  <2> HIDE DEF n, WaitTime
  <2>2. n <= WaitTime(b) * b.cap
    BY <1>1, <2>1, DivCeil
  <2>3. n + b.cap - 1 \in Nat
    BY <1>1, <2>1
  <2>4. WaitTime(b) \in Nat
    BY <1>1, <2>1, <2>3, DivNat
  <2> DEFINE x == WaitTime(b) * b.cap
  <2>5. x \in Nat
    BY <1>1, <2>4, Products
  <2> HIDE DEF x
  <2>6. Per <= x + b.level
    BY <1>1, <2>1, <2>2, <2>5 DEF n, x
  <2> QED
    BY <2>6 DEF x
<1> QED
  BY <1>1, <1>2, <1>3

\* A tick brings a sleep as much nearer to its token as it refills.
LEMMA RefillRests ==
  ASSUME OutboxAssumption, NEW b \in Bucket, NEW n \in Nat, Per <= n * b.cap + b.level
  PROVE  Per <= (IF n > 0 THEN n - 1 ELSE 0) * b.cap + Refill(b).level
<1> DEFINE m == IF n > 0 THEN n - 1 ELSE 0
<1>1. b.cap \in Nat \ {0} /\ b.level \in Nat /\ Per \in Nat /\ b.cap * Per \in Nat
  BY CapacityType DEF Bucket
<1>2. m \in Nat /\ m * b.cap \in Nat /\ n * b.cap \in Nat
  BY <1>1, Products
<1>3. n * b.cap <= m * b.cap + b.cap
  <2>1. CASE n > 0
    <3>1. m \in Nat /\ n = m + 1
      BY <2>1
    <3> HIDE DEF m
    <3>2. n * b.cap = m * b.cap + b.cap
      BY <1>1, <3>1, Products
    <3> QED
      BY <1>1, <1>2, <3>2
  <2>2. CASE n = 0
    <3>1. m = 0 /\ 0 * b.cap = 0
      BY <1>1, <2>2
    <3> QED
      BY <1>1, <2>2, <3>1
  <2> QED
    BY <2>1, <2>2
<1>4. Refill(b).level = b.level + b.cap \/ (Refill(b).level = b.cap * Per)
  BY DEF Refill, Bucket
<1>5. Per <= b.cap * Per
  <2>1. b.cap - 1 \in Nat /\ b.cap = (b.cap - 1) + 1
    BY <1>1
  <2>2. (b.cap - 1) * Per \in Nat /\ b.cap * Per = (b.cap - 1) * Per + Per
    BY <1>1, <2>1, Products
  <2> QED
    BY <1>1, <2>2
<1> DEFINE x == m * b.cap
           y == n * b.cap
           full == b.cap * Per
<1> HIDE DEF m, x, y, full
<1>6. x \in Nat /\ y \in Nat /\ full \in Nat /\ y <= x + b.cap /\ Per <= full /\ Per <= y + b.level
  BY <1>1, <1>2, <1>3, <1>5 DEF x, y, full
<1>7. Refill(b).level = b.level + b.cap \/ Refill(b).level = full
  BY <1>4 DEF full
<1>8. Per <= x + Refill(b).level
  BY <1>1, <1>6, <1>7
<1> QED
  BY <1>8 DEF x, m

\* A call that slept finds its token.
LEMMA FindsToken ==
  ASSUME OutboxAssumption, IInv, Rested, NEW s \in Send, pc[s] = "waiting", AtBucket(s)
  PROVE  timer[s] = 0 /\ WaitTime(BucketAt(s)) = 0
<1> DEFINE b == bucket[ChannelOf[s]]
<1>1. BucketAt(s) = b /\ timer[s] = 0 /\ b \in Bucket
  BY PartType, ChannelFacts DEF BucketAt, AtBucket, IInv
<1>3. Per <= 0 * b.cap + b.level
  BY <1>1 DEF Rested
<1> HIDE DEF b
<1>2. b.cap \in Nat /\ b.level \in Nat /\ Per \in Nat /\ 0 * b.cap = 0
  <2>1. b.cap \in Capacities /\ b.level \in Nat
    BY <1>1 DEF Bucket
  <2>2. b.cap \in Nat \ {0} /\ Per \in Nat \ {0}
    BY <2>1, CapacityType
  <2>3. 0 * b.cap = 0
    BY <2>2
  <2> QED
    BY <2>1, <2>2, <2>3
<1>4. b.level >= Per
  BY <1>2, <1>3
<1> QED
  BY <1>1, <1>4 DEF WaitTime

LEMMA RestedKept ==
  ASSUME Rested,
         \A t \in Send : pc'[t] = "waiting" =>
           /\ pc[t] = "waiting" /\ timer'[t] = timer[t] /\ age'[t] = age[t]
           /\ bucket'[ChannelOf[t]] = bucket[ChannelOf[t]]
  PROVE  Rested'
  BY DEF Rested

\* A call at a chunk changes no bucket another call sleeps on.
LEMMA OtherBuckets ==
  ASSUME OutboxAssumption, IInv, NEW s \in Send, pc[s] \in Inside, NEW b,
         bucket' = [bucket EXCEPT ![ChannelOf[s]] = b], NEW t \in Send, t # s, pc[t] = "waiting"
  PROVE  bucket'[ChannelOf[t]] = bucket[ChannelOf[t]]
<1>1. ChannelOf[t] # ChannelOf[s]
  BY HolderFirst DEF IInv, Inside
<1> QED
  BY <1>1, PartType DEF IInv, TypeOK

LEMMA SleepRested ==
  ASSUME OutboxAssumption, IInv, Rested, NEW s \in Send, Sleep(s)
  PROVE  Rested'
<1>1. /\ pc[s] \in Inside /\ pc' = [pc EXCEPT ![s] = "waiting"]
      /\ age' = age /\ timer' = [timer EXCEPT ![s] = WaitTime(BucketAt(s))]
      /\ bucket' = [bucket EXCEPT ![ChannelOf[s]] = BucketAt(s)]
      /\ age[s] + WaitTime(BucketAt(s)) <= Ttl
  BY DEF Sleep, AtBucket, Inside, KeepBucket
<1>2. bucket'[ChannelOf[s]] = BucketAt(s) /\ timer'[s] = WaitTime(BucketAt(s))
  BY <1>1, PartType DEF IInv, TypeOK
<1>3. Per <= timer'[s] * bucket'[ChannelOf[s]].cap + bucket'[ChannelOf[s]].level
  BY <1>2, BucketAtType, SleptOn DEF IInv, Bucket
<1>4. ASSUME NEW t \in Send, t # s, pc'[t] = "waiting"
      PROVE  /\ pc[t] = "waiting" /\ timer'[t] = timer[t] /\ age'[t] = age[t]
             /\ bucket'[ChannelOf[t]] = bucket[ChannelOf[t]]
  BY <1>1, <1>4, OtherBuckets DEF IInv, TypeOK
<1>5. timer'[s] > 0 => age'[s] + timer'[s] <= Ttl
  BY <1>1, <1>2
<1> QED
  BY <1>3, <1>4, <1>5 DEF Rested

LEMMA TickRested ==
  ASSUME OutboxAssumption, IInv, Rested, Tick
  PROVE  Rested'
<1> SUFFICES ASSUME NEW s \in Send, pc'[s] = "waiting"
             PROVE  /\ timer'[s] > 0 => age'[s] + timer'[s] <= Ttl
                    /\ Per <= timer'[s] * bucket'[ChannelOf[s]].cap + bucket'[ChannelOf[s]].level
  BY DEF Rested
<1>1. /\ pc[s] = "waiting" /\ ChannelOf[s] \in Channel
      /\ timer'[s] = IF timer[s] > 0 THEN timer[s] - 1 ELSE 0
      /\ bucket'[ChannelOf[s]] = Refill(bucket[ChannelOf[s]])
      /\ age'[s] = IF age[s] <= Ttl THEN age[s] + 1 ELSE age[s]
  BY PartType DEF Tick, Live, IInv
<1>2. timer[s] \in Nat /\ age[s] \in Nat /\ Ttl \in Nat /\ bucket[ChannelOf[s]] \in Bucket
  <2>1. timer[s] \in Nat /\ age[s] \in 0..(Ttl + 1) /\ Ttl \in Nat
    BY DEF IInv, TypeOK, OutboxAssumption
  <2>2. bucket[ChannelOf[s]] \in Bucket
    BY <1>1, ChannelFacts DEF IInv
  <2> QED
    BY <2>1, <2>2
<1>3. bucket'[ChannelOf[s]].cap = bucket[ChannelOf[s]].cap
  BY <1>1, <1>2 DEF Refill, Bucket
<1>4. /\ timer[s] > 0 => age[s] + timer[s] <= Ttl
      /\ Per <= timer[s] * bucket[ChannelOf[s]].cap + bucket[ChannelOf[s]].level
  BY <1>1 DEF Rested
<1>5. timer'[s] > 0 => age'[s] + timer'[s] <= Ttl
  BY <1>1, <1>2, <1>4
<1>6. Per <= timer'[s] * bucket[ChannelOf[s]].cap + bucket'[ChannelOf[s]].level
  BY <1>1, <1>2, <1>4, RefillRests
<1> QED
  BY <1>3, <1>5, <1>6

THEOREM NextRested ==
  ASSUME OutboxAssumption, IInv, Rested, [Next]_vars
  PROVE  Rested'
<1> USE DEF IInv
<1>1. ASSUME UNCHANGED <<timer, age, bucket>>, \A t \in Send : pc'[t] = "waiting" => pc[t] = "waiting"
      PROVE  Rested'
  BY <1>1, RestedKept
<1>2. ASSUME NEW s \in Send, NEW p, p # "waiting", pc' = [pc EXCEPT ![s] = p]
      PROVE  \A t \in Send : pc'[t] = "waiting" => pc[t] = "waiting" /\ t # s
  BY <1>2 DEF TypeOK
<1>3. ASSUME NEW s \in Send, Release(s)
      PROVE  \A t \in Send : pc'[t] = "waiting" => pc[t] = "waiting" /\ t # s
  BY <1>3 DEF Release
<1>4. ASSUME NEW s \in Send, Filtered(s)
      PROVE  \A t \in Send : pc'[t] = "waiting" => pc[t] = "waiting"
  BY <1>2, <1>4 DEF Filtered
<1>5. ASSUME NEW s \in Send, NEW b, pc[s] \in Inside, bucket' = [bucket EXCEPT ![ChannelOf[s]] = b],
             UNCHANGED <<timer, age>>,
             \A t \in Send : pc'[t] = "waiting" => pc[t] = "waiting" /\ t # s
      PROVE  Rested'
  BY <1>5, RestedKept, OtherBuckets
<1>6. ASSUME NEW s \in Send, Begin(s)
      PROVE  Rested'
  <2>1. CASE pc' = [pc EXCEPT ![s] = "holding"]
    <3>1. \A t \in Send : pc'[t] = "waiting" => pc[t] = "waiting" /\ t # s
      BY <1>2, <2>1
    <3>2. \A t \in Send : t # s => timer'[t] = timer[t]
      BY <1>6 DEF Begin, TypeOK
    <3> QED
      BY <1>6, <3>1, <3>2, RestedKept DEF Begin
  <2>2. CASE Filtered(s) /\ UNCHANGED timer
    BY <1>1, <1>4, <1>6, <2>2 DEF Begin
  <2> QED
    BY <1>6, <2>1, <2>2 DEF Begin
<1>7. ASSUME NEW s \in Send, HoldOver(s)
      PROVE  Rested'
  BY <1>1, <1>4, <1>7 DEF HoldOver
<1>8. ASSUME NEW s \in Send, Expire(s) \/ Moderated(s)
      PROVE  Rested'
  <2>1. /\ pc[s] \in Inside /\ Release(s) /\ UNCHANGED <<timer, age>>
        /\ bucket' = [bucket EXCEPT ![ChannelOf[s]] = BucketAt(s)]
    BY <1>8 DEF Expire, Moderated, AtBucket, Inside, KeepBucket
  <2>2. \A t \in Send : pc'[t] = "waiting" => pc[t] = "waiting" /\ t # s
    BY <1>3, <2>1
  <2> QED
    BY <1>5, <2>1, <2>2
<1>9. ASSUME NEW s \in Send, HandOver(s)
      PROVE  Rested'
  <2>1. pc' = [pc EXCEPT ![s] = "sending"]
    BY <1>9 DEF HandOver
  <2>2. \A t \in Send : pc'[t] = "waiting" => pc[t] = "waiting" /\ t # s
    BY <1>2, <2>1
  <2>3. /\ pc[s] \in Inside /\ UNCHANGED <<timer, age>>
        /\ bucket' = [bucket EXCEPT ![ChannelOf[s]] = Take(BucketAt(s))]
    BY <1>9 DEF HandOver, AtBucket, Inside
  <2> QED
    BY <1>5, <2>2, <2>3
<1>10. ASSUME NEW s \in Send, Answer(s)
       PROVE  Rested'
  <2>1. \/ pc' = [pc EXCEPT ![s] = "leaving"]
        \/ pc' = [pc EXCEPT ![s] = "ready"]
        \/ Release(s)
    BY <1>10 DEF Answer
  <2>2. \A t \in Send : pc'[t] = "waiting" => pc[t] = "waiting"
    BY <1>2, <1>3, <2>1
  <2> QED
    BY <1>1, <1>10, <2>2 DEF Answer
<1>11. ASSUME NEW s \in Send, Left(s)
       PROVE  Rested'
  BY <1>1, <1>3, <1>11 DEF Left
<1>12. ASSUME NEW s \in Send, SendStep(s)
       PROVE  Rested'
  BY <1>7, <1>8, <1>9, <1>10, <1>11, <1>12, SleepRested DEF SendStep
<1>13. ASSUME NEW s \in Send, Invalidate(s)
       PROVE  Rested'
  BY <1>1, <1>13 DEF Invalidate
<1>14. ASSUME NEW c \in Channel, ChangeRate(c)
       PROVE  Rested'
  BY <1>1, <1>14 DEF ChangeRate
<1>15. CASE UNCHANGED vars
  BY <1>1, <1>15 DEF vars
<1> QED
  BY <1>6, <1>12, <1>13, <1>14, <1>15, TickRested DEF Next

\* What a step does to a call that sleeps for a token
LEMMA SleeperStep ==
  ASSUME OutboxAssumption, IInv, Rested, [Next]_vars, NEW s \in Send, pc[s] = "waiting"
  PROVE  /\ timer'[s] <= timer[s]
         /\ results'[s] # results[s] => results'[s][Len(results'[s])].outcome # "ttl"
<1> USE DEF IInv
<1>1. timer[s] \in Nat /\ results[s] \in Seq(Row)
  BY DEF TypeOK
<1>2. timer'[s] = timer[s] /\ results'[s] = results[s] =>
        /\ timer'[s] <= timer[s]
        /\ results'[s] # results[s] => results'[s][Len(results'[s])].outcome # "ttl"
  BY <1>1
<1>3. ASSUME NEW t \in Send, Begin(t) \/ HoldOver(t)
      PROVE  timer'[s] = timer[s] /\ results'[s] = results[s]
  <2>1. t # s
    BY <1>3 DEF Begin, HoldOver
  <2> QED
    BY <1>3, <2>1 DEF Begin, HoldOver, Filtered, Drop, TypeOK
<1>4. ASSUME NEW t \in Send, Expire(t) \/ Sleep(t)
      PROVE  timer'[s] = timer[s] /\ results'[s] = results[s]
  <2>1. AtBucket(t) /\ WaitTime(BucketAt(t)) > 0
    BY <1>4 DEF Expire, Sleep
  <2>2. t # s
    BY <2>1, FindsToken
  <2> QED
    BY <1>4, <2>2 DEF Expire, Sleep, Drop, TypeOK
<1>5. ASSUME NEW t \in Send, Moderated(t)
      PROVE  /\ timer'[s] = timer[s]
             /\ results'[s] # results[s] => results'[s][Len(results'[s])].outcome # "ttl"
  <2>1. /\ timer' = timer
        /\ results' = [results EXCEPT ![t] = Append(@, [outcome |-> "moderated", linked |-> FALSE])]
    BY <1>5 DEF Moderated, Drop
  <2>2. CASE t # s
    BY <2>1, <2>2 DEF TypeOK
  <2>3. CASE t = s
    <3> DEFINE r == results[s]
               e == [outcome |-> "moderated", linked |-> FALSE]
    <3>1. results'[s] = Append(r, e) /\ e.outcome # "ttl" /\ r \in Seq(Row) /\ e \in Row
      BY <1>1, <2>1, <2>3 DEF TypeOK, Row, Outcome
    <3> HIDE DEF r, e
    <3>2. Len(Append(r, e)) = Len(r) + 1 /\ Append(r, e)[Len(r) + 1] = e
      BY <3>1, RowAppended
    <3> QED
      BY <2>1, <3>1, <3>2
  <2> QED
    BY <2>2, <2>3
<1>6. ASSUME NEW t \in Send, HandOver(t) \/ Left(t) \/ Invalidate(t)
      PROVE  timer'[s] = timer[s] /\ results'[s] = results[s]
  BY <1>6 DEF HandOver, Left, Invalidate
<1>7. ASSUME NEW t \in Send, Answer(t)
      PROVE  timer'[s] = timer[s] /\ results'[s] = results[s]
  <2>1. t # s
    BY <1>7 DEF Answer
  <2> QED
    BY <1>7, <2>1 DEF Answer, Report, TypeOK
<1>8. ASSUME NEW c \in Channel, ChangeRate(c)
      PROVE  timer'[s] = timer[s] /\ results'[s] = results[s]
  BY <1>8 DEF ChangeRate
<1>9. ASSUME Tick
      PROVE  timer'[s] <= timer[s] /\ results'[s] = results[s]
  BY <1>1, <1>9 DEF Tick
<1>10. CASE UNCHANGED vars
  BY <1>2, <1>10 DEF vars
<1>11. ASSUME NEW t \in Send, SendStep(t)
       PROVE  /\ timer'[s] <= timer[s]
              /\ results'[s] # results[s] => results'[s][Len(results'[s])].outcome # "ttl"
  <2>1. CASE Moderated(t)
    BY <1>1, <1>5, <2>1
  <2>2. CASE ~Moderated(t)
    BY <1>2, <1>3, <1>4, <1>6, <1>7, <1>11, <2>2 DEF SendStep
  <2> QED
    BY <2>1, <2>2
<1>12. CASE Next
  BY <1>2, <1>3, <1>6, <1>8, <1>9, <1>11, <1>12 DEF Next
<1> QED
  BY <1>10, <1>12

\* The sleep for a token is the only one of its chunk: it ends in time and the token is
\* there, whatever the rate does and whatever the other calls do meanwhile.
THEOREM OneSleepIsEnough ==
  ASSUME OutboxAssumption
  PROVE  Spec => OneSleepSuffices
<1>1. Init => IInv /\ Rested
  BY InitInv DEF Init, Rested
<1>2. IInv /\ Rested /\ [Next]_vars => IInv' /\ Rested'
  BY NextInv, NextRested
<1>3. IInv /\ Rested /\ [Next]_vars =>
        [\A s \in Send : pc[s] = "waiting" =>
           /\ timer[s] > 0 => age[s] + timer[s] <= Ttl
           /\ timer'[s] <= timer[s]
           /\ results'[s] # results[s] => results'[s][Len(results'[s])].outcome # "ttl"]_vars
  <2>1. ASSUME IInv, Rested, [Next]_vars, NEW s \in Send, pc[s] = "waiting"
        PROVE  /\ timer[s] > 0 => age[s] + timer[s] <= Ttl
               /\ timer'[s] <= timer[s]
               /\ results'[s] # results[s] => results'[s][Len(results'[s])].outcome # "ttl"
    BY <2>1, SleeperStep DEF Rested
  <2> QED
    BY <2>1
<1> QED
  BY <1>1, <1>2, <1>3, PTL DEF Spec, OneSleepSuffices
=============================================================================
