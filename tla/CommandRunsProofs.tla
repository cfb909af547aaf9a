-------------------------- MODULE CommandRunsProofs --------------------------
(***************************************************************************)
(* What holds of command runs for every set of runs, lines, commands and   *)
(* cooldowns.                                                              *)
(***************************************************************************)
EXTENDS CommandRuns, FiniteSetTheorems, SequenceTheorems, WellFoundedInduction, TLAPS

\* The part of the type invariant the buckets need.
BucketTypes ==
  /\ cooling \in [Cmd -> [Who -> Nat]]
  /\ since \in [Cmd -> [Who -> Nat]]

\* What is left of a bucket's wait and the time since its last start make up its
\* cooldown: the strengthening under which a clear bucket means a start long ago.
BucketCovers ==
  \A c \in Cmd, w \in Who : cooling[c][w] + since[c][w] >= RuleOf(c, w)

BucketInv == BucketTypes /\ BucketCovers

\* The cooldown of every bucket is a number of ticks.
LEMMA RuleNat ==
  ASSUME NEW c \in Cmd, NEW w \in Who
  PROVE RuleOf(c, w) \in Nat
  BY CommandRunsAssumption DEF RuleOf

\* At the start every bucket is clear and nothing ran for its cooldown.
LEMMA BucketInit == Init => BucketInv
<1> SUFFICES ASSUME Init PROVE BucketInv
  OBVIOUS
<1>1. BucketTypes
  BY RuleNat DEF Init, BucketTypes
<1>2. ASSUME NEW c \in Cmd, NEW w \in Who
      PROVE cooling[c][w] + since[c][w] >= RuleOf(c, w)
  <2>1. cooling[c][w] = 0 /\ since[c][w] = RuleOf(c, w)
    BY DEF Init
  <2>2. QED
    BY <2>1, RuleNat
<1>3. QED
  BY <1>1, <1>2 DEF BucketInv, BucketCovers

\* Starting a bucket keeps the invariant: a full wait begins, or there is none.
LEMMA CoolKeeps ==
  ASSUME BucketInv, NEW r \in Run, NEW k \in Cmd, Cool(r, k)
  PROVE BucketInv'
<1>1. ASSUME NEW c \in Cmd, NEW w \in Who
      PROVE /\ cooling'[c][w] = IF c = k /\ w \in Buckets(r) /\ RuleOf(c, w) > 0
                                THEN RuleOf(c, w) ELSE cooling[c][w]
            /\ since'[c][w] = IF c = k /\ w \in Buckets(r) THEN 0 ELSE since[c][w]
  BY DEF Cool, BucketInv, BucketTypes
<1>2. BucketTypes'
  <2>1. cooling' \in [Cmd -> [Who -> Nat]]
    BY RuleNat DEF Cool, BucketInv, BucketTypes
  <2>2. since' \in [Cmd -> [Who -> Nat]]
    BY DEF Cool, BucketInv, BucketTypes
  <2>3. QED
    BY <2>1, <2>2 DEF BucketTypes
<1>3. ASSUME NEW c \in Cmd, NEW w \in Who
      PROVE cooling'[c][w] + since'[c][w] >= RuleOf(c, w)
  <2>1. /\ cooling[c][w] \in Nat
        /\ since[c][w] \in Nat
        /\ cooling[c][w] + since[c][w] >= RuleOf(c, w)
        /\ RuleOf(c, w) \in Nat
    BY RuleNat DEF BucketInv, BucketTypes, BucketCovers
  <2>2. QED
    BY <2>1, <1>1
<1>4. QED
  BY <1>2, <1>3 DEF BucketInv, BucketCovers, RuleOf

\* A tick takes one off the wait and adds one to the age.
LEMMA TickKeeps ==
  ASSUME BucketInv, Tick
  PROVE BucketInv'
<1>1. ASSUME NEW c \in Cmd, NEW w \in Who
      PROVE /\ cooling'[c][w] = Down(cooling[c][w])
            /\ since'[c][w] = UpTo(since[c][w], RuleOf(c, w))
  BY DEF Tick
<1>2. ASSUME NEW c \in Cmd, NEW w \in Who
      PROVE /\ cooling[c][w] \in Nat
            /\ since[c][w] \in Nat
            /\ cooling[c][w] + since[c][w] >= RuleOf(c, w)
            /\ RuleOf(c, w) \in Nat
  BY RuleNat DEF BucketInv, BucketTypes, BucketCovers
<1>3. ASSUME NEW c \in Cmd, NEW w \in Who
      PROVE /\ cooling'[c][w] \in Nat
            /\ since'[c][w] \in Nat
            /\ cooling'[c][w] + since'[c][w] >= RuleOf(c, w)
  BY <1>1, <1>2 DEF Down, UpTo
<1>4. BucketTypes'
  <2>1. cooling' = [c \in Cmd |-> [w \in Who |-> Down(cooling[c][w])]]
    BY DEF Tick
  <2>2. since' = [c \in Cmd |-> [w \in Who |-> UpTo(since[c][w], RuleOf(c, w))]]
    BY DEF Tick
  <2>3. ASSUME NEW c \in Cmd, NEW w \in Who
        PROVE Down(cooling[c][w]) \in Nat /\ UpTo(since[c][w], RuleOf(c, w)) \in Nat
    BY <1>2 DEF Down, UpTo
  <2>4. QED
    BY <2>1, <2>2, <2>3 DEF BucketTypes
<1>5. QED
  BY <1>3, <1>4 DEF BucketInv, BucketCovers, RuleOf

\* Every other action leaves the buckets alone.
LEMMA StepBuckets ==
  ASSUME NEW r \in Run, RunStep(r) \/ Moderate(r)
  PROVE UNCHANGED coolVars \/ (Start(r) /\ Cool(r, This(r).cmd))
<1>1. CASE Moderate(r)
  BY <1>1 DEF Moderate
<1>2. CASE Arrive(r) \/ AskForEvent(r)
  BY <1>2 DEF Arrive, AskForEvent
<1>3. CASE Return(r)
  BY <1>3 DEF Return
<1>4. CASE StageTimeout(r)
  BY <1>4 DEF StageTimeout
<1>5. CASE ExprTimeout(r)
  BY <1>5 DEF ExprTimeout, GiveUp
<1>6. CASE Permit(r) \/ Refuse(r)
  BY <1>6 DEF Permit, Refuse
<1>7. CASE Look(r)
  BY <1>7 DEF Look, GiveUp
<1>8. CASE BadArguments(r)
  BY <1>8 DEF BadArguments
<1>9. CASE Start(r)
  BY <1>9 DEF Start
<1>10. CASE Commit(r)
  BY <1>10 DEF Commit
<1>11. CASE RunCallback(r)
  BY <1>11 DEF RunCallback
<1>12. CASE SendReply(r) \/ EndSilently(r)
  BY <1>12 DEF SendReply, EndSilently
<1>13. CASE Reply(r) \/ Crash(r)
  BY <1>13 DEF Reply, Crash
<1>14. QED
  BY <1>1, <1>2, <1>3, <1>4, <1>5, <1>6, <1>7, <1>8, <1>9, <1>10, <1>11, <1>12, <1>13
     DEF RunStep, Progress

-----------------------------------------------------------------------------
(* The slots. *)

SlotTypes ==
  /\ pc \in [Run -> Location]
  /\ waitq \in Seq(Ticket)
  /\ holders \subseteq Ticket

SlotInv == SlotTypes /\ IsFiniteSet(holders) /\ SlotDiscipline

\* What the discipline says of one ticket.
LEMMA Placed ==
  ASSUME SlotInv
  PROVE /\ \A t \in Ticket : t \in holders <=> Seats(t[2], pc[t[1]])
        /\ \A t \in Ticket : (\E i \in DOMAIN waitq : waitq[i] = t) <=> Waits(t[2], pc[t[1]])
        /\ \A i \in DOMAIN waitq : waitq[i] \in Ticket
  BY DEF SlotInv, SlotTypes, SlotDiscipline, Seated, Waiting

\* The converse, for the states after a step.
LEMMA PlacedNext ==
  ASSUME SlotTypes', IsFiniteSet(holders'), Cardinality(holders') <= MaxSlots,
         waitq' # <<>> => Cardinality(holders') = MaxSlots,
         \A t \in Ticket : t \in holders' <=> Seats(t[2], pc'[t[1]]),
         \A t \in Ticket : (\E i \in DOMAIN waitq' : waitq'[i] = t) <=> Waits(t[2], pc'[t[1]]),
         \A i \in DOMAIN waitq' : waitq'[i] \in Ticket,
         \A i, j \in DOMAIN waitq' : waitq'[i] = waitq'[j] => i = j
  PROVE SlotInv'
<1>1. holders' = Seated'
  BY DEF SlotTypes, Seated, Seats
<1>2. {waitq'[i] : i \in DOMAIN waitq'} = Waiting'
  BY DEF Waiting, Waits
<1>3. QED
  BY <1>1, <1>2 DEF SlotInv, SlotDiscipline

\* A move between places that say the same of both tickets keeps the discipline.
LEMMA GoKeeps ==
  ASSUME SlotInv, NEW r \in Run, NEW to \in Location, Go(r, to),
         \A k \in {"run", "event"} : /\ Seats(k, to) <=> Seats(k, pc[r])
                                     /\ Waits(k, to) <=> Waits(k, pc[r])
  PROVE SlotInv'
<1>1. pc' = [pc EXCEPT ![r] = to] /\ holders' = holders /\ waitq' = waitq
  BY DEF Go, slotVars
<1>2. SlotTypes'
  BY <1>1 DEF SlotInv, SlotTypes
<1>3. ASSUME NEW t \in Ticket
      PROVE /\ Seats(t[2], pc'[t[1]]) <=> Seats(t[2], pc[t[1]])
            /\ Waits(t[2], pc'[t[1]]) <=> Waits(t[2], pc[t[1]])
  BY <1>1 DEF SlotInv, SlotTypes, Ticket
<1>4. QED
  BY <1>1, <1>2, <1>3, Placed, PlacedNext DEF SlotInv, SlotDiscipline

\* Asking for a slot keeps the discipline: one more holder while there is room,
\* and otherwise every slot is taken and the ticket is the last that waits.
LEMMA AskKeeps ==
  ASSUME SlotInv, NEW r \in Run, NEW k \in {"run", "event"},
         NEW inside \in Location, NEW outside \in Location,
         Ask(<<r, k>>, r, inside, outside),
         ~Seats(k, pc[r]), ~Waits(k, pc[r]),
         Seats(k, inside), ~Waits(k, inside), ~Seats(k, outside), Waits(k, outside),
         \A j \in {"run", "event"} \ {k} : \A p \in {inside, outside} :
           (Seats(j, p) <=> Seats(j, pc[r])) /\ (Waits(j, p) <=> Waits(j, pc[r]))
  PROVE SlotInv'
<1> DEFINE t == <<r, k>>
<1>1. t \in Ticket /\ t \notin holders /\ ~\E i \in DOMAIN waitq : waitq[i] = t
  BY Placed DEF Ticket
<1>2. /\ pc \in [Run -> Location] /\ waitq \in Seq(Ticket) /\ holders \subseteq Ticket
      /\ IsFiniteSet(holders) /\ Cardinality(holders) <= MaxSlots
      /\ waitq # <<>> => Cardinality(holders) = MaxSlots
      /\ \A i, j \in DOMAIN waitq : waitq[i] = waitq[j] => i = j
  BY DEF SlotInv, SlotTypes, SlotDiscipline
<1>3. Cardinality(holders) \in Nat
  BY <1>2, FS_CardinalityType
<1>4. CASE HasRoom
  <2>1. /\ pc' = [pc EXCEPT ![r] = inside]
        /\ holders' = holders \cup {t} /\ waitq' = waitq /\ waitq = <<>>
        /\ Cardinality(holders) < MaxSlots
    BY <1>4 DEF Ask, HasRoom
  <2>2. SlotTypes'
    BY <1>1, <1>2, <2>1 DEF SlotTypes
  <2>3. IsFiniteSet(holders') /\ Cardinality(holders') = Cardinality(holders) + 1
    BY <1>1, <1>2, <2>1, FS_AddElement
  <2>4. Cardinality(holders') <= MaxSlots
    BY <1>3, <2>1, <2>3, CommandRunsAssumption
  <2>5. ASSUME NEW u \in Ticket
        PROVE /\ u \in holders' <=> Seats(u[2], pc'[u[1]])
              /\ Waits(u[2], pc'[u[1]]) <=> Waits(u[2], pc[u[1]])
    <3>1. u \in holders <=> Seats(u[2], pc[u[1]])
      BY Placed
    <3>2. CASE u = t
      BY <1>2, <2>1, <3>2 DEF SlotTypes
    <3>3. CASE u # t /\ u[1] = r
      <4>1. u[2] \in {"run", "event"} \ {k}
        BY <3>3 DEF Ticket
      <4>2. pc'[r] = inside
        BY <1>2, <2>1
      <4>3. QED
        BY <2>1, <3>1, <3>3, <4>1, <4>2
    <3>4. CASE u[1] # r
      BY <1>2, <2>1, <3>1, <3>4 DEF Ticket
    <3>5. QED
      BY <3>2, <3>3, <3>4
  <2>6. QED
    BY <1>2, <2>1, <2>2, <2>3, <2>4, <2>5, Placed, PlacedNext
<1>5. CASE ~HasRoom
  <2>1. /\ pc' = [pc EXCEPT ![r] = outside]
        /\ holders' = holders /\ waitq' = Append(waitq, t)
    BY <1>5 DEF Ask
  <2>2. Cardinality(holders) = MaxSlots
    BY <1>2, <1>3, <1>5, CommandRunsAssumption DEF HasRoom
  <2>3. /\ waitq' \in Seq(Ticket) /\ Len(waitq') = Len(waitq) + 1
        /\ \A i \in 1 .. Len(waitq) : waitq'[i] = waitq[i]
        /\ waitq'[Len(waitq) + 1] = t
    <3> HIDE DEF t
    <3>1. QED
      BY <1>1, <1>2, <2>1, AppendProperties
  <2>4. Len(waitq) \in Nat /\ DOMAIN waitq = 1 .. Len(waitq) /\ DOMAIN waitq' = 1 .. Len(waitq) + 1
    <3>1. Len(waitq) \in Nat /\ DOMAIN waitq = 1 .. Len(waitq)
      BY <1>2, LenProperties
    <3>2. DOMAIN waitq' = 1 .. Len(waitq')
      BY <2>3, LenProperties
    <3>3. QED
      BY <2>3, <3>1, <3>2
  <2>5. \A i, j \in DOMAIN waitq' : waitq'[i] = waitq'[j] => i = j
    <3> HIDE DEF t
    <3>1. QED
      BY <1>1, <1>2, <2>3, <2>4
  <2>6. \A u : (\E i \in DOMAIN waitq' : waitq'[i] = u) <=> (u = t \/ \E i \in DOMAIN waitq : waitq[i] = u)
    <3> HIDE DEF t
    <3>1. QED
      BY <2>3, <2>4
  <2>7. SlotTypes'
    BY <1>2, <2>1, <2>3 DEF SlotTypes
  <2>8. ASSUME NEW u \in Ticket
        PROVE /\ u \in holders <=> Seats(u[2], pc'[u[1]])
              /\ (u = t \/ \E i \in DOMAIN waitq : waitq[i] = u) <=> Waits(u[2], pc'[u[1]])
    <3>1. /\ u \in holders <=> Seats(u[2], pc[u[1]])
          /\ (\E i \in DOMAIN waitq : waitq[i] = u) <=> Waits(u[2], pc[u[1]])
      BY Placed
    <3>2. CASE u = t
      <4>1. pc'[r] = outside
        BY <1>2, <2>1
      <4>2. u[1] = r /\ u[2] = k
        BY <3>2
      <4>3. QED
        BY <1>1, <3>2, <4>1, <4>2
    <3>3. CASE u # t /\ u[1] = r
      <4>1. u[2] \in {"run", "event"} \ {k}
        BY <3>3 DEF Ticket
      <4>2. pc'[r] = outside
        BY <1>2, <2>1
      <4>3. QED
        BY <3>1, <3>3, <4>1, <4>2
    <3>4. CASE u[1] # r
      BY <1>2, <2>1, <3>1, <3>4 DEF Ticket
    <3>5. QED
      BY <3>2, <3>3, <3>4
  <2>9. \A i \in DOMAIN waitq' : waitq'[i] \in Ticket
    BY <2>3, <2>4, <1>1, Placed
  <2>10. QED
    <3> HIDE DEF t
    <3>1. /\ IsFiniteSet(holders') /\ Cardinality(holders') <= MaxSlots
          /\ Cardinality(holders') = MaxSlots
      BY <1>2, <2>1, <2>2
    <3>2. QED
      BY <2>1, <2>5, <2>6, <2>7, <2>8, <2>9, <3>1, PlacedNext
<1>6. QED
  BY <1>4, <1>5

\* Giving a slot back keeps the discipline: it goes to the ticket that waits longest.
LEMMA GiveBackKeeps ==
  ASSUME SlotInv, NEW r \in Run, NEW k \in {"run", "event"}, NEW to \in Location,
         GiveBack(<<r, k>>, r, to),
         Seats(k, pc[r]), ~Seats(k, to), ~Waits(k, to),
         \A j \in {"run", "event"} : ~Waits(j, pc[r]),
         \A j \in {"run", "event"} \ {k} : (Seats(j, to) <=> Seats(j, pc[r])) /\ ~Waits(j, to)
  PROVE SlotInv'
<1> DEFINE t == <<r, k>>
<1>1. t \in Ticket /\ t \in holders
  BY Placed DEF Ticket
<1>2. /\ pc \in [Run -> Location] /\ waitq \in Seq(Ticket) /\ holders \subseteq Ticket
      /\ IsFiniteSet(holders) /\ Cardinality(holders) <= MaxSlots
      /\ waitq # <<>> => Cardinality(holders) = MaxSlots
      /\ \A i, j \in DOMAIN waitq : waitq[i] = waitq[j] => i = j
  BY DEF SlotInv, SlotTypes, SlotDiscipline
<1>3. /\ IsFiniteSet(holders \ {t})
      /\ Cardinality(holders \ {t}) = Cardinality(holders) - 1
      /\ Cardinality(holders) \in Nat
  BY <1>1, <1>2, FS_RemoveElement, FS_CardinalityType
<1>4. CASE waitq = <<>>
  <2>1. /\ pc' = [pc EXCEPT ![r] = to]
        /\ holders' = holders \ {t} /\ waitq' = waitq
    BY <1>4 DEF GiveBack
  <2>2. SlotTypes'
    BY <1>2, <2>1 DEF SlotTypes
  <2>3. ASSUME NEW u \in Ticket
        PROVE /\ u \in holders' <=> Seats(u[2], pc'[u[1]])
              /\ Waits(u[2], pc'[u[1]]) <=> Waits(u[2], pc[u[1]])
    <3>1. u \in holders <=> Seats(u[2], pc[u[1]])
      BY Placed
    <3>2. CASE u = t
      <4>1. pc'[r] = to
        BY <1>2, <2>1
      <4>2. u[1] = r /\ u[2] = k
        BY <3>2
      <4>3. QED
        BY <2>1, <3>2, <4>1, <4>2
    <3>3. CASE u # t /\ u[1] = r
      <4>1. u[2] \in {"run", "event"} \ {k}
        BY <3>3 DEF Ticket
      <4>2. pc'[r] = to
        BY <1>2, <2>1
      <4>3. QED
        BY <2>1, <3>1, <3>3, <4>1, <4>2
    <3>4. CASE u[1] # r
      BY <1>1, <1>2, <2>1, <3>1, <3>4 DEF Ticket
    <3>5. QED
      BY <3>2, <3>3, <3>4
  <2>4. IsFiniteSet(holders') /\ Cardinality(holders') <= MaxSlots
    BY <1>2, <1>3, <2>1, CommandRunsAssumption
  <2>5. QED
    BY <1>2, <1>4, <2>1, <2>2, <2>3, <2>4, Placed, PlacedNext
<1>5. CASE waitq # <<>>
  <2> DEFINE next == Head(waitq)
             q == next[1]
  <2>1. /\ pc' = [pc EXCEPT ![r] = to, ![q] = Inside(next)]
        /\ holders' = (holders \ {t}) \cup {next}
        /\ waitq' = Tail(waitq)
    BY <1>5 DEF GiveBack
  <2>2. Len(waitq) \in Nat \ {0} /\ DOMAIN waitq = 1 .. Len(waitq) /\ next = waitq[1]
    BY <1>2, <1>5, LenProperties, HeadTailProperties, EmptySeq
  <2>3. /\ waitq' \in Seq(Ticket)
        /\ Len(waitq') = Len(waitq) - 1
        /\ \A i \in 1 .. Len(waitq') : waitq'[i] = waitq[i + 1]
    BY <1>2, <1>5, <2>1, HeadTailProperties
  <2>4. DOMAIN waitq' = 1 .. Len(waitq) - 1
    BY <2>3, LenProperties
  <2>5. /\ next \in Ticket /\ Waits(next[2], pc[q]) /\ q \in Run
        /\ next[2] \in {"run", "event"} /\ next = <<q, next[2]>>
    <3>1. next \in Ticket /\ Waits(next[2], pc[q])
      BY <2>2, Placed
    <3>2. QED
      BY <3>1 DEF Ticket
  <2>6. q # r
    BY <2>5
  <2>7. pc'[r] = to /\ pc'[q] = Inside(next) /\ \A p \in Run \ {r, q} : pc'[p] = pc[p]
    BY <1>2, <2>1, <2>5, <2>6
  <2>8. /\ Seats(next[2], Inside(next)) /\ ~Waits(next[2], Inside(next))
        /\ \A j \in {"run", "event"} \ {next[2]} :
             /\ Seats(j, Inside(next)) <=> Seats(j, pc[q])
             /\ ~Waits(j, Inside(next)) /\ ~Waits(j, pc[q])
        /\ Inside(next) \in Location
    BY <2>5 DEF Seats, Waits, Inside, Location, Evaluating, InStage
  <2>9. next \notin holders
    <3>1. ~Seats(next[2], pc[q])
      BY <2>5 DEF Seats, Waits
    <3>2. QED
      BY <2>5, <3>1, Placed
  <2>10. \A u : (\E i \in DOMAIN waitq' : waitq'[i] = u)
                 <=> (u # next /\ \E i \in DOMAIN waitq : waitq[i] = u)
    <3>1. ASSUME NEW u, NEW i \in DOMAIN waitq', waitq'[i] = u
          PROVE u # next /\ \E j \in DOMAIN waitq : waitq[j] = u
      <4>1. i + 1 \in DOMAIN waitq /\ i + 1 # 1 /\ waitq[i + 1] = u
        BY <2>2, <2>3, <2>4, <3>1
      <4>2. 1 \in DOMAIN waitq
        BY <2>2
      <4>3. waitq[i + 1] # waitq[1]
        BY <1>2, <4>1, <4>2
      <4>4. QED
        BY <2>2, <4>1, <4>3
    <3>2. ASSUME NEW u, u # next, NEW i \in DOMAIN waitq, waitq[i] = u
          PROVE \E j \in DOMAIN waitq' : waitq'[j] = u
      <4>1. i # 1 /\ i - 1 \in DOMAIN waitq' /\ waitq'[i - 1] = waitq[i - 1 + 1]
        BY <2>2, <2>3, <2>4, <3>2
      <4>2. i - 1 + 1 = i
        BY <2>2
      <4>3. QED
        BY <3>2, <4>1, <4>2
    <3>3. QED
      BY <3>1, <3>2
  <2>11. \A i, j \in DOMAIN waitq' : waitq'[i] = waitq'[j] => i = j
    <3>1. SUFFICES ASSUME NEW i \in DOMAIN waitq', NEW j \in DOMAIN waitq', waitq'[i] = waitq'[j]
                   PROVE i = j
      OBVIOUS
    <3>2. i + 1 \in DOMAIN waitq /\ j + 1 \in DOMAIN waitq /\ waitq[i + 1] = waitq[j + 1]
      BY <2>2, <2>3, <2>4, <3>1
    <3>3. i + 1 = j + 1 /\ i \in Int /\ j \in Int
      BY <1>2, <2>4, <3>2
    <3>4. QED
      BY <3>3
  <2>12. SlotTypes'
    <3>1. pc' \in [Run -> Location]
      BY <1>2, <2>1, <2>8
    <3>2. holders' \subseteq Ticket
      BY <1>2, <2>1, <2>5
    <3>3. QED
      BY <2>3, <3>1, <3>2 DEF SlotTypes
  <2>13. ASSUME NEW u \in Ticket
         PROVE /\ u \in holders' <=> Seats(u[2], pc'[u[1]])
               /\ (\E i \in DOMAIN waitq' : waitq'[i] = u) <=> Waits(u[2], pc'[u[1]])
    <3> HIDE DEF next, q
    <3>1. /\ u \in holders <=> Seats(u[2], pc[u[1]])
          /\ (\E i \in DOMAIN waitq : waitq[i] = u) <=> Waits(u[2], pc[u[1]])
      BY Placed
    <3>2. u[1] \in Run /\ u[2] \in {"run", "event"} /\ u = <<u[1], u[2]>>
      BY DEF Ticket
    <3>3. CASE u[1] = r
      <4>1. u # next
        BY <2>5, <2>6, <3>3
      <4>2. CASE u[2] = k
        BY <2>1, <2>7, <2>10, <3>1, <3>2, <3>3, <4>1, <4>2
      <4>3. CASE u[2] # k
        <5>1. u[2] \in {"run", "event"} \ {k} /\ u # t
          BY <3>2, <4>3
        <5>2. /\ Seats(u[2], to) <=> Seats(u[2], pc[r])
              /\ ~Waits(u[2], to) /\ ~Waits(u[2], pc[r])
          BY <5>1, <3>2
        <5>3. u \in holders' <=> u \in holders
          BY <2>1, <4>1, <5>1
        <5>4. (\E i \in DOMAIN waitq' : waitq'[i] = u) <=> (\E i \in DOMAIN waitq : waitq[i] = u)
          BY <2>10, <4>1
        <5>5. pc'[u[1]] = to /\ pc[u[1]] = pc[r]
          BY <2>7, <3>3
        <5>6. QED
          BY <3>1, <5>2, <5>3, <5>4, <5>5
      <4>4. QED
        BY <4>2, <4>3
    <3>4. CASE u[1] = q
      <4>1. u # t
        BY <2>6, <3>4
      <4>2. CASE u[2] = next[2]
        <5>1. u = next
          BY <2>5, <3>2, <3>4, <4>2
        <5>2. QED
          BY <2>1, <2>7, <2>8, <2>10, <5>1, <3>4
      <4>3. CASE u[2] # next[2]
        <5>1. u[2] \in {"run", "event"} \ {next[2]} /\ u # next
          BY <3>2, <4>3
        <5>2. /\ Seats(u[2], Inside(next)) <=> Seats(u[2], pc[q])
              /\ ~Waits(u[2], Inside(next)) /\ ~Waits(u[2], pc[q])
          BY <5>1, <2>8
        <5>3. u \in holders' <=> u \in holders
          BY <2>1, <4>1, <5>1
        <5>4. (\E i \in DOMAIN waitq' : waitq'[i] = u) <=> (\E i \in DOMAIN waitq : waitq[i] = u)
          BY <2>10, <5>1
        <5>5. pc'[u[1]] = Inside(next) /\ pc[u[1]] = pc[q]
          BY <2>7, <3>4
        <5>6. QED
          BY <3>1, <5>2, <5>3, <5>4, <5>5
      <4>4. QED
        BY <4>2, <4>3
    <3>5. CASE u[1] \notin {r, q}
      <4>1. u # t /\ u # next
        BY <2>5, <3>5
      <4>2. QED
        BY <2>1, <2>7, <2>10, <3>1, <3>2, <3>5, <4>1
    <3>6. QED
      BY <3>3, <3>4, <3>5
  <2>14. IsFiniteSet(holders') /\ Cardinality(holders') = MaxSlots
    <3>1. next \notin holders \ {t}
      BY <2>9
    <3>2. IsFiniteSet(holders') /\ Cardinality(holders') = Cardinality(holders) - 1 + 1
      BY <1>3, <2>1, <3>1, FS_AddElement
    <3>3. QED
      BY <1>2, <1>3, <1>5, <3>2
  <2>15. \A i \in DOMAIN waitq' : waitq'[i] \in Ticket
    BY <2>2, <2>3, <2>4, Placed
  <2>16. QED
    <3> HIDE DEF next, q, t
    <3>1. Cardinality(holders') <= MaxSlots
      BY <2>14, CommandRunsAssumption
    <3>2. QED
      BY <2>11, <2>12, <2>13, <2>14, <2>15, <3>1, PlacedNext
<1>6. QED
  BY <1>4, <1>5

\* What is left of a queue when one ticket leaves it.
LEMMA WithoutKeeps ==
  ASSUME NEW S, NEW q \in Seq(S), NEW i \in DOMAIN q,
         \A m, n \in DOMAIN q : q[m] = q[n] => m = n
  PROVE /\ Without(q, i) \in Seq(S)
        /\ \A m, n \in DOMAIN Without(q, i) : Without(q, i)[m] = Without(q, i)[n] => m = n
        /\ \A m \in DOMAIN Without(q, i) : Without(q, i)[m] \in S
        /\ \A u : (\E m \in DOMAIN Without(q, i) : Without(q, i)[m] = u)
                    <=> (u # q[i] /\ \E m \in DOMAIN q : q[m] = u)
<1> DEFINE w == Without(q, i)
<1>1. Len(q) \in Nat /\ DOMAIN q = 1 .. Len(q) /\ i \in 1 .. Len(q) /\ q \in [1 .. Len(q) -> S]
  BY LenProperties
<1>2. w = [j \in 1 .. Len(q) - 1 |-> IF j < i THEN q[j] ELSE q[j + 1]]
  BY DEF Without
<1>3. DOMAIN w = 1 .. Len(q) - 1
  BY <1>2
<1> HIDE DEF w
<1>4. \A j \in 1 .. Len(q) - 1 : /\ j < i => w[j] = q[j]
                                 /\ j >= i => w[j] = q[j + 1]
  BY <1>1, <1>2
<1>5. \A j \in 1 .. Len(q) - 1 : j \in DOMAIN q /\ j + 1 \in DOMAIN q /\ j \in Int
  BY <1>1
<1>6. \A j \in 1 .. Len(q) - 1 : w[j] \in S
  BY <1>1, <1>4, <1>5
<1>7. w \in Seq(S)
  <2>1. Len(q) - 1 \in Nat
    BY <1>1
  <2>2. w \in [1 .. Len(q) - 1 -> S]
    BY <1>2, <1>3, <1>6
  <2>3. QED
    BY <2>1, <2>2
<1>8. ASSUME NEW m \in DOMAIN w, NEW n \in DOMAIN w, w[m] = w[n]
      PROVE m = n
  <2>0. /\ m \in 1 .. Len(q) - 1 /\ n \in 1 .. Len(q) - 1
        /\ m \in Int /\ n \in Int /\ i \in Int
        /\ m \in DOMAIN q /\ n \in DOMAIN q
        /\ m + 1 \in DOMAIN q /\ n + 1 \in DOMAIN q
    BY <1>1, <1>3, <1>5
  <2>1. CASE m < i /\ n < i
    <3>1. w[m] = q[m] /\ w[n] = q[n]
      BY <1>4, <2>0, <2>1
    <3>2. QED
      BY <1>8, <2>0, <3>1
  <2>2. CASE m >= i /\ n >= i
    <3>1. w[m] = q[m + 1] /\ w[n] = q[n + 1]
      BY <1>4, <2>0, <2>2
    <3>2. m + 1 = n + 1
      BY <1>8, <2>0, <3>1
    <3>3. QED
      BY <2>0, <3>2
  <2>3. CASE m < i /\ n >= i
    <3>1. w[m] = q[m] /\ w[n] = q[n + 1]
      BY <1>4, <2>0, <2>3
    <3>2. m = n + 1
      BY <1>8, <2>0, <3>1
    <3>3. QED
      BY <2>0, <2>3, <3>2
  <2>4. CASE m >= i /\ n < i
    <3>1. w[m] = q[m + 1] /\ w[n] = q[n]
      BY <1>4, <2>0, <2>4
    <3>2. m + 1 = n
      BY <1>8, <2>0, <3>1
    <3>3. QED
      BY <2>0, <2>4, <3>2
  <2>5. QED
    BY <2>0, <2>1, <2>2, <2>3, <2>4
<1>9. ASSUME NEW m \in DOMAIN w
      PROVE w[m] # q[i] /\ \E n \in DOMAIN q : q[n] = w[m]
  <2> USE <1>1, <1>3, <1>4, <1>5
  <2>1. CASE m < i
    BY <2>1
  <2>2. CASE m >= i
    <3>1. w[m] = q[m + 1] /\ m + 1 \in DOMAIN q /\ m + 1 # i
      BY <2>2
    <3>2. q[m + 1] # q[i]
      BY <3>1
    <3>3. QED
      BY <3>1, <3>2
  <2>3. QED
    BY <2>1, <2>2
<1>10. ASSUME NEW m \in DOMAIN q, q[m] # q[i]
       PROVE \E n \in DOMAIN w : w[n] = q[m]
  <2>1. m # i /\ m \in Int /\ i \in Int
    BY <1>1, <1>10
  <2>2. CASE m < i
    BY <1>1, <1>3, <1>4, <2>1, <2>2
  <2>3. CASE m > i
    <3>1. m - 1 \in DOMAIN w /\ m - 1 >= i /\ m - 1 + 1 = m
      BY <1>1, <1>3, <2>1, <2>3
    <3>2. w[m - 1] = q[m]
      BY <1>3, <1>4, <3>1
    <3>3. QED
      BY <3>1, <3>2
  <2>4. QED
    BY <2>1, <2>2, <2>3
<1>11. QED
  BY <1>3, <1>6, <1>7, <1>8, <1>9, <1>10 DEF w

\* Leaving the queue keeps the discipline.
LEMMA LeaveKeeps ==
  ASSUME SlotInv, NEW r \in Run, NEW k \in {"run", "event"}, NEW to \in Location,
         Leave(<<r, k>>, r, to),
         ~Seats(k, to), ~Waits(k, to), ~Seats(k, pc[r]),
         \A j \in {"run", "event"} \ {k} :
           (Seats(j, to) <=> Seats(j, pc[r])) /\ (Waits(j, to) <=> Waits(j, pc[r]))
  PROVE SlotInv'
<1> DEFINE t == <<r, k>>
<1>1. PICK i \in DOMAIN waitq : waitq[i] = t /\ waitq' = Without(waitq, i)
  BY DEF Leave
<1>2. pc' = [pc EXCEPT ![r] = to] /\ holders' = holders
  BY DEF Leave
<1>3. /\ pc \in [Run -> Location] /\ waitq \in Seq(Ticket) /\ holders \subseteq Ticket
      /\ IsFiniteSet(holders) /\ Cardinality(holders) <= MaxSlots
      /\ waitq # <<>> => Cardinality(holders) = MaxSlots
      /\ \A m, n \in DOMAIN waitq : waitq[m] = waitq[n] => m = n
  BY DEF SlotInv, SlotTypes, SlotDiscipline
<1>4. /\ waitq' \in Seq(Ticket)
      /\ \A m, n \in DOMAIN waitq' : waitq'[m] = waitq'[n] => m = n
      /\ \A m \in DOMAIN waitq' : waitq'[m] \in Ticket
      /\ \A u : (\E m \in DOMAIN waitq' : waitq'[m] = u)
                  <=> (u # t /\ \E m \in DOMAIN waitq : waitq[m] = u)
  <2>1. /\ Without(waitq, i) \in Seq(Ticket)
        /\ \A m, n \in DOMAIN Without(waitq, i) : Without(waitq, i)[m] = Without(waitq, i)[n] => m = n
        /\ \A m \in DOMAIN Without(waitq, i) : Without(waitq, i)[m] \in Ticket
        /\ \A u : (\E m \in DOMAIN Without(waitq, i) : Without(waitq, i)[m] = u)
                    <=> (u # waitq[i] /\ \E m \in DOMAIN waitq : waitq[m] = u)
    BY <1>3, WithoutKeeps
  <2>2. QED
    BY <1>1, <2>1
<1>5. waitq # <<>>
  BY <1>1
<1>6. SlotTypes'
  BY <1>2, <1>3, <1>4 DEF SlotTypes
<1>7. ASSUME NEW u \in Ticket
      PROVE /\ u \in holders' <=> Seats(u[2], pc'[u[1]])
            /\ (\E m \in DOMAIN waitq' : waitq'[m] = u) <=> Waits(u[2], pc'[u[1]])
  <2>1. /\ u \in holders <=> Seats(u[2], pc[u[1]])
        /\ (\E m \in DOMAIN waitq : waitq[m] = u) <=> Waits(u[2], pc[u[1]])
    BY Placed
  <2>2. u[1] \in Run /\ u[2] \in {"run", "event"} /\ u = <<u[1], u[2]>>
    BY DEF Ticket
  <2>3. pc'[r] = to /\ \A p \in Run \ {r} : pc'[p] = pc[p]
    BY <1>2, <1>3
  <2>4. CASE u[1] = r /\ u[2] = k
    BY <1>2, <1>4, <2>1, <2>2, <2>3, <2>4
  <2>5. CASE u[1] = r /\ u[2] # k
    <3>1. u[2] \in {"run", "event"} \ {k} /\ u # t
      BY <2>2, <2>5
    <3>2. (Seats(u[2], to) <=> Seats(u[2], pc[r])) /\ (Waits(u[2], to) <=> Waits(u[2], pc[r]))
      BY <3>1
    <3>3. QED
      BY <1>2, <1>4, <2>1, <2>3, <2>5, <3>1, <3>2
  <2>6. CASE u[1] # r
    <3>1. u # t
      BY <2>6
    <3>2. QED
      BY <1>2, <1>4, <2>1, <2>2, <2>3, <2>6, <3>1
  <2>7. QED
    BY <2>4, <2>5, <2>6
<1>8. QED
  <2>1. Cardinality(holders') = MaxSlots /\ IsFiniteSet(holders') /\ Cardinality(holders') <= MaxSlots
    BY <1>2, <1>3, <1>5
  <2>2. QED
    BY <1>4, <1>6, <1>7, <2>1, PlacedNext

-----------------------------------------------------------------------------
(* Where a run is in its line. *)

\* What a step of one run may do to another: hand it the slot it waits for.
Others(r) ==
  \A q \in Run \ {r} : \/ pc'[q] = pc[q]
                       \/ pc[q] = "queued" /\ pc'[q] = "checking"
                       \/ pc[q] = "nestwait" /\ pc'[q] = "nested"

Positions ==
  /\ at \in [Run -> Nat \ {0}]
  /\ phase \in [Run -> {"line", "callback"}]
  /\ \A r \in Run : /\ pc[r] \in {"new", "queued", "checking"} => at[r] = 1
                    /\ pc[r] \in Evaluating => at[r] <= Len(Line(r))

LEMMA LineType ==
  ASSUME NEW r \in Run
  PROVE /\ Line(r) \in Seq(Stage) /\ Line(r) # <<>>
        /\ Len(Line(r)) \in Nat \ {0}
        /\ \A i \in 1 .. Len(Line(r)) : Line(r)[i] \in Stage
<1>1. Line(r) \in Seq(Stage) /\ Line(r) # <<>>
  BY CommandRunsAssumption DEF Line
<1>2. QED
  BY <1>1, LenProperties, EmptySeq

\* The next stage is behind this one, and in the line if there is one.
LEMMA NextStageBounds ==
  ASSUME Positions, NEW r \in Run, NEW c
  PROVE /\ NextStage(r, c) \in Nat \ {0}
        /\ After(r, c) \in {"committing", "stage"}
        /\ After(r, c) = "stage" => NextStage(r, c) <= Len(Line(r))
<1> DEFINE on == IF c = "ok" THEN "and" ELSE "or"
           reached == {i \in at[r] + 1 .. Len(Line(r)) : Line(r)[i].on = on}
<1>1. at[r] \in Nat \ {0} /\ Len(Line(r)) \in Nat
  BY LineType DEF Positions
<1>2. reached \subseteq Nat /\ \A i \in reached : i # 0
  BY <1>1
<1>3. NextStage(r, c) = IF reached = {} THEN Len(Line(r)) + 1
                        ELSE CHOOSE i \in reached : \A j \in reached : i <= j
  BY DEF NextStage
<1> HIDE DEF reached
<1>4. CASE reached = {}
  BY <1>1, <1>3, <1>4 DEF After
<1>5. CASE reached # {}
  <2>1. \E i \in reached : \A j \in reached : i <= j
    <3>1. reached \subseteq Nat
      BY <1>2
    <3>2. \E i \in reached : \A j \in reached : <<j, i>> \notin OpToRel(<, Nat)
      BY <1>5, <3>1, NatLessThanWellFounded, WFMin, Zenon
    <3>3. PICK i \in reached : \A j \in reached : <<j, i>> \notin OpToRel(<, Nat)
      BY <3>2, Zenon
    <3>4. ASSUME NEW j \in reached
          PROVE i <= j
      <4>1. i \in Nat /\ j \in Nat
        BY <3>1
      <4>2. <<j, i>> \in Nat \X Nat
        BY <4>1
      <4>3. OpToRel(<, Nat) = {ss \in Nat \X Nat : ss[1] < ss[2]}
        BY Zenon DEF OpToRel
      <4>4. ~(j < i)
        <5>1. <<j, i>> \notin {ss \in Nat \X Nat : ss[1] < ss[2]}
          BY <3>3, <4>3, Zenon
        <5>2. QED
          BY <4>2, <5>1
      <4>5. QED
        BY <4>1, <4>4
    <3>5. QED
      BY <3>4
  <2>2. NextStage(r, c) \in reached
    BY <1>3, <1>5, <2>1
  <2>3. NextStage(r, c) \in at[r] + 1 .. Len(Line(r))
    BY <2>2 DEF reached
  <2>4. QED
    BY <1>1, <2>3 DEF After
<1>6. QED
  BY <1>4, <1>5

\* A step of one run that leaves it at a stage of its line, or past the line.
LEMMA PositionsKept ==
  ASSUME Positions, NEW r \in Run, Others(r),
         at' \in [Run -> Nat \ {0}], phase' \in [Run -> {"line", "callback"}],
         \A q \in Run \ {r} : at'[q] = at[q] /\ phase'[q] = phase[q],
         pc'[r] \in {"new", "queued", "checking"} => at'[r] = 1,
         pc'[r] \in Evaluating => at'[r] <= Len(Line(r)')
  PROVE Positions'
<1>1. ASSUME NEW q \in Run \ {r}
      PROVE /\ pc'[q] \in {"new", "queued", "checking"} => at'[q] = 1
            /\ pc'[q] \in Evaluating => at'[q] <= Len(Line(q)')
  <2>1. Line(q)' = Line(q) /\ at'[q] = at[q]
    BY DEF Line
  <2>2. QED
    BY <2>1 DEF Others, Positions, Evaluating, InStage
<1>2. QED
  BY <1>1 DEF Positions

LEMMA GiveBackOthers ==
  ASSUME SlotInv, NEW r \in Run, NEW k \in {"run", "event"}, NEW to \in Location,
         GiveBack(<<r, k>>, r, to), \A j \in {"run", "event"} : ~Waits(j, pc[r])
  PROVE pc'[r] = to /\ Others(r)
<1>1. pc \in [Run -> Location] /\ waitq \in Seq(Ticket)
  BY DEF SlotInv, SlotTypes
<1>2. CASE waitq = <<>>
  BY <1>1, <1>2 DEF GiveBack, Others
<1>3. CASE waitq # <<>>
  <2> DEFINE next == Head(waitq)
  <2>1. pc' = [pc EXCEPT ![r] = to, ![next[1]] = Inside(next)]
    BY <1>3 DEF GiveBack
  <2>2. 1 \in DOMAIN waitq /\ next = waitq[1]
    BY <1>1, <1>3, LenProperties, HeadTailProperties, EmptySeq
  <2>3. next \in Ticket /\ Waits(next[2], pc[next[1]])
    BY <2>2, Placed
  <2>4. next[1] \in Run \ {r} /\ next[2] \in {"run", "event"}
    BY <2>3 DEF Ticket
  <2>5. \/ pc[next[1]] = "queued" /\ Inside(next) = "checking"
        \/ pc[next[1]] = "nestwait" /\ Inside(next) = "nested"
    BY <2>3, <2>4 DEF Waits, Inside
  <2> HIDE DEF next
  <2>6. QED
    BY <1>1, <2>1, <2>4, <2>5 DEF Others
<1>4. QED
  BY <1>2, <1>3

\* The three ways a step leaves the slots of its run.
LEMMA GoStep ==
  ASSUME SlotInv, NEW r \in Run, NEW to \in Location, Go(r, to),
         \A k \in {"run", "event"} : /\ Seats(k, to) <=> Seats(k, pc[r])
                                     /\ Waits(k, to) <=> Waits(k, pc[r])
  PROVE SlotInv' /\ pc'[r] = to /\ Others(r)
<1>1. pc'[r] = to /\ Others(r)
  BY DEF Go, SlotInv, SlotTypes, Others
<1>2. QED
  BY <1>1, GoKeeps

LEMMA LeaveStageStep ==
  ASSUME SlotInv, NEW r \in Run, NEW to \in {"stage", "committing", "settling"},
         pc[r] \in InStage \cup {"expanding"}, LeaveStage(r, to)
  PROVE SlotInv' /\ pc'[r] = to /\ Others(r)
<1>1. to \in Location /\ pc \in [Run -> Location]
  BY DEF Location, Evaluating, SlotInv, SlotTypes
<1>2. CASE pc[r] = "nested"
  <2>1. GiveBack(<<r, "event">>, r, to)
    BY <1>2 DEF LeaveStage
  <2>2. /\ Seats("event", pc[r]) /\ ~Seats("event", to) /\ ~Waits("event", to)
        /\ \A j \in {"run", "event"} : ~Waits(j, pc[r])
        /\ \A j \in {"run", "event"} \ {"event"} :
             (Seats(j, to) <=> Seats(j, pc[r])) /\ ~Waits(j, to)
    BY <1>2 DEF Seats, Waits
  <2>3. QED
    BY <1>1, <2>1, <2>2, GiveBackKeeps, GiveBackOthers
<1>3. CASE pc[r] = "nestwait"
  <2>1. Leave(<<r, "event">>, r, to)
    BY <1>3 DEF LeaveStage
  <2>2. /\ ~Seats("event", to) /\ ~Waits("event", to) /\ ~Seats("event", pc[r])
        /\ \A j \in {"run", "event"} \ {"event"} :
             (Seats(j, to) <=> Seats(j, pc[r])) /\ (Waits(j, to) <=> Waits(j, pc[r]))
    BY <1>3 DEF Seats, Waits
  <2>3. SlotInv'
    BY <1>1, <2>1, <2>2, LeaveKeeps
  <2>4. pc'[r] = to /\ Others(r)
    BY <1>1, <2>1 DEF Leave, Others
  <2>5. QED
    BY <2>3, <2>4
<1>4. CASE pc[r] \in {"handling", "expanding"}
  <2>1. Go(r, to)
    BY <1>4 DEF LeaveStage
  <2>2. \A k \in {"run", "event"} : /\ Seats(k, to) <=> Seats(k, pc[r])
                                    /\ Waits(k, to) <=> Waits(k, pc[r])
    BY <1>4 DEF Seats, Waits
  <2>3. QED
    BY <1>1, <2>1, <2>2, GoStep
<1>5. QED
  BY <1>2, <1>3, <1>4 DEF InStage

LEMMA AskStep ==
  ASSUME SlotInv, NEW r \in Run,
         \/ pc[r] = "new" /\ Ask(<<r, "run">>, r, "checking", "queued")
         \/ pc[r] = "handling" /\ Ask(<<r, "event">>, r, "nested", "nestwait")
  PROVE /\ SlotInv' /\ Others(r)
        /\ pc[r] = "new" => pc'[r] \in {"checking", "queued"}
        /\ pc[r] = "handling" => pc'[r] \in {"nested", "nestwait"}
<1>1. pc \in [Run -> Location] /\ {"checking", "queued", "nested", "nestwait"} \subseteq Location
  BY DEF SlotInv, SlotTypes, Location, Evaluating, InStage
<1>2. CASE pc[r] = "new" /\ Ask(<<r, "run">>, r, "checking", "queued")
  <2>1. /\ ~Seats("run", pc[r]) /\ ~Waits("run", pc[r])
        /\ Seats("run", "checking") /\ ~Waits("run", "checking")
        /\ ~Seats("run", "queued") /\ Waits("run", "queued")
        /\ \A j \in {"run", "event"} \ {"run"} : \A p \in {"checking", "queued"} :
             (Seats(j, p) <=> Seats(j, pc[r])) /\ (Waits(j, p) <=> Waits(j, pc[r]))
    BY <1>2 DEF Seats, Waits
  <2>2. SlotInv'
    BY <1>1, <1>2, <2>1, AskKeeps
  <2>3. Others(r) /\ pc'[r] \in {"checking", "queued"}
    BY <1>1, <1>2 DEF Ask, Others
  <2>4. QED
    BY <1>2, <2>2, <2>3
<1>3. CASE pc[r] = "handling" /\ Ask(<<r, "event">>, r, "nested", "nestwait")
  <2>1. /\ ~Seats("event", pc[r]) /\ ~Waits("event", pc[r])
        /\ Seats("event", "nested") /\ ~Waits("event", "nested")
        /\ ~Seats("event", "nestwait") /\ Waits("event", "nestwait")
        /\ \A j \in {"run", "event"} \ {"event"} : \A p \in {"nested", "nestwait"} :
             (Seats(j, p) <=> Seats(j, pc[r])) /\ (Waits(j, p) <=> Waits(j, pc[r]))
    BY <1>3 DEF Seats, Waits
  <2>2. SlotInv'
    BY <1>1, <1>3, <2>1, AskKeeps
  <2>3. Others(r) /\ pc'[r] \in {"nested", "nestwait"}
    BY <1>1, <1>3 DEF Ask, Others
  <2>4. QED
    BY <1>3, <2>2, <2>3
<1>4. QED
  BY <1>2, <1>3

-----------------------------------------------------------------------------
(* The steps of a run. *)

RestTypes ==
  /\ by \in [Run -> Nat]
  /\ code \in [Run -> Code]
  /\ dirty \in [Run -> BOOLEAN] /\ invalid \in [Run -> BOOLEAN] /\ wrote \in [Run -> BOOLEAN]
  /\ replied \in [Run -> {"none", "sent", "moderated"}]
  /\ muted \in [CallbackKeys -> Nat] /\ quiet \in [CallbackKeys -> Nat]

\* A run that ends gives its slot back.
LEMMA EndStep ==
  ASSUME SlotInv, Positions, NEW r \in Run,
         pc[r] \in {"checking", "committing", "settling", "replying"},
         GiveBack(<<r, "run">>, r, "done"), UNCHANGED <<at, phase>>
  PROVE SlotInv' /\ Positions' /\ Others(r)
<1>1. /\ Seats("run", pc[r]) /\ ~Seats("run", "done") /\ ~Waits("run", "done")
      /\ \A j \in {"run", "event"} : ~Waits(j, pc[r])
      /\ \A j \in {"run", "event"} \ {"run"} :
           (Seats(j, "done") <=> Seats(j, pc[r])) /\ ~Waits(j, "done")
  BY DEF Seats, Waits
<1>2. "done" \in Location
  BY DEF Location
<1>3. SlotInv' /\ pc'[r] = "done" /\ Others(r)
  BY <1>1, <1>2, GiveBackKeeps, GiveBackOthers
<1>4. Positions'
  <2>1. "done" \notin {"new", "queued", "checking"} \cup Evaluating
    BY DEF Evaluating, InStage
  <2>2. /\ at' \in [Run -> Nat \ {0}] /\ phase' \in [Run -> {"line", "callback"}]
        /\ \A q \in Run \ {r} : at'[q] = at[q] /\ phase'[q] = phase[q]
    BY DEF Positions
  <2>3. QED
    BY <1>3, <2>1, <2>2, PositionsKept
<1>5. QED
  BY <1>3, <1>4

\* A run goes on inside its slot and stays where it is in its line.
LEMMA StayStep ==
  ASSUME SlotInv, Positions, NEW r \in Run, NEW to \in Location, Go(r, to),
         \/ pc[r] = "checking" /\ to \in {"stage", "settling"}
         \/ pc[r] = "stage" /\ to \in {"expanding", "settling"}
         \/ pc[r] = "expanding" /\ to \in {"handling", "settling"}
         \/ pc[r] = "committing" /\ to = "settling"
         \/ pc[r] = "settling" /\ to = "replying",
         UNCHANGED <<at, phase>>
  PROVE SlotInv' /\ Positions' /\ Others(r)
<1>1. \A k \in {"run", "event"} : /\ Seats(k, to) <=> Seats(k, pc[r])
                                  /\ Waits(k, to) <=> Waits(k, pc[r])
  BY DEF Seats, Waits
<1>2. SlotInv' /\ pc'[r] = to /\ Others(r)
  BY <1>1, GoStep
<1>3. to \in Evaluating => at[r] <= Len(Line(r))
  <2>1. 1 <= Len(Line(r)) /\ (pc[r] = "checking" => at[r] = 1)
    BY LineType DEF Positions
  <2>2. pc[r] \in {"stage", "expanding"} => at[r] <= Len(Line(r))
    BY DEF Positions, Evaluating
  <2>3. QED
    BY <2>1, <2>2 DEF Evaluating, InStage
<1>4. Line(r)' = Line(r) /\ at'[r] = at[r]
  BY DEF Line
<1>5. /\ at' \in [Run -> Nat \ {0}] /\ phase' \in [Run -> {"line", "callback"}]
      /\ \A q \in Run \ {r} : at'[q] = at[q] /\ phase'[q] = phase[q]
      /\ to \notin {"new", "queued", "checking"}
  BY DEF Positions
<1>6. QED
  BY <1>2, <1>3, <1>4, <1>5, PositionsKept

\* A stage has its Result, and the run goes on behind it.
LEMMA ResultStep ==
  ASSUME SlotInv, Positions, NEW r \in Run, NEW c,
         Result(r, c),
         \/ pc[r] \in {"stage", "expanding"} /\ Go(r, After(r, c))
         \/ pc[r] \in InStage /\ LeaveStage(r, After(r, c))
  PROVE SlotInv' /\ Positions' /\ Others(r)
<1> DEFINE to == After(r, c)
<1>1. to \in {"committing", "stage"} /\ NextStage(r, c) \in Nat \ {0}
      /\ (to = "stage" => NextStage(r, c) <= Len(Line(r)))
  BY NextStageBounds
<1> HIDE DEF to
<1>2. SlotInv' /\ pc'[r] = to /\ Others(r)
  <2>1. CASE pc[r] \in {"stage", "expanding"} /\ Go(r, to)
    <3>1. \A k \in {"run", "event"} : /\ Seats(k, to) <=> Seats(k, pc[r])
                                      /\ Waits(k, to) <=> Waits(k, pc[r])
      BY <1>1, <2>1 DEF Seats, Waits
    <3>2. to \in Location
      BY <1>1 DEF Location, Evaluating
    <3>3. QED
      BY <2>1, <3>1, <3>2, GoStep
  <2>2. CASE pc[r] \in InStage /\ LeaveStage(r, to)
    BY <1>1, <2>2, LeaveStageStep
  <2>3. QED
    BY <2>1, <2>2 DEF to
<1>3. /\ at' = [at EXCEPT ![r] = NextStage(r, c)] /\ phase' = phase
      /\ at \in [Run -> Nat \ {0}] /\ phase \in [Run -> {"line", "callback"}]
  BY DEF Result, Positions
<1>4. Line(r)' = Line(r) /\ at'[r] = NextStage(r, c)
  BY <1>3 DEF Line
<1>5. to \in Evaluating => to = "stage"
  BY <1>1 DEF Evaluating, InStage
<1>6. /\ at' \in [Run -> Nat \ {0}] /\ phase' \in [Run -> {"line", "callback"}]
      /\ \A q \in Run \ {r} : at'[q] = at[q] /\ phase'[q] = phase[q]
      /\ to \notin {"new", "queued", "checking"}
  BY <1>1, <1>3
<1>7. pc'[r] \in Evaluating => at'[r] <= Len(Line(r)')
  BY <1>1, <1>2, <1>4, <1>5
<1>8. pc'[r] \in {"new", "queued", "checking"} => at'[r] = 1
  BY <1>2, <1>6
<1>9. QED
  BY <1>2, <1>6, <1>7, <1>8, PositionsKept

RunInv == SlotInv /\ Positions

\* Every step of a run keeps the slots and its place in its line.
LEMMA RunStepKeeps ==
  ASSUME RunInv, NEW r \in Run, RunStep(r)
  PROVE RunInv' /\ Others(r)
<1> USE DEF RunInv
<1>0. /\ {"stage", "settling", "expanding", "handling", "replying", "checking"} \subseteq Location
      /\ pc \in [Run -> Location]
  BY DEF Location, Evaluating, InStage, SlotInv, SlotTypes
<1>1. CASE Arrive(r) \/ AskForEvent(r)
  <2>1. /\ SlotInv' /\ Others(r)
        /\ pc[r] \in {"new", "handling"}
        /\ pc[r] = "new" => pc'[r] \in {"checking", "queued"}
        /\ pc[r] = "handling" => pc'[r] \in {"nested", "nestwait"}
    BY <1>1, AskStep DEF Arrive, AskForEvent
  <2>2. UNCHANGED <<at, phase>>
    BY <1>1 DEF Arrive, AskForEvent, runVars
  <2>3. /\ pc'[r] \in {"new", "queued", "checking"} => at'[r] = 1
        /\ pc'[r] \in Evaluating => at'[r] <= Len(Line(r))
    BY <2>1, <2>2 DEF Positions, Evaluating, InStage
  <2>4. Line(r)' = Line(r)
    BY <2>2 DEF Line
  <2>5. /\ at' \in [Run -> Nat \ {0}] /\ phase' \in [Run -> {"line", "callback"}]
        /\ \A q \in Run \ {r} : at'[q] = at[q] /\ phase'[q] = phase[q]
    BY <2>2 DEF Positions
  <2>6. QED
    BY <2>1, <2>3, <2>4, <2>5, PositionsKept
<1>2. CASE Permit(r) \/ Refuse(r)
  BY <1>0, <1>2, StayStep DEF Permit, Refuse, runVars
<1>3. CASE Look(r)
  <2>1. CASE invalid[r]
    BY <1>0, <1>3, <2>1, StayStep DEF Look, GiveUp
  <2>2. CASE ~invalid[r] /\ Ready(r, This(r).cmd)
    BY <1>0, <1>3, <2>2, StayStep DEF Look, runVars
  <2>3. CASE ~invalid[r] /\ ~Ready(r, This(r).cmd)
    BY <1>3, <2>3, ResultStep DEF Look
  <2>4. QED
    BY <2>1, <2>2, <2>3
<1>4. CASE BadArguments(r)
  BY <1>4, ResultStep DEF BadArguments
<1>5. CASE Start(r)
  <2>1. CASE ~MayClaim(r, This(r).cmd)
    BY <1>5, <2>1, ResultStep DEF Start
  <2>2. CASE MayClaim(r, This(r).cmd)
    <3>1. UNCHANGED <<at, phase>> /\ pc[r] = "expanding"
          /\ (Go(r, "settling") \/ Go(r, "handling"))
      BY <1>5, <2>2 DEF Start
    <3>2. QED
      BY <1>0, <3>1, StayStep
  <2>3. QED
    BY <2>1, <2>2
<1>6. CASE Return(r)
  <2>1. PICK c \in {"ok", "fail"} : LeaveStage(r, After(r, c)) /\ Result(r, c)
    BY <1>6 DEF Return
  <2>2. QED
    BY <1>6, <2>1, ResultStep DEF Return, InStage
<1>7. CASE StageTimeout(r)
  BY <1>7, ResultStep DEF StageTimeout
<1>8. CASE ExprTimeout(r)
  <2>1. SlotInv' /\ pc'[r] = "settling" /\ Others(r)
    BY <1>8, LeaveStageStep DEF ExprTimeout
  <2>2. UNCHANGED <<at, phase>>
    BY <1>8 DEF ExprTimeout, GiveUp
  <2>3. "settling" \notin {"new", "queued", "checking"} \cup Evaluating
    BY DEF Evaluating, InStage
  <2>4. /\ at' \in [Run -> Nat \ {0}] /\ phase' \in [Run -> {"line", "callback"}]
        /\ \A q \in Run \ {r} : at'[q] = at[q] /\ phase'[q] = phase[q]
    BY <2>2 DEF Positions
  <2>5. QED
    BY <2>1, <2>3, <2>4, PositionsKept
<1>9. CASE Commit(r)
  BY <1>0, <1>9, StayStep DEF Commit
<1>10. CASE RunCallback(r)
  <2>1. /\ pc[r] = "settling" /\ Go(r, "checking")
        /\ phase' = [phase EXCEPT ![r] = "callback"] /\ at' = [at EXCEPT ![r] = 1]
    BY <1>10 DEF RunCallback
  <2>2. \A k \in {"run", "event"} : /\ Seats(k, "checking") <=> Seats(k, pc[r])
                                    /\ Waits(k, "checking") <=> Waits(k, pc[r])
    BY <2>1 DEF Seats, Waits
  <2>3. SlotInv' /\ pc'[r] = "checking" /\ Others(r)
    BY <1>0, <2>1, <2>2, GoStep
  <2>4. /\ at' \in [Run -> Nat \ {0}] /\ phase' \in [Run -> {"line", "callback"}]
        /\ \A q \in Run \ {r} : at'[q] = at[q] /\ phase'[q] = phase[q]
        /\ at'[r] = 1
    BY <2>1 DEF Positions
  <2>5. "checking" \notin Evaluating
    BY DEF Evaluating, InStage
  <2>6. QED
    BY <2>3, <2>4, <2>5, PositionsKept
<1>11. CASE SendReply(r)
  BY <1>0, <1>11, StayStep DEF SendReply, runVars
<1>12. CASE EndSilently(r) \/ Reply(r) \/ Crash(r)
  BY <1>12, EndStep DEF EndSilently, Reply, Crash, runVars
<1>13. QED
  BY <1>1, <1>2, <1>3, <1>4, <1>5, <1>6, <1>7, <1>8, <1>9, <1>10, <1>11, <1>12
     DEF RunStep, Progress

\* And it leaves the types of what is left.
LEMMA RestKept ==
  ASSUME RunInv, RestTypes, NEW r \in Run, RunStep(r)
  PROVE RestTypes'
<1>1. at[r] \in Nat /\ {"ok", "fail", "cooldown", "denied", "unknown", "timeout", "cancelled"} = Code
  BY DEF RunInv, Positions, Code
<1> USE <1>1 DEF RestTypes
<1>2. CASE Arrive(r) \/ AskForEvent(r)
  BY <1>2 DEF Arrive, AskForEvent, runVars, muteVars
<1>3. CASE Permit(r)
  BY <1>3 DEF Permit, runVars, muteVars
<1>4. CASE Refuse(r)
  <2>1. PICK c \in {"denied", "unknown", "fail"}, i \in 1 .. Len(Line(r)) :
          code' = [code EXCEPT ![r] = c] /\ by' = [by EXCEPT ![r] = i]
    BY <1>4 DEF Refuse
  <2>2. i \in Nat
    BY LineType
  <2>3. QED
    BY <1>4, <2>1, <2>2 DEF Refuse, muteVars
<1>5. CASE Look(r)
  BY <1>5 DEF Look, GiveUp, Result, runVars, muteVars
<1>6. CASE BadArguments(r)
  BY <1>6 DEF BadArguments, Result, muteVars
<1>7. CASE Start(r)
  BY <1>7 DEF Start, Result, muteVars
<1>8. CASE Return(r)
  BY <1>8 DEF Return, Result, muteVars
<1>9. CASE StageTimeout(r)
  BY <1>9 DEF StageTimeout, Result, muteVars
<1>10. CASE ExprTimeout(r)
  BY <1>10 DEF ExprTimeout, GiveUp, muteVars
<1>11. CASE Commit(r)
  BY <1>11 DEF Commit, muteVars
<1>12. CASE RunCallback(r)
  BY <1>12, CommandRunsAssumption DEF RunCallback
<1>13. CASE SendReply(r) \/ EndSilently(r)
  BY <1>13 DEF SendReply, EndSilently, runVars, muteVars
<1>14. CASE Reply(r)
  BY <1>14 DEF Reply, runVars, muteVars
<1>15. CASE Crash(r)
  BY <1>15 DEF Crash, muteVars
<1>16. QED
  BY <1>2, <1>3, <1>4, <1>5, <1>6, <1>7, <1>8, <1>9, <1>10, <1>11, <1>12, <1>13, <1>14, <1>15
     DEF RunStep, Progress

-----------------------------------------------------------------------------
(* The theorems. *)

Inv == RunInv /\ RestTypes /\ BucketInv

LEMMA InvInit == Init => Inv
<1> SUFFICES ASSUME Init PROVE Inv
  OBVIOUS
<1>1. SlotInv
  <2>1. SlotTypes
    BY DEF Init, SlotTypes, Location
  <2>2. IsFiniteSet(holders) /\ Cardinality(holders) = 0
    BY FS_EmptySet DEF Init
  <2>3. Seated = {} /\ Waiting = {}
    BY DEF Init, Seated, Waiting, Seats, Waits, Ticket
  <2>4. holders = {} /\ waitq = <<>> /\ DOMAIN waitq = {}
    BY DEF Init
  <2>5. QED
    BY <2>1, <2>2, <2>3, <2>4, CommandRunsAssumption DEF SlotInv, SlotDiscipline
<1>2. Positions
  BY DEF Init, Positions, Evaluating, InStage
<1>3. RestTypes
  BY CommandRunsAssumption DEF Init, RestTypes, Code
<1>4. QED
  BY <1>1, <1>2, <1>3, BucketInit DEF Inv, RunInv

LEMMA InvNext == Inv /\ [Next]_vars => Inv'
<1> SUFFICES ASSUME Inv, [Next]_vars PROVE Inv'
  OBVIOUS
<1>1. ASSUME NEW r \in Run, RunStep(r)
      PROVE Inv'
  <2>1. RunInv' /\ RestTypes'
    BY <1>1, RunStepKeeps, RestKept DEF Inv
  <2>2. BucketInv'
    <3>1. CASE UNCHANGED coolVars
      BY <3>1 DEF Inv, BucketInv, BucketTypes, BucketCovers, coolVars, RuleOf
    <3>2. CASE Start(r) /\ Cool(r, This(r).cmd)
      <4>1. This(r).cmd \in Cmd
        <5>1. at[r] \in 1 .. Len(Line(r))
          BY <3>2, LineType DEF Start, Inv, RunInv, Positions, Evaluating
        <5>2. QED
          BY <5>1, LineType DEF This, Stage
      <4>2. QED
        BY <3>2, <4>1, CoolKeeps DEF Inv
    <3>3. QED
      BY <1>1, <3>1, <3>2, StepBuckets
  <2>3. QED
    BY <2>1, <2>2 DEF Inv
<1>2. ASSUME NEW r \in Run, Moderate(r)
      PROVE Inv'
  <2>1. SlotInv'
    BY <1>2 DEF Inv, RunInv, Moderate, SlotInv, SlotTypes, SlotDiscipline, Seated, Waiting, slotVars
  <2>2. Positions'
    BY <1>2 DEF Inv, RunInv, Moderate, Positions, Line, runVars
  <2>3. RestTypes'
    BY <1>2 DEF Inv, Moderate, RestTypes, runVars, muteVars
  <2>4. BucketInv'
    BY <1>2 DEF Inv, Moderate, BucketInv, BucketTypes, BucketCovers, coolVars, RuleOf
  <2>5. QED
    BY <2>1, <2>2, <2>3, <2>4 DEF Inv, RunInv
<1>3. CASE Tick
  <2>1. SlotInv'
    BY <1>3 DEF Inv, RunInv, Tick, SlotInv, SlotTypes, SlotDiscipline, Seated, Waiting, slotVars
  <2>2. Positions'
    BY <1>3 DEF Inv, RunInv, Tick, Positions, Line, runVars
  <2>3. RestTypes'
    <3>1. ASSUME NEW k \in CallbackKeys
          PROVE Down(muted[k]) \in Nat /\ UpTo(quiet[k], CallbackGap) \in Nat
      BY CommandRunsAssumption DEF Inv, RestTypes, Down, UpTo
    <3>2. muted' \in [CallbackKeys -> Nat] /\ quiet' \in [CallbackKeys -> Nat]
      BY <1>3, <3>1 DEF Tick
    <3>3. QED
      BY <1>3, <3>2 DEF Inv, Tick, RestTypes, runVars
  <2>4. BucketInv'
    BY <1>3, TickKeeps DEF Inv
  <2>5. QED
    BY <2>1, <2>2, <2>3, <2>4 DEF Inv, RunInv
<1>4. CASE UNCHANGED vars
  <2>1. SlotInv'
    BY <1>4 DEF Inv, RunInv, vars, SlotInv, SlotTypes, SlotDiscipline, Seated, Waiting, slotVars
  <2>2. Positions'
    BY <1>4 DEF Inv, RunInv, vars, Positions, Line, runVars
  <2>3. RestTypes'
    BY <1>4 DEF Inv, vars, RestTypes, runVars, muteVars
  <2>4. BucketInv'
    BY <1>4 DEF Inv, vars, BucketInv, BucketTypes, BucketCovers, coolVars, RuleOf
  <2>5. QED
    BY <2>1, <2>2, <2>3, <2>4 DEF Inv, RunInv
<1>5. QED
  BY <1>1, <1>2, <1>3, <1>4 DEF Next

\* What is inside a slots block holds a slot and nobody else does, whatever the
\* number of runs, slots and lines (Dispatcher._slots).
THEOREM SlotSafety == Spec => [](TypeOK /\ SlotDiscipline)
<1>1. Inv => TypeOK /\ SlotDiscipline
  BY DEF Inv, RunInv, SlotInv, SlotTypes, Positions, RestTypes, BucketInv, BucketTypes, TypeOK
<1>2. QED
  BY <1>1, InvInit, InvNext, PTL DEF Spec

\* Only a claim that found both buckets clear starts a handler.
LEMMA StartsClear ==
  ASSUME Inv, [Next]_vars, NEW r \in Run, pc[r] = "expanding", pc'[r] = "handling"
  PROVE Start(r) /\ Ready(r, This(r).cmd)
<1>1. pc' # pc
  OBVIOUS
<1>2. ~Tick /\ ~(UNCHANGED vars)
  BY <1>1 DEF Tick, vars
<1>3. PICK q \in Run : RunStep(q) \/ Moderate(q)
  BY <1>2 DEF Next
<1>4. RunStep(q)
  BY <1>1, <1>3 DEF Moderate
<1>5. q = r
  <2>1. Others(q)
    BY <1>4, RunStepKeeps DEF Inv
  <2>2. QED
    BY <2>1 DEF Others
<1>6. Start(r) \/ BadArguments(r) \/ ExprTimeout(r)
  BY <1>4, <1>5 DEF RunStep, Progress, Arrive, Permit, Refuse, Look, Commit, RunCallback,
     SendReply, EndSilently, Reply, Crash, AskForEvent, Return, StageTimeout, InStage
<1>7. pc \in [Run -> Location]
  BY DEF Inv, RunInv, SlotInv, SlotTypes
<1>8. \A c : After(r, c) # "handling"
  BY NextStageBounds DEF After
<1>9. Start(r) /\ MayClaim(r, This(r).cmd)
  <2>1. ~BadArguments(r)
    BY <1>7, <1>8 DEF BadArguments, Go
  <2>2. ~ExprTimeout(r)
    BY <1>7 DEF ExprTimeout, LeaveStage, Go
  <2>3. CASE Start(r) /\ ~MayClaim(r, This(r).cmd)
    BY <1>7, <1>8, <2>3 DEF Start, Go
  <2>4. QED
    BY <1>6, <2>1, <2>2, <2>3
<1>10. QED
  BY <1>9 DEF MayClaim

\* Two starts from one bucket are at least its cooldown apart, for every rule,
\* line and interleaving (PolicyService.claim_cooldown).
THEOREM CooldownSafety == Spec => CooldownHonoured
<1> DEFINE Honoured ==
      \A r \in Run : pc[r] = "expanding" /\ pc'[r] = "handling" =>
        \A w \in Buckets(r) : since[This(r).cmd][w] >= RuleOf(This(r).cmd, w)
<1>1. ASSUME Inv, [Next]_vars, NEW r \in Run, pc[r] = "expanding", pc'[r] = "handling",
             NEW w \in Buckets(r)
      PROVE since[This(r).cmd][w] >= RuleOf(This(r).cmd, w)
  <2>1. at[r] \in 1 .. Len(Line(r))
    BY <1>1, LineType DEF Inv, RunInv, Positions, Evaluating
  <2>2. This(r).cmd \in Cmd /\ w \in Who
    BY <2>1, LineType, CommandRunsAssumption DEF This, Stage, Buckets, Who
  <2>3. cooling[This(r).cmd][w] = 0
    BY <1>1, StartsClear DEF Ready
  <2>4. QED
    BY <2>2, <2>3, <1>1, RuleNat DEF Inv, BucketInv, BucketTypes, BucketCovers
<1>2. Inv /\ [Next]_vars => [Honoured]_vars
  BY <1>1
<1>3. QED
  BY <1>2, InvInit, InvNext, PTL DEF Spec, CooldownHonoured

\* A command that acts on Twitch starts only while its message stands, for every
\* line and interleaving (Executor._invoke).
THEOREM ActSafety == Spec => NoActAfterModeration
<1> DEFINE Stands ==
      \A r \in Run : pc[r] = "expanding" /\ pc'[r] = "handling" /\ This(r).kind = "act" => ~invalid[r]
<1>1. ASSUME Inv, [Next]_vars, NEW r \in Run,
             pc[r] = "expanding", pc'[r] = "handling", This(r).kind = "act"
      PROVE ~invalid[r]
  <2>1. Start(r) /\ Ready(r, This(r).cmd)
    BY <1>1, StartsClear
  <2>2. pc \in [Run -> Location]
    BY <1>1 DEF Inv, RunInv, SlotInv, SlotTypes
  <2>3. QED
    BY <1>1, <2>1, <2>2 DEF Start, MayClaim, Go
<1>2. Inv /\ [Next]_vars => [Stands]_vars
  BY <1>1
<1>3. QED
  BY <1>2, InvInit, InvNext, PTL DEF Spec, NoActAfterModeration
-----------------------------------------------------------------------------
(* The callbacks. *)

\* What is left of a callback's rate limit and the time since it last answered make up the limit.
MutesCover == \A k \in CallbackKeys : muted[k] + quiet[k] >= CallbackGap

\* Callbacks are answered in RunCallback only, where they are ready.
LEMMA StepMutes ==
  ASSUME NEW r \in Run, RunStep(r) \/ Moderate(r)
  PROVE \/ UNCHANGED muteVars
        \/ \E k : /\ muted[k] = 0
                  /\ muted' = [muted EXCEPT ![k] = CallbackGap]
                  /\ quiet' = [quiet EXCEPT ![k] = 0]
<1>1. CASE Moderate(r)
  BY <1>1 DEF Moderate
<1>2. CASE Arrive(r) \/ AskForEvent(r)
  BY <1>2 DEF Arrive, AskForEvent
<1>3. CASE Return(r)
  BY <1>3 DEF Return
<1>4. CASE StageTimeout(r)
  BY <1>4 DEF StageTimeout
<1>5. CASE ExprTimeout(r)
  BY <1>5 DEF ExprTimeout, GiveUp
<1>6. CASE Permit(r) \/ Refuse(r)
  BY <1>6 DEF Permit, Refuse
<1>7. CASE Look(r)
  BY <1>7 DEF Look, GiveUp
<1>8. CASE BadArguments(r)
  BY <1>8 DEF BadArguments
<1>9. CASE Start(r)
  BY <1>9 DEF Start
<1>10. CASE Commit(r)
  BY <1>10 DEF Commit
<1>11. CASE RunCallback(r)
  BY <1>11 DEF RunCallback, CallbackReady
<1>12. CASE SendReply(r) \/ EndSilently(r)
  BY <1>12 DEF SendReply, EndSilently
<1>13. CASE Reply(r) \/ Crash(r)
  BY <1>13 DEF Reply, Crash
<1>14. QED
  BY <1>1, <1>2, <1>3, <1>4, <1>5, <1>6, <1>7, <1>8, <1>9, <1>10, <1>11, <1>12, <1>13
     DEF RunStep, Progress

\* Every step keeps the cover, and shortens the silence of a callback only when it was long enough.
LEMMA MutesNext ==
  ASSUME RestTypes, MutesCover, [Next]_vars
  PROVE /\ MutesCover'
        /\ \A k \in CallbackKeys : quiet'[k] < quiet[k] => quiet[k] >= CallbackGap
<1>1. \A k \in CallbackKeys : muted[k] \in Nat /\ quiet[k] \in Nat /\ muted[k] + quiet[k] >= CallbackGap
  BY DEF RestTypes, MutesCover
<1>2. CallbackGap \in Nat
  BY CommandRunsAssumption
<1>3. CASE UNCHANGED muteVars
  BY <1>1, <1>3 DEF muteVars, MutesCover
<1>4. CASE Tick
  <2>1. ASSUME NEW k \in CallbackKeys
        PROVE muted'[k] = Down(muted[k]) /\ quiet'[k] = UpTo(quiet[k], CallbackGap)
    BY <1>4 DEF Tick
  <2>2. QED
    BY <1>1, <1>2, <2>1 DEF Down, UpTo, MutesCover
<1>5. ASSUME NEW k, muted[k] = 0, muted' = [muted EXCEPT ![k] = CallbackGap], quiet' = [quiet EXCEPT ![k] = 0]
      PROVE /\ MutesCover'
            /\ \A j \in CallbackKeys : quiet'[j] < quiet[j] => quiet[j] >= CallbackGap
  <2>1. DOMAIN muted = CallbackKeys /\ DOMAIN quiet = CallbackKeys
    BY DEF RestTypes
  <2>2. ASSUME NEW j \in CallbackKeys
        PROVE \/ muted'[j] = muted[j] /\ quiet'[j] = quiet[j]
              \/ muted[j] = 0 /\ muted'[j] = CallbackGap /\ quiet'[j] = 0
    BY <1>5, <2>1
  <2>3. QED
    BY <1>1, <1>2, <2>2 DEF MutesCover
<1>6. QED
  <2>1. CASE Tick
    BY <1>4, <2>1
  <2>2. CASE UNCHANGED vars
    BY <1>3, <2>2 DEF vars
  <2>3. ASSUME NEW r \in Run, RunStep(r) \/ Moderate(r)
        PROVE /\ MutesCover'
              /\ \A k \in CallbackKeys : quiet'[k] < quiet[k] => quiet[k] >= CallbackGap
    BY <1>3, <1>5, <2>3, StepMutes
  <2>4. QED
    BY <2>1, <2>2, <2>3 DEF Next

\* The callback of one chatter, command and refusal answers at most once in its rate limit, for every
\* limit, line and interleaving (PolicyService.callback_expr).
THEOREM CallbackSafety == Spec => CallbacksSpaced
<1> DEFINE Spaced == \A k \in CallbackKeys : quiet'[k] < quiet[k] => quiet[k] >= CallbackGap
<1>1. Init => MutesCover
  <2>1. ASSUME Init, NEW k \in CallbackKeys
        PROVE muted[k] + quiet[k] >= CallbackGap
    <3>1. muted[k] = 0 /\ quiet[k] = CallbackGap /\ CallbackGap \in Nat
      BY <2>1, CommandRunsAssumption DEF Init
    <3>2. QED
      BY <3>1
  <2>2. QED
    BY <2>1 DEF MutesCover
<1>2. Inv /\ MutesCover /\ [Next]_vars => MutesCover' /\ [Spaced]_vars
  BY MutesNext DEF Inv
<1>3. QED
  BY <1>1, <1>2, InvInit, InvNext, PTL DEF Spec, CallbacksSpaced
=============================================================================
