---------------------------- MODULE StorageProofs ----------------------------
(***************************************************************************)
(* What is written is stored, whole and in its order.                      *)
(*                                                                         *)
(* The commits of variables implement AtomicStore, for any number of runs, *)
(* any lines, any values and any limits that change meanwhile: a run's     *)
(* writes are stored all at once, in order and on top of what is there, or *)
(* not at all, over concurrent commits, refusals, failures and crashes.    *)
(*                                                                         *)
(* The chat log, for any archive, gaps, events and sizes: what a backfill  *)
(* notes of a gap is kept, and a live deletion marks the row of its        *)
(* message.                                                                *)
(***************************************************************************)
EXTENDS VariableCommits, Backfill, SequenceTheorems, FiniteSetTheorems, WellFoundedInduction, TLAPS

-----------------------------------------------------------------------------
(* What one write makes of a value does not depend on a limit that lets it *)
(* through, and several make what they make one after another.             *)

\* Only an append looks at a limit, and only to refuse.
LEMMA LeafUnlimited ==
  ASSUME NEW v, NEW op, NEW l, ~Failed(ApplyLeaf(v, op, l))
  PROVE ApplyLeaf(v, op, l) = ApplyLeaf(v, op, NoLimits)
<1>1. CASE op.kind # "append"
  BY <1>1 DEF ApplyLeaf
<1>2. CASE op.kind = "append"
  <2>1. ApplyLeaf(v, op, l) = AppendTo(v, op.value, l) /\ ApplyLeaf(v, op, NoLimits) = AppendTo(v, op.value, NoLimits)
    BY <1>2 DEF ApplyLeaf
  <2>2. ASSUME NEW items PROVE ~Full(items, NoLimits)
    BY DEF Full, NoLimits
  <2>3. Failed(Failure("E_LIST_FULL"))
    BY DEF Failed, Failure
  <2>4. QED
    BY <2>1, <2>2, <2>3 DEF AppendTo
<1>3. QED
  BY <1>1, <1>2

\* apply_op: so it is inside a value, at the end of any path.
LEMMA OpUnlimited ==
  ASSUME NEW v, NEW op, NEW l, ~Failed(ApplyOp(v, op, l))
  PROVE ApplyOp(v, op, l) = ApplyOp(v, op, NoLimits)
<1>1. ASSUME NEW root, ~Failed(ApplyAt(root, op, l))
      PROVE ApplyAt(root, op, l) = ApplyAt(root, op, NoLimits)
  <2> DEFINE end == Walk(root, op)[Len(op.path)]
  <2>1. CASE Failed(end)
    BY <2>1 DEF ApplyAt
  <2>2. CASE ~Failed(end)
    <3>1. ~Failed(ApplyLeaf(end, op, l))
      BY <1>1, <2>2 DEF ApplyAt
    <3>2. ApplyLeaf(end, op, l) = ApplyLeaf(end, op, NoLimits)
      BY <3>1, LeafUnlimited
    <3>3. QED
      BY <2>2, <3>2 DEF ApplyAt
  <2>3. QED
    BY <2>1, <2>2
<1>2. QED
  BY <1>1, LeafUnlimited DEF ApplyOp

\* What holds of 0, and of each number's successor when of the number, holds of all numbers.
LEMMA Successors ==
  ASSUME NEW S, 0 \in S, \A n \in Nat : n \in S => n + 1 \in S
  PROVE Nat \subseteq S
<1> DEFINE T == Nat \ S
           R == OpToRel(<, Nat)
<1>1. SUFFICES ASSUME T # {} PROVE FALSE
  OBVIOUS
<1>2. IsWellFoundedOn(R, Nat)
  BY NatLessThanWellFounded
<1>3. \A x, y \in Nat : x < y => <<x, y>> \in R
  BY DEF OpToRel
<1>4. T \subseteq Nat
  OBVIOUS
<1> HIDE DEF R, T
<1>5. PICK n \in T : \A k \in T : ~(<<k, n>> \in R)
  BY <1>1, <1>2, <1>4, WFMin
<1>6. n \in Nat /\ n \notin S
  BY DEF T
<1>7. n # 0 /\ n - 1 \in Nat /\ n - 1 < n /\ (n - 1) + 1 = n
  BY <1>6
<1>8. n - 1 \in S
  BY <1>3, <1>5, <1>6, <1>7 DEF T
<1>9. QED
  BY <1>6, <1>7, <1>8

\* Made is what its recursive definition says, whatever the operations.
LEMMA MadeIs ==
  ASSUME NEW v, NEW os, Len(os) \in Nat
  PROVE /\ Made(v, os)[0] = v
        /\ \A i \in 1..Len(os) :
             LET u == Made(v, os)[i - 1]
             IN Made(v, os)[i] = [u EXCEPT ![os[i].key] = ApplyOp(@, os[i], NoLimits)]
<1> DEFINE Step(u, i) == [u EXCEPT ![os[i].key] = ApplyOp(@, os[i], NoLimits)]
           Is(f, n) == f = [i \in 0..n |-> IF i = 0 THEN v ELSE Step(f[i - 1], i)]
           Some == {n \in Nat : \E f : Is(f, n)}
<1>1. Made(v, os) = CHOOSE f : Is(f, Len(os))
  BY DEF Made
<1>2. 0 \in Some
  <2> DEFINE f == [i \in 0..0 |-> v]
  <2>1. Is(f, 0)
    OBVIOUS
  <2>2. QED
    BY <2>1
<1> HIDE DEF Step
<1>3. ASSUME NEW n \in Nat, n \in Some PROVE n + 1 \in Some
  <2>1. PICK f : Is(f, n)
    BY <1>3
  <2> DEFINE g == [i \in 0..(n + 1) |-> IF i = n + 1 THEN Step(f[n], n + 1) ELSE f[i]]
             h == [i \in 0..(n + 1) |-> IF i = 0 THEN v ELSE Step(g[i - 1], i)]
  <2>2. ASSUME NEW i \in 0..(n + 1) PROVE g[i] = h[i]
    <3>1. CASE i = n + 1
      <4>1. g[i - 1] = f[n] /\ i # 0 /\ i - 1 = n
        BY <3>1
      <4>2. QED
        BY <3>1, <4>1
    <3>2. CASE i # n + 1 /\ i # 0
      <4>1. i \in 0..n /\ i - 1 \in 0..(n + 1) /\ i - 1 # n + 1
        BY <3>2
      <4>2. g[i] = f[i] /\ g[i - 1] = f[i - 1]
        BY <3>2, <4>1
      <4>3. f[i] = Step(f[i - 1], i)
        BY <2>1, <3>2, <4>1
      <4>4. QED
        BY <3>2, <4>2, <4>3
    <3>3. CASE i = 0
      BY <2>1, <3>3
    <3>4. QED
      BY <3>1, <3>2, <3>3
  <2>3. g = h
    BY <2>2
  <2>4. Is(g, n + 1)
    BY <2>3
  <2>5. n + 1 \in Nat
    OBVIOUS
  <2> HIDE DEF Is, g
  <2>6. QED
    BY <2>4, <2>5
<1>4. Len(os) \in Some
  <2> HIDE DEF Some
  <2>1. QED
    BY <1>2, <1>3, Successors
<1>5. Is(Made(v, os), Len(os))
  BY <1>1, <1>4
<1>6. ASSUME NEW i \in 1..Len(os)
      PROVE Made(v, os)[i] = Step(Made(v, os)[i - 1], i)
  BY <1>5
<1>7. Made(v, os)[0] = v
  BY <1>5
<1>8. QED
  BY <1>6, <1>7 DEF Step

-----------------------------------------------------------------------------
(* The invariant. *)

\* A sequence, of whatever it holds.
IsSequence(s) == s \in Seq({s[i] : i \in 1..Len(s)})

Shapes ==
  /\ DOMAIN pc = Run /\ DOMAIN at = Run /\ DOMAIN ops = Run /\ DOMAIN outcome = Run
  /\ \A r \in Run : IsSequence(ops[r])
  /\ lockq \in Seq(Run)

\* Who commits has the lock and who waits for it queues for it, once each.
Queued ==
  /\ \A i \in 1..Len(lockq) : pc[lockq[i]] = IF i = 1 THEN "applying" ELSE "waiting"
  /\ \A r \in Run : pc[r] \in {"applying", "waiting"} => \E i \in 1..Len(lockq) : lockq[i] = r
  /\ \A i, j \in 1..Len(lockq) : lockq[i] = lockq[j] => i = j

\* Nothing is decided of a run that is under way.
Undecided == \A r \in Run : pc[r] # "done" => outcome[r] = "none"

\* The connection sees what is stored, and what the operations so far of the run that commits make of it.
WorkMade ==
  /\ lockq = <<>> => work = db
  /\ \A r \in Run : pc[r] = "waiting" => at[r] = 1
  /\ \A r \in Run : pc[r] = "applying" =>
       at[r] \in 1..(Len(ops[r]) + 1) /\ work = Made(db, ops[r])[at[r] - 1]

CommitInv == Shapes /\ Queued /\ Undecided /\ WorkMade

LEMMA LengthIs ==
  ASSUME NEW s, IsSequence(s)
  PROVE Len(s) \in Nat
BY DEF IsSequence

LEMMA AppendIs ==
  ASSUME NEW s, IsSequence(s), NEW e
  PROVE IsSequence(Append(s, e))
<1> DEFINE T == {s[i] : i \in 1..Len(s)} \cup {e}
           u == Append(s, e)
<1>1. s \in Seq({s[i] : i \in 1..Len(s)}) /\ Len(s) \in Nat
  BY DEF IsSequence
<1>2. s \in Seq(T)
  <2>1. \A i \in 1..Len(s) : s[i] \in T
    OBVIOUS
  <2>2. QED
    BY <1>1, <2>1
<1> HIDE DEF T
<1>3. u \in Seq(T) /\ Len(u) = Len(s) + 1
  <2>1. e \in T
    BY DEF T
  <2>2. QED
    BY <1>2, <2>1
<1> HIDE DEF u
<1>4. u \in Seq({u[i] : i \in 1..Len(u)})
  BY <1>3
<1>5. QED
  BY <1>4 DEF u, IsSequence

LEMMA CommitInit == Init => CommitInv /\ Atomic!Init
<1> SUFFICES ASSUME Init PROVE CommitInv /\ Atomic!Init
  OBVIOUS
<1>1. Shapes
  <2>1. IsSequence(<<>>)
    BY DEF IsSequence
  <2>2. QED
    BY <2>1 DEF Init, Shapes
<1>2. Queued /\ Undecided
  BY DEF Init, Queued, Undecided
<1>3. WorkMade
  BY DEF Init, WorkMade
<1>4. Atomic!Init
  BY DEF Init, Atomic!Init
<1>5. QED
  BY <1>1, <1>2, <1>3, <1>4 DEF CommitInv

\* Only the head of the queue commits.
LEMMA HeadApplies ==
  ASSUME Shapes, Queued, NEW r \in Run, pc[r] = "applying"
  PROVE lockq # <<>> /\ Len(lockq) \in Nat \ {0} /\ lockq[1] = r
<1>1. PICK i \in 1..Len(lockq) : lockq[i] = r
  BY DEF Queued
<1>2. i = 1
  BY <1>1 DEF Queued
<1>3. QED
  BY <1>1, <1>2 DEF Shapes

-----------------------------------------------------------------------------
(* Evaluation: a run that is being evaluated buffers writes or reads. *)

Evaluates(r) ==
  /\ pc[r] \in {"evaluating", "popping"}
  /\ \/ pc' = pc
     \/ \E where \in {"evaluating", "popping"} : pc' = [pc EXCEPT ![r] = where]
  /\ at' = at \/ at' = [at EXCEPT ![r] = @ + 1]
  /\ ops' = ops \/ \E op : ops' = [ops EXCEPT ![r] = Append(@, op)]
  /\ UNCHANGED <<outcome, db, work, lockq>>

LEMMA EvaluationSteps ==
  ASSUME NEW r \in Run,
         \/ StoreResult(r) \/ VarGet(r) \/ VarList(r) \/ VarUsage(r) \/ VarTop(r) \/ VarSet(r) \/ VarPop(r)
         \/ BufferPop(r) \/ VarDel(r) \/ CustomEcho(r)
  PROVE Evaluates(r)
<1>1. StoreResult(r) => Evaluates(r)
  BY DEF StoreResult, Evaluating, Buffer, Evaluates
<1>2. VarGet(r) => Evaluates(r)
  BY DEF VarGet, Evaluating, Evaluates
<1>3. VarList(r) => Evaluates(r)
  BY DEF VarList, Evaluating, Evaluates
<1>4. VarUsage(r) => Evaluates(r)
  BY DEF VarUsage, Evaluating, Evaluates
<1>5. VarTop(r) => Evaluates(r)
  BY DEF VarTop, Evaluating, Evaluates
<1>6. VarSet(r) => Evaluates(r)
  BY DEF VarSet, Evaluating, Buffer, Evaluates
<1>7. VarPop(r) => Evaluates(r)
  BY DEF VarPop, Evaluating, Evaluates
<1>8. BufferPop(r) => Evaluates(r)
  BY DEF BufferPop, Buffer, Evaluates
<1>9. VarDel(r) => Evaluates(r)
  BY DEF VarDel, Evaluating, Buffer, Evaluates
<1>10. CustomEcho(r) => Evaluates(r)
  BY DEF CustomEcho, Evaluating, Buffer, Evaluates
<1>11. QED
  BY <1>1, <1>2, <1>3, <1>4, <1>5, <1>6, <1>7, <1>8, <1>9, <1>10

LEMMA EvaluationStep ==
  ASSUME CommitInv, NEW r \in Run, Evaluates(r)
  PROVE CommitInv' /\ [Atomic!Next]_(Atomic!vars)
<1>1. ASSUME NEW q \in Run
      PROVE /\ pc'[q] = pc[q] \/ (q = r /\ pc[q] \in {"evaluating", "popping"} /\ pc'[q] \in {"evaluating", "popping"})
            /\ q # r => at'[q] = at[q] /\ ops'[q] = ops[q]
            /\ ops'[q] # ops[q] => pc[q] # "done"
            /\ IsSequence(ops'[q])
  <2>1. DOMAIN pc = Run /\ DOMAIN at = Run /\ DOMAIN ops = Run /\ IsSequence(ops[q])
    BY DEF CommitInv, Shapes
  <2>2. ASSUME NEW op PROVE IsSequence(Append(ops[q], op))
    BY <2>1, AppendIs
  <2>3. IsSequence(ops'[q])
    <3>1. CASE ops' = ops
      BY <2>1, <3>1
    <3>2. ASSUME NEW op, ops' = [ops EXCEPT ![r] = Append(@, op)]
          PROVE IsSequence(ops'[q])
      <4>1. ops'[q] = ops[q] \/ ops'[q] = Append(ops[q], op)
        BY <2>1, <3>2
      <4>2. QED
        BY <2>1, <2>2, <4>1
    <3>3. QED
      BY <3>1, <3>2 DEF Evaluates
  <2>4. QED
    BY <2>1, <2>3 DEF Evaluates
<1>2. UNCHANGED <<outcome, db, work, lockq>> /\ DOMAIN ops' = Run /\ DOMAIN pc' = Run /\ DOMAIN at' = Run
  BY DEF Evaluates, CommitInv, Shapes
<1>3. Shapes'
  BY <1>1, <1>2 DEF CommitInv, Shapes
<1>4. ASSUME NEW q \in Run, pc[q] \in {"applying", "waiting"} \/ pc'[q] \in {"applying", "waiting"}
      PROVE pc'[q] = pc[q] /\ q # r
  BY <1>1, <1>4 DEF Evaluates
<1>5. Queued'
  <2>1. \A i \in 1..Len(lockq) : lockq[i] \in Run
    BY DEF CommitInv, Shapes
  <2>2. QED
    BY <1>2, <1>4, <2>1 DEF CommitInv, Queued
<1>6. Undecided'
  BY <1>1, <1>2 DEF CommitInv, Undecided
<1>7. WorkMade'
  BY <1>1, <1>2, <1>4 DEF CommitInv, WorkMade
<1>8. Atomic!Ask
  BY <1>1, <1>2 DEF CommitInv, Undecided, Atomic!Ask
<1>9. QED
  BY <1>3, <1>5, <1>6, <1>7, <1>8 DEF CommitInv, Atomic!Next

-----------------------------------------------------------------------------
(* The commit. *)

\* A run that joins the queue is at its end, or holds the lock at once.
LEMMA QueueStep ==
  ASSUME CommitInv, NEW r \in Run, pc[r] \in {"evaluating", "popping"}, Queue(r),
         DOMAIN at' = Run, DOMAIN ops' = Run, at'[r] = 1, IsSequence(ops'[r]),
         \A q \in Run \ {r} : at'[q] = at[q] /\ ops'[q] = ops[q],
         UNCHANGED <<outcome, db, work>>
  PROVE CommitInv'
<1>1. Shapes /\ Queued /\ Undecided /\ WorkMade
  BY DEF CommitInv
<1>2. /\ lockq' \in Seq(Run) /\ Len(lockq') = Len(lockq) + 1 /\ Len(lockq) \in Nat
      /\ \A i \in 1..Len(lockq) : lockq'[i] = lockq[i] /\ lockq[i] \in Run
      /\ lockq'[Len(lockq) + 1] = r
  BY <1>1 DEF Queue, Shapes
<1>3. /\ DOMAIN pc' = Run /\ pc'[r] = IF lockq = <<>> THEN "applying" ELSE "waiting"
      /\ \A q \in Run \ {r} : pc'[q] = pc[q]
  BY <1>1 DEF Queue, Shapes
<1>4. \A i \in 1..Len(lockq) : lockq[i] # r
  BY <1>1 DEF Queued
<1>5. lockq = <<>> <=> Len(lockq) = 0
  BY <1>1 DEF Shapes
<1>6. Shapes'
  BY <1>1, <1>2, <1>3 DEF Shapes
<1>7. Queued'
  <2>1. ASSUME NEW i \in 1..Len(lockq')
        PROVE pc'[lockq'[i]] = IF i = 1 THEN "applying" ELSE "waiting"
    <3>1. CASE i = Len(lockq) + 1
      BY <1>2, <1>3, <1>5, <3>1
    <3>2. CASE i # Len(lockq) + 1
      <4>1. i \in 1..Len(lockq)
        BY <1>2, <3>2
      <4>2. lockq'[i] = lockq[i] /\ lockq[i] \in Run \ {r}
        BY <1>2, <1>4, <4>1
      <4>3. QED
        BY <1>1, <1>3, <4>1, <4>2 DEF Queued
    <3>3. QED
      BY <3>1, <3>2
  <2>2. ASSUME NEW q \in Run, pc'[q] \in {"applying", "waiting"}
        PROVE \E i \in 1..Len(lockq') : lockq'[i] = q
    <3>1. CASE q = r
      BY <1>2, <3>1
    <3>2. CASE q # r
      <4>1. PICK i \in 1..Len(lockq) : lockq[i] = q
        BY <1>1, <1>3, <2>2, <3>2 DEF Queued
      <4>2. i \in 1..Len(lockq') /\ lockq'[i] = q
        BY <1>2, <4>1
      <4>3. QED
        BY <4>2
    <3>3. QED
      BY <3>1, <3>2
  <2>3. ASSUME NEW i \in 1..Len(lockq'), NEW j \in 1..Len(lockq'), lockq'[i] = lockq'[j]
        PROVE i = j
    <3>1. i \in 1..Len(lockq) \/ i = Len(lockq) + 1
      BY <1>2
    <3>2. j \in 1..Len(lockq) \/ j = Len(lockq) + 1
      BY <1>2
    <3>3. QED
      BY <1>1, <1>2, <1>4, <2>3, <3>1, <3>2 DEF Queued
  <2>4. QED
    BY <2>1, <2>2, <2>3 DEF Queued
<1>8. Undecided'
  BY <1>1, <1>3 DEF Undecided
<1>9. WorkMade'
  <2>1. lockq' # <<>>
    BY <1>2
  <2>2. ASSUME NEW q \in Run, pc'[q] = "waiting" PROVE at'[q] = 1
    BY <1>1, <1>3, <2>2 DEF WorkMade
  <2>3. ASSUME NEW q \in Run, pc'[q] = "applying"
        PROVE at'[q] \in 1..(Len(ops'[q]) + 1) /\ work' = Made(db', ops'[q])[at'[q] - 1]
    <3>1. CASE q = r
      <4>1. work = db
        BY <1>1, <1>3, <2>3, <3>1 DEF WorkMade
      <4>2. Len(ops'[r]) \in Nat /\ Made(db, ops'[r])[0] = db
        BY LengthIs, MadeIs
      <4>3. QED
        BY <3>1, <4>1, <4>2
    <3>2. CASE q # r
      BY <1>1, <1>3, <2>3, <3>2 DEF WorkMade
    <3>3. QED
      BY <3>1, <3>2
  <2>4. QED
    BY <2>1, <2>2, <2>3 DEF WorkMade
<1>10. QED
  BY <1>6, <1>7, <1>8, <1>9 DEF CommitInv

\* Who waits longest is next, and finds what is stored.
LEMMA ReleaseStep ==
  ASSUME CommitInv, NEW r \in Run, pc[r] = "applying", Release(r), UNCHANGED <<at, ops>>, work' = db',
         DOMAIN outcome' = Run, \A q \in Run \ {r} : outcome'[q] = outcome[q]
  PROVE CommitInv'
<1>1. Shapes /\ Queued /\ Undecided /\ WorkMade
  BY DEF CommitInv
<1>2. lockq # <<>> /\ Len(lockq) \in Nat \ {0} /\ lockq[1] = r /\ lockq \in Seq(Run)
  BY <1>1, HeadApplies DEF Shapes
<1>3. /\ lockq' \in Seq(Run) /\ Len(lockq') = Len(lockq) - 1
      /\ \A i \in 1..Len(lockq') : i + 1 \in 2..Len(lockq) /\ lockq'[i] = lockq[i + 1]
  BY <1>2 DEF Release
<1>4. ASSUME NEW i \in 2..Len(lockq)
      PROVE /\ lockq[i] \in Run \ {r} /\ pc[lockq[i]] = "waiting"
            /\ pc'[lockq[i]] = IF i = 2 THEN "applying" ELSE "waiting"
  <2>1. i \in 1..Len(lockq) /\ 1 \in 1..Len(lockq) /\ i # 1 /\ lockq[i] \in Run
    BY <1>2
  <2>2. lockq[i] # r /\ pc[lockq[i]] = "waiting"
    BY <1>1, <1>2, <2>1 DEF Queued
  <2>3. Len(lockq) > 1 /\ 2 \in 1..Len(lockq)
    BY <1>2
  <2>4. lockq[i] = lockq[2] <=> i = 2
    BY <1>1, <2>1, <2>3 DEF Queued
  <2>5. QED
    BY <2>1, <2>2, <2>3, <2>4 DEF Release
<1>5. ASSUME NEW q \in Run, pc'[q] \in {"applying", "waiting"}
      PROVE q # r /\ pc[q] = "waiting" /\ \E i \in 2..Len(lockq) : lockq[i] = q
  <2>1. q # r /\ (pc'[q] = pc[q] \/ (Len(lockq) > 1 /\ q = lockq[2]))
    BY <1>5 DEF Release
  <2>2. pc[q] \in {"applying", "waiting"}
    <3>1. CASE Len(lockq) > 1 /\ q = lockq[2]
      <4>1. 2 \in 2..Len(lockq)
        BY <1>2, <3>1
      <4>2. QED
        BY <1>4, <3>1, <4>1
    <3>2. QED
      BY <1>5, <2>1, <3>1
  <2>3. PICK i \in 1..Len(lockq) : lockq[i] = q
    BY <1>1, <2>2 DEF Queued
  <2>4. i \in 2..Len(lockq)
    BY <1>2, <2>1, <2>3
  <2>5. QED
    BY <1>4, <2>1, <2>3, <2>4
<1>6. Shapes'
  BY <1>1, <1>3 DEF Shapes, Release
<1>7. Queued'
  <2>1. ASSUME NEW i \in 1..Len(lockq')
        PROVE pc'[lockq'[i]] = IF i = 1 THEN "applying" ELSE "waiting"
    <3>1. i + 1 \in 2..Len(lockq) /\ lockq'[i] = lockq[i + 1] /\ (i + 1 = 2 <=> i = 1)
      BY <1>3
    <3>2. QED
      BY <1>4, <3>1
  <2>2. ASSUME NEW q \in Run, pc'[q] \in {"applying", "waiting"}
        PROVE \E i \in 1..Len(lockq') : lockq'[i] = q
    <3>1. PICK i \in 2..Len(lockq) : lockq[i] = q
      BY <1>5, <2>2
    <3>2. i - 1 \in 1..Len(lockq') /\ (i - 1) + 1 = i
      BY <1>2, <1>3
    <3>3. lockq'[i - 1] = q
      BY <1>3, <3>1, <3>2
    <3>4. QED
      BY <3>2, <3>3
  <2>3. ASSUME NEW i \in 1..Len(lockq'), NEW j \in 1..Len(lockq'), lockq'[i] = lockq'[j]
        PROVE i = j
    <3>1. i + 1 \in 1..Len(lockq) /\ j + 1 \in 1..Len(lockq)
      BY <1>2, <1>3
    <3>2. lockq[i + 1] = lockq[j + 1]
      BY <1>3, <2>3
    <3>3. i + 1 = j + 1
      BY <1>1, <3>1, <3>2 DEF Queued
    <3>4. QED
      BY <3>3
  <2>4. QED
    BY <2>1, <2>2, <2>3 DEF Queued
<1>8. Undecided'
  <2>1. ASSUME NEW q \in Run, pc'[q] # "done" PROVE q # r /\ pc[q] # "done"
    <3>1. q # r /\ (pc'[q] = pc[q] \/ (Len(lockq) > 1 /\ q = lockq[2]))
      BY <2>1 DEF Release
    <3>2. CASE Len(lockq) > 1 /\ q = lockq[2]
      <4>1. 2 \in 2..Len(lockq)
        BY <1>2, <3>2
      <4>2. QED
        BY <1>4, <3>1, <3>2, <4>1
    <3>3. QED
      BY <2>1, <3>1, <3>2
  <2>2. QED
    BY <1>1, <2>1 DEF Undecided
<1>9. WorkMade'
  <2>1. ASSUME NEW q \in Run, pc'[q] = "waiting" PROVE at'[q] = 1
    BY <1>1, <1>5, <2>1 DEF WorkMade
  <2>2. ASSUME NEW q \in Run, pc'[q] = "applying"
        PROVE at'[q] \in 1..(Len(ops'[q]) + 1) /\ work' = Made(db', ops'[q])[at'[q] - 1]
    <3>1. at[q] = 1
      BY <1>1, <1>5, <2>2 DEF WorkMade
    <3>2. Len(ops[q]) \in Nat /\ Made(db', ops[q])[0] = db'
      BY <1>1, LengthIs, MadeIs DEF Shapes
    <3>3. QED
      BY <3>1, <3>2
  <2>3. QED
    BY <2>1, <2>2 DEF WorkMade
<1>10. QED
  BY <1>6, <1>7, <1>8, <1>9 DEF CommitInv

\* One operation more of the run that commits: what is stored stays as it was.
LEMMA ApplyStep ==
  ASSUME CommitInv, NEW r \in Run, ApplyNext(r)
  PROVE CommitInv' /\ UNCHANGED Atomic!vars
<1> DEFINE op == ops[r][at[r]]
<1>1. Shapes /\ Queued /\ Undecided /\ WorkMade
  BY DEF CommitInv
<1>2. pc[r] = "applying" /\ Len(ops[r]) \in Nat /\ at[r] \in 1..Len(ops[r])
  BY <1>1, LengthIs DEF ApplyNext, Applying, WorkMade, Shapes
<1>3. work = Made(db, ops[r])[at[r] - 1]
  BY <1>1, <1>2 DEF WorkMade
<1>4. ~Failed(ApplyOp(work[op.key], op, LimitsOf(Owner(op.key)))) /\ Stored(r) = ApplyOp(work[op.key], op, LimitsOf(Owner(op.key)))
  <2>1. Failed(Failure("E_VALUE_TOO_BIG"))
    BY DEF Failed, Failure
  <2>2. QED
    BY <2>1 DEF ApplyNext, Stored
<1>5. Stored(r) = ApplyOp(work[op.key], op, NoLimits)
  BY <1>4, OpUnlimited
<1>6. work' = Made(db, ops[r])[at[r]]
  <2>1. work' = [work EXCEPT ![op.key] = ApplyOp(@, op, NoLimits)]
    BY <1>5 DEF ApplyNext
  <2>2. LET u == Made(db, ops[r])[at[r] - 1]
        IN Made(db, ops[r])[at[r]] = [u EXCEPT ![op.key] = ApplyOp(@, op, NoLimits)]
    <3>1. \A i \in 1..Len(ops[r]) :
            LET u == Made(db, ops[r])[i - 1]
            IN Made(db, ops[r])[i] = [u EXCEPT ![ops[r][i].key] = ApplyOp(@, ops[r][i], NoLimits)]
      BY <1>2, MadeIs, SMTT(60)
    <3>2. QED
      BY <1>2, <3>1
  <2>3. QED
    BY <1>3, <2>1, <2>2
<1>7. UNCHANGED <<pc, ops, outcome, db, lockq>> /\ at' = [at EXCEPT ![r] = @ + 1]
  BY DEF ApplyNext
<1>8. Shapes' /\ Queued' /\ Undecided'
  BY <1>1, <1>7 DEF Shapes, Queued, Undecided
<1>9. WorkMade'
  <2>1. lockq' # <<>>
    BY <1>1, <1>2, <1>7, HeadApplies
  <2>2. ASSUME NEW q \in Run, pc'[q] = "waiting" PROVE at'[q] = 1
    BY <1>1, <1>2, <1>7, <2>2 DEF WorkMade, Shapes
  <2>3. ASSUME NEW q \in Run, pc'[q] = "applying" PROVE q = r
    BY <1>1, <1>2, <1>7, <2>3, HeadApplies
  <2>4. at'[r] = at[r] + 1 /\ at'[r] \in 1..(Len(ops'[r]) + 1) /\ at'[r] - 1 = at[r]
    BY <1>1, <1>2, <1>7 DEF Shapes
  <2>5. QED
    BY <1>6, <1>7, <2>1, <2>2, <2>3, <2>4 DEF WorkMade
<1>10. QED
  BY <1>7, <1>8, <1>9 DEF CommitInv, Atomic!vars

\* A commit stores what every operation of the run makes of what is there.
LEMMA CommitStep ==
  ASSUME CommitInv, NEW r \in Run, Commit(r)
  PROVE CommitInv' /\ Atomic!Store(r)
<1>1. Shapes /\ Undecided /\ WorkMade
  BY DEF CommitInv
<1>2. pc[r] = "applying" /\ Len(ops[r]) \in Nat /\ at[r] - 1 = Len(ops[r])
  BY <1>1, LengthIs DEF Commit, WorkMade, Shapes
<1>3. Applied(db, ops[r], db')
  BY <1>1, <1>2 DEF WorkMade, Commit, Applied
<1>4. outcome[r] = "none" /\ outcome' = [outcome EXCEPT ![r] = "stored"] /\ ops' = ops
  BY <1>1, <1>2 DEF Undecided, Commit
<1>5. CommitInv'
  <2>1. DOMAIN outcome' = Run /\ \A q \in Run \ {r} : outcome'[q] = outcome[q]
    BY <1>1, <1>4 DEF Shapes
  <2>2. Release(r) /\ UNCHANGED <<at, ops>> /\ work' = db'
    BY DEF Commit
  <2>3. QED
    BY <1>2, <2>1, <2>2, ReleaseStep
<1>6. QED
  BY <1>3, <1>4, <1>5 DEF Atomic!Store

\* Whatever ends a commit otherwise leaves what is stored as it was.
LEMMA RollBackStep ==
  ASSUME CommitInv, NEW r \in Run, RollBack(r)
  PROVE CommitInv' /\ Atomic!Drop
<1>1. Shapes /\ Undecided
  BY DEF CommitInv
<1>2. pc[r] = "applying" /\ outcome[r] = "none"
  BY <1>1 DEF RollBack, Undecided
<1>3. /\ DOMAIN outcome' = Run /\ outcome'[r] \in {"refused", "failed"}
      /\ \A q \in Run \ {r} : outcome'[q] = outcome[q]
  BY <1>1 DEF RollBack, Shapes
<1>4. CommitInv'
  <2>1. Release(r) /\ UNCHANGED <<at, ops>> /\ work' = db'
    BY DEF RollBack
  <2>2. QED
    BY <1>2, <1>3, <2>1, ReleaseStep
<1>5. QED
  BY <1>2, <1>3, <1>4 DEF RollBack, Atomic!Drop

-----------------------------------------------------------------------------
(* The other steps. *)

LEMMA EndStep ==
  ASSUME CommitInv, NEW r \in Run, EndEvaluation(r)
  PROVE CommitInv' /\ [Atomic!Next]_(Atomic!vars)
<1>1. Shapes /\ Queued /\ Undecided /\ WorkMade
  BY DEF CommitInv
<1>2. /\ pc[r] \in {"evaluating", "popping"} /\ at' = [at EXCEPT ![r] = 1] /\ UNCHANGED <<ops, db, work>>
      /\ outcome[r] = "none"
  BY <1>1 DEF EndEvaluation, Undecided
<1>3. DOMAIN at' = Run /\ at'[r] = 1 /\ \A q \in Run \ {r} : at'[q] = at[q]
  BY <1>1, <1>2 DEF Shapes
<1>4. CASE pc' = [pc EXCEPT ![r] = "done"] /\ outcome' = [outcome EXCEPT ![r] = "empty"] /\ lockq' = lockq
  <2>1. DOMAIN pc' = Run /\ pc'[r] = "done" /\ \A q \in Run \ {r} : pc'[q] = pc[q]
    BY <1>1, <1>4 DEF Shapes
  <2>2. DOMAIN outcome' = Run /\ outcome'[r] = "empty" /\ \A q \in Run \ {r} : outcome'[q] = outcome[q]
    BY <1>1, <1>4 DEF Shapes
  <2>3. Shapes'
    BY <1>1, <1>2, <1>3, <1>4, <2>1, <2>2 DEF Shapes
  <2>4. Queued'
    <3>1. \A i \in 1..Len(lockq) : lockq[i] \in Run \ {r}
      BY <1>1, <1>2 DEF Queued, Shapes
    <3>2. QED
      BY <1>1, <1>4, <2>1, <3>1 DEF Queued
  <2>5. Undecided'
    BY <1>1, <2>1, <2>2 DEF Undecided
  <2>6. WorkMade'
    BY <1>1, <1>2, <1>3, <1>4, <2>1 DEF WorkMade
  <2>7. Atomic!Drop
    BY <1>2, <2>2 DEF Atomic!Drop
  <2>8. QED
    BY <2>3, <2>4, <2>5, <2>6, <2>7 DEF CommitInv, Atomic!Next
<1>5. CASE Queue(r) /\ outcome' = outcome
  <2>1. IsSequence(ops'[r]) /\ DOMAIN ops' = Run /\ \A q \in Run \ {r} : ops'[q] = ops[q]
    BY <1>1, <1>2 DEF Shapes
  <2>2. CommitInv'
    BY <1>2, <1>3, <1>5, <2>1, QueueStep
  <2>3. QED
    BY <1>2, <1>5, <2>2 DEF Atomic!vars
<1>6. QED
  BY <1>4, <1>5 DEF EndEvaluation

LEMMA DiscardStep ==
  ASSUME CommitInv, NEW r \in Run, Discard(r)
  PROVE CommitInv' /\ Atomic!Drop
<1>1. Shapes /\ Queued /\ Undecided /\ WorkMade
  BY DEF CommitInv
<1>2. pc[r] \in {"evaluating", "popping"} /\ UNCHANGED <<at, ops, db, work, lockq>> /\ outcome[r] = "none"
  BY <1>1 DEF Discard, Undecided
<1>3. DOMAIN pc' = Run /\ pc'[r] = "done" /\ \A q \in Run \ {r} : pc'[q] = pc[q]
  BY <1>1 DEF Discard, Shapes
<1>4. DOMAIN outcome' = Run /\ outcome'[r] = "discarded" /\ \A q \in Run \ {r} : outcome'[q] = outcome[q]
  BY <1>1 DEF Discard, Shapes
<1>5. Shapes'
  BY <1>1, <1>2, <1>3, <1>4 DEF Shapes
<1>6. Queued'
  <2>1. \A i \in 1..Len(lockq) : lockq[i] \in Run \ {r}
    BY <1>1, <1>2 DEF Queued, Shapes
  <2>2. QED
    BY <1>1, <1>2, <1>3, <2>1 DEF Queued
<1>7. Undecided' /\ WorkMade'
  BY <1>1, <1>2, <1>3, <1>4 DEF Undecided, WorkMade
<1>8. Atomic!Drop
  BY <1>2, <1>4 DEF Atomic!Drop
<1>9. QED
  BY <1>5, <1>6, <1>7, <1>8 DEF CommitInv

LEMMA WebStep ==
  ASSUME CommitInv, NEW r \in Run, WebWrite(r)
  PROVE CommitInv' /\ Atomic!Ask
<1>1. Shapes /\ Undecided
  BY DEF CommitInv
<1>2. PICK op : ops' = [ops EXCEPT ![r] = <<op>>]
  BY DEF WebWrite
<1>3. /\ pc[r] = "evaluating" /\ at[r] = 1 /\ Queue(r) /\ UNCHANGED <<at, outcome, db, work>>
      /\ outcome[r] = "none"
  BY <1>1 DEF WebWrite, Undecided
<1>4. DOMAIN ops' = Run /\ ops'[r] = <<op>> /\ \A q \in Run \ {r} : ops'[q] = ops[q]
  BY <1>1, <1>2 DEF Shapes
<1>5. IsSequence(<<op>>)
  BY DEF IsSequence
<1>6. CommitInv'
  BY <1>1, <1>3, <1>4, <1>5, QueueStep DEF Shapes
<1>7. QED
  BY <1>3, <1>4, <1>6 DEF Atomic!Ask

LEMMA CrashStep ==
  ASSUME CommitInv, Crash
  PROVE CommitInv' /\ Atomic!Drop
<1>1. Shapes /\ Undecided
  BY DEF CommitInv
<1>2. /\ pc' = [r \in Run |-> "done"] /\ outcome' = [r \in Run |-> IF pc[r] = "done" THEN outcome[r] ELSE "lost"]
      /\ work' = db /\ lockq' = <<>> /\ UNCHANGED <<at, ops, db>>
  BY DEF Crash
<1>3. Shapes'
  BY <1>1, <1>2 DEF Shapes
<1>4. Queued' /\ Undecided' /\ WorkMade'
  BY <1>2 DEF Queued, Undecided, WorkMade
<1>5. Atomic!Drop
  BY <1>1, <1>2 DEF Undecided, Atomic!Drop
<1>6. QED
  BY <1>3, <1>4, <1>5 DEF CommitInv

\* Every step keeps the invariant, and is a step of AtomicStore or leaves its variables alone.
LEMMA CommitNext ==
  ASSUME CommitInv, [Next]_vars
  PROVE CommitInv' /\ [Atomic!Next]_(Atomic!vars)
<1>1. ASSUME UNCHANGED <<pc, at, ops, outcome, db, work, lockq>>
      PROVE CommitInv' /\ [Atomic!Next]_(Atomic!vars)
  BY <1>1 DEF CommitInv, Shapes, Queued, Undecided, WorkMade, Atomic!vars
<1>2. CASE UNCHANGED vars
  BY <1>1, <1>2 DEF vars
<1>3. CASE LimitCommand \/ LimitPage \/ LimitField
  BY <1>1, <1>3 DEF LimitCommand, LimitPage, LimitField
<1>4. CASE Crash
  BY <1>4, CrashStep DEF Atomic!Next
<1>5. ASSUME NEW r \in Run,
             \/ StoreResult(r) \/ VarGet(r) \/ VarList(r) \/ VarUsage(r) \/ VarTop(r) \/ VarSet(r) \/ VarPop(r)
             \/ BufferPop(r) \/ VarDel(r) \/ CustomEcho(r)
      PROVE CommitInv' /\ [Atomic!Next]_(Atomic!vars)
  <2>1. Evaluates(r)
    BY <1>5, EvaluationSteps
  <2>2. QED
    BY <2>1, EvaluationStep
<1>6. ASSUME NEW r \in Run, WebWrite(r) \/ EndEvaluation(r) \/ Discard(r)
      PROVE CommitInv' /\ [Atomic!Next]_(Atomic!vars)
  BY <1>6, WebStep, EndStep, DiscardStep DEF Atomic!Next
<1>7. ASSUME NEW r \in Run, ApplyNext(r) \/ Commit(r) \/ RollBack(r)
      PROVE CommitInv' /\ [Atomic!Next]_(Atomic!vars)
  BY <1>7, ApplyStep, CommitStep, RollBackStep DEF Atomic!Next
<1>8. QED
  BY <1>2, <1>3, <1>4, <1>5, <1>6, <1>7 DEF Next

\* A run's writes are stored all at once, in order and on top of what is there, or not at all
\* (PostgresVariableStore.commit, VariableSession, transaction; ADR-0010).
THEOREM AtomicSafety == Spec => CommitsAreAtomic
<1>1. Init => CommitInv /\ Atomic!Init
  BY CommitInit
<1>2. CommitInv /\ [Next]_vars => CommitInv' /\ [Atomic!Next]_(Atomic!vars)
  BY CommitNext
<1>3. QED
  BY <1>1, <1>2, PTL DEF Spec, CommitsAreAtomic, Atomic!Spec

-----------------------------------------------------------------------------
(* The limits hold of what a commit stores, not of what its run saw. *)

\* What a commit has written so far fits the limits: they cannot change before it is over.
WrittenFits ==
  \A r \in Run : pc[r] = "applying" =>
    \A key \in Key : work[key] # db[key] => ~(Size(work[key]) > LimitsOf(Owner(key)).cap)

FitInv == DOMAIN db = Key /\ DOMAIN work = Key /\ WrittenFits

\* Nothing is written yet, or no more than was and under the same limits.
LEMMA FitKept ==
  ASSUME FitInv, DOMAIN db' = Key, DOMAIN work' = Key,
         \/ work' = db'
         \/ /\ UNCHANGED <<db, work, limits>>
            /\ \A q \in Run : pc'[q] = "applying" => pc[q] = "applying"
  PROVE FitInv'
BY DEF FitInv, WrittenFits, LimitsOf

\* A write of the commit is held to the cap there is now.
LEMMA FitApply ==
  ASSUME CommitInv, FitInv, NEW r \in Run, ApplyNext(r)
  PROVE FitInv'
<1> DEFINE op == ops[r][at[r]]
           cap == LimitsOf(Owner(op.key)).cap
<1>1. ~(Size(Stored(r)) > cap)
  <2>1. Failed(Failure("E_VALUE_TOO_BIG")) /\ ~Failed(Stored(r))
    BY DEF Failed, Failure, ApplyNext
  <2> DEFINE new == ApplyOp(work[op.key], op, LimitsOf(Owner(op.key)))
  <2>2. Stored(r) = IF ~Failed(new) /\ Size(new) > cap THEN Failure("E_VALUE_TOO_BIG") ELSE new
    BY DEF Stored
  <2> HIDE DEF new, cap
  <2>3. QED
    BY <2>1, <2>2
<1>2. work' = [work EXCEPT ![op.key] = Stored(r)] /\ UNCHANGED <<pc, db, limits>> /\ pc[r] = "applying"
  BY DEF ApplyNext, Applying
<1>3. DOMAIN work' = Key /\ DOMAIN db' = Key
  BY <1>2 DEF FitInv
<1>4. ASSUME NEW key \in Key, work'[key] # db[key]
      PROVE ~(Size(work'[key]) > LimitsOf(Owner(key)).cap)
  <2>1. CASE key = op.key
    BY <1>1, <1>2, <2>1 DEF FitInv
  <2>2. CASE key # op.key
    <3>1. work'[key] = work[key]
      BY <1>2, <2>2 DEF FitInv
    <3>2. QED
      BY <1>2, <1>4, <3>1 DEF FitInv, WrittenFits
  <2>3. QED
    BY <2>1, <2>2
<1>5. WrittenFits'
  BY <1>2, <1>4 DEF WrittenFits, LimitsOf
<1>6. QED
  BY <1>3, <1>5 DEF FitInv

LEMMA FitNext ==
  ASSUME CommitInv, FitInv, [Next]_vars
  PROVE FitInv' /\ [QuotaKept /\ CapKept]_db
<1>1. DOMAIN db = Key /\ DOMAIN work = Key /\ DOMAIN pc = Run /\ WorkMade /\ Queued
  BY DEF FitInv, CommitInv, Shapes
<1>2. CASE UNCHANGED vars
  BY <1>1, <1>2, FitKept DEF vars
<1>3. CASE LimitCommand \/ LimitField
  <2>1. UNCHANGED <<db, work, pc>> /\ (limits' = limits \/ lockq = <<>>)
    BY <1>3 DEF LimitCommand, LimitField, SetLimit
  <2>2. QED
    BY <1>1, <2>1, FitKept DEF WorkMade
<1>4. CASE LimitPage
  BY <1>1, <1>4, FitKept DEF LimitPage
<1>5. CASE Crash
  BY <1>1, <1>5, FitKept DEF Crash
<1>6. ASSUME NEW r \in Run,
             \/ StoreResult(r) \/ VarGet(r) \/ VarList(r) \/ VarUsage(r) \/ VarTop(r) \/ VarSet(r) \/ VarPop(r)
             \/ BufferPop(r) \/ VarDel(r) \/ CustomEcho(r)
      PROVE FitInv' /\ [QuotaKept /\ CapKept]_db
  <2>1. Evaluates(r)
    BY <1>6, EvaluationSteps
  <2>2. limits' = limits
    BY <1>6 DEF StoreResult, VarGet, VarList, VarUsage, VarTop, VarSet, VarPop, BufferPop, VarDel, CustomEcho
  <2>3. UNCHANGED <<db, work>> /\ \A q \in Run : pc'[q] = "applying" => pc[q] = "applying"
    BY <1>1, <2>1 DEF Evaluates
  <2>4. QED
    BY <1>1, <2>2, <2>3, FitKept
<1>7. ASSUME NEW r \in Run, WebWrite(r) \/ EndEvaluation(r) \/ Discard(r)
      PROVE FitInv' /\ [QuotaKept /\ CapKept]_db
  <2>1. UNCHANGED <<db, work, limits>>
    BY <1>7 DEF WebWrite, EndEvaluation, Discard
  <2>2. Queue(r) \/ pc' = [pc EXCEPT ![r] = "done"]
    BY <1>7 DEF WebWrite, EndEvaluation, Discard
  <2>3. lockq = <<>> \/ \A q \in Run : pc'[q] = "applying" => pc[q] = "applying"
    BY <1>1, <2>2 DEF Queue
  <2>4. QED
    BY <1>1, <2>1, <2>3, FitKept DEF WorkMade
<1>8. ASSUME NEW r \in Run, ApplyNext(r)
      PROVE FitInv' /\ [QuotaKept /\ CapKept]_db
  <2>1. UNCHANGED db
    BY <1>8 DEF ApplyNext
  <2>2. QED
    BY <1>8, <2>1, FitApply
<1>9. ASSUME NEW r \in Run, Commit(r)
      PROVE FitInv' /\ [QuotaKept /\ CapKept]_db
  <2>1. db' = work /\ work' = work /\ pc[r] = "applying" /\ ~OverQuota
    BY <1>9 DEF Commit
  <2>2. QuotaKept
    BY <2>1 DEF QuotaKept, OverQuota
  <2>3. CapKept
    BY <2>1 DEF CapKept, FitInv, WrittenFits
  <2>4. QED
    BY <1>1, <2>1, <2>2, <2>3, FitKept
<1>10. ASSUME NEW r \in Run, RollBack(r)
       PROVE FitInv' /\ [QuotaKept /\ CapKept]_db
  BY <1>1, <1>10, FitKept DEF RollBack
<1>11. QED
  BY <1>2, <1>3, <1>4, <1>5, <1>6, <1>7, <1>8, <1>9, <1>10 DEF Next

\* No commit takes an owner further over its quota or leaves a value it changed over the cap, as the
\* limits are when it is stored and however they changed since its run read them (check_quota,
\* check_value_cap and the write lock; ADR-0019).
THEOREM FitSafety == Spec => [][QuotaKept /\ CapKept]_db
<1>1. Init => CommitInv /\ FitInv
  <2>1. SUFFICES ASSUME Init PROVE FitInv
    BY CommitInit
  <2>2. db = Start /\ work = Start /\ \A r \in Run : pc[r] = "evaluating"
    BY <2>1 DEF Init
  <2>3. QED
    BY <2>2, VariableCommitsAssumption DEF FitInv, WrittenFits
<1>2. CommitInv /\ FitInv /\ [Next]_vars => CommitInv' /\ FitInv' /\ [QuotaKept /\ CapKept]_db
  BY CommitNext, FitNext
<1>3. QED
  BY <1>1, <1>2, PTL DEF Spec

-----------------------------------------------------------------------------
(* The tables.                                                             *)

Operation ==
  [op : {"message"}, msg : Message, source : {"eventsub", "ivr-logs"}]
  \cup [op : {"mod_event", "flag"}, event : {e \in Event : e.kind # "message"}]

Item == Operation \cup {Stop}

Tables == [messages : [Message -> Row \cup {NoRow}], mods : SUBSET Event]

\* No row goes, and no mark of a deletion.
Outgrows(a, b) ==
  /\ \A m \in Message : a.messages[m] # NoRow =>
       b.messages[m] # NoRow /\ (a.messages[m].deleted => b.messages[m].deleted)
  /\ a.mods \subseteq b.mods

\* The operation's row is stored.
Done(o, b) ==
  /\ o.op = "message" => b.messages[o.msg] # NoRow
  /\ o.op = "mod_event" => o.event \in b.mods

Deleted(m, b) == b.messages[m] # NoRow /\ b.messages[m].deleted

LEMMA FlagsAre ==
  ASSUME NEW row \in Row \cup {NoRow}, NEW field \in {"deleted", "cleared"}, NEW yes \in BOOLEAN
  PROVE /\ Flags(row, field, yes) \in Row \cup {NoRow}
        /\ row # NoRow => Flags(row, field, yes) # NoRow /\ (row.deleted => Flags(row, field, yes).deleted)
        /\ row # NoRow /\ yes /\ field = "deleted" => Flags(row, field, yes).deleted
<1>1. row # NoRow => row \in Row
  OBVIOUS
<1>2. NoRow \notin Row
  BY DEF NoRow, Row
<1>3. CASE row # NoRow /\ yes /\ field = "deleted"
  BY <1>1, <1>2, <1>3 DEF Flags, Row
<1>4. CASE row # NoRow /\ yes /\ field = "cleared"
  BY <1>1, <1>2, <1>4 DEF Flags, Row
<1>5. CASE ~(row # NoRow /\ yes)
  BY <1>5 DEF Flags
<1> QED
  BY <1>3, <1>4, <1>5

LEMMA ExecuteIs ==
  ASSUME NEW a \in Tables, NEW o \in Item
  PROVE /\ Execute(a, o) \in Tables /\ Outgrows(a, Execute(a, o)) /\ Done(o, Execute(a, o))
        /\ \A m \in Message : o.op = "flag" /\ o.event.kind = "delete" /\ o.event.msg = m /\ a.messages[m] # NoRow
                                => Deleted(m, Execute(a, o))
<1> DEFINE b == Execute(a, o)
<1>1. NoRow \notin Row /\ Stop \notin Operation /\ Stop.op = "stop"
  BY DEF NoRow, Row, Stop, Operation
<1>2. CASE o.op = "message"
  <2>1. o.msg \in Message /\ o.source \in {"eventsub", "ivr-logs"}
    BY <1>1, <1>2 DEF Operation, Item
  <2>2. CASE a.messages[o.msg] # NoRow
    <3>1. b = a
      BY <1>2, <2>2 DEF Execute
    <3> QED
      BY <1>2, <2>2, <3>1 DEF Outgrows, Done
  <2>3. CASE a.messages[o.msg] = NoRow
    <3> DEFINE row == [source |-> o.source, deleted |-> FALSE, cleared |-> FALSE]
    <3>1. row \in Row
      BY <2>1 DEF Row
    <3>2. b = [a EXCEPT !.messages = [a.messages EXCEPT ![o.msg] = row]]
      BY <1>2, <2>3 DEF Execute
    <3> HIDE DEF row, b
    <3>3. b.messages = [a.messages EXCEPT ![o.msg] = row] /\ b.mods = a.mods /\ b = [messages |-> b.messages, mods |-> b.mods]
      BY <3>2 DEF Tables
    <3>4. b \in Tables
      BY <2>1, <3>1, <3>3 DEF Tables
    <3>5. \A m \in Message : b.messages[m] = IF m = o.msg THEN row ELSE a.messages[m]
      BY <2>1, <3>3 DEF Tables
    <3>6. row # NoRow
      BY <1>1, <3>1
    <3>7. Outgrows(a, b)
      BY <2>3, <3>3, <3>5 DEF Outgrows
    <3>8. Done(o, b)
      BY <1>2, <2>1, <3>5, <3>6 DEF Done
    <3> QED
      BY <1>2, <3>4, <3>7, <3>8 DEF b
  <2> QED
    BY <2>2, <2>3
<1>3. CASE o.op = "mod_event"
  <2>1. o.event \in Event
    BY <1>1, <1>3 DEF Operation, Item
  <2>2. b = [a EXCEPT !.mods = @ \cup {o.event}]
    BY <1>3 DEF Execute
  <2> HIDE DEF b
  <2>3. b.messages = a.messages /\ b.mods = a.mods \cup {o.event} /\ b = [messages |-> b.messages, mods |-> b.mods]
    BY <2>2 DEF Tables
  <2>4. b \in Tables
    BY <2>1, <2>3 DEF Tables
  <2> QED
    BY <1>3, <2>3, <2>4 DEF Outgrows, Done, b
<1>4. CASE o.op = "flag"
  <2> DEFINE e == o.event
             turned(m) == IF e.kind = "delete" THEN Flags(a.messages[m], "deleted", m = e.msg)
                          ELSE Flags(a.messages[m], "cleared", SentAt[m] <= e.at /\ (e.kind = "clear" => UserOf[m] = e.user))
  <2>1. b = [a EXCEPT !.messages = [m \in Message |-> turned(m)]]
    BY <1>4 DEF Execute
  <2>2. \A m \in Message : /\ turned(m) \in Row \cup {NoRow}
                           /\ a.messages[m] # NoRow =>
                                turned(m) # NoRow /\ (a.messages[m].deleted => turned(m).deleted)
                           /\ a.messages[m] # NoRow /\ e.kind = "delete" /\ m = e.msg => turned(m).deleted
    <3> SUFFICES ASSUME NEW m \in Message
                 PROVE /\ turned(m) \in Row \cup {NoRow}
                       /\ a.messages[m] # NoRow =>
                            turned(m) # NoRow /\ (a.messages[m].deleted => turned(m).deleted)
                       /\ a.messages[m] # NoRow /\ e.kind = "delete" /\ m = e.msg => turned(m).deleted
      OBVIOUS
    <3>1. a.messages[m] \in Row \cup {NoRow}
      BY DEF Tables
    <3>2. \A yes \in BOOLEAN : \A field \in {"deleted", "cleared"} :
            /\ Flags(a.messages[m], field, yes) \in Row \cup {NoRow}
            /\ a.messages[m] # NoRow => /\ Flags(a.messages[m], field, yes) # NoRow
                                        /\ a.messages[m].deleted => Flags(a.messages[m], field, yes).deleted
            /\ a.messages[m] # NoRow /\ yes /\ field = "deleted" => Flags(a.messages[m], field, yes).deleted
      BY <3>1, FlagsAre
    <3>3. CASE e.kind = "delete"
      <4>1. (m = e.msg) \in BOOLEAN /\ turned(m) = Flags(a.messages[m], "deleted", m = e.msg)
        BY <3>3
      <4> QED
        BY <3>2, <3>3, <4>1
    <3>4. CASE e.kind # "delete"
      <4> DEFINE yes == SentAt[m] <= e.at /\ (e.kind = "clear" => UserOf[m] = e.user)
      <4>1. yes \in BOOLEAN /\ turned(m) = Flags(a.messages[m], "cleared", yes)
        BY <3>4
      <4> QED
        BY <3>2, <3>4, <4>1
    <3> QED
      BY <3>3, <3>4
  <2> HIDE DEF b, turned
  <2>3. b.messages = [m \in Message |-> turned(m)] /\ b.mods = a.mods /\ b = [messages |-> b.messages, mods |-> b.mods]
    BY <2>1 DEF Tables
  <2>4. b \in Tables
    BY <2>2, <2>3 DEF Tables
  <2> QED
    BY <1>4, <2>2, <2>3, <2>4 DEF Outgrows, Done, Deleted, b
<1>5. CASE o.op = "stop"
  <2>1. b = a
    BY <1>5 DEF Execute
  <2> QED
    BY <1>5, <2>1 DEF Outgrows, Done
<1> QED
  BY <1>1, <1>2, <1>3, <1>4, <1>5 DEF Item, Operation

\* Executed is what its recursive definition says, whatever the operations.
LEMMA ExecutedIs ==
  ASSUME NEW a, NEW os, Len(os) \in Nat
  PROVE /\ Executed(a, os)[0] = a
        /\ \A i \in 1..Len(os) : Executed(a, os)[i] = Execute(Executed(a, os)[i - 1], os[i])
<1> DEFINE Is(f, n) == f = [i \in 0..n |-> IF i = 0 THEN a ELSE Execute(f[i - 1], os[i])]
           Some == {n \in Nat : \E f : Is(f, n)}
<1>1. Executed(a, os) = CHOOSE f : Is(f, Len(os))
  BY DEF Executed
<1>2. 0 \in Some
  <2> DEFINE f == [i \in 0..0 |-> a]
  <2>1. Is(f, 0)
    OBVIOUS
  <2> QED
    BY <2>1
<1>3. ASSUME NEW n \in Nat, n \in Some PROVE n + 1 \in Some
  <2>1. PICK f : Is(f, n)
    BY <1>3
  <2> DEFINE g == [i \in 0..(n + 1) |-> IF i = n + 1 THEN Execute(f[n], os[n + 1]) ELSE f[i]]
             h == [i \in 0..(n + 1) |-> IF i = 0 THEN a ELSE Execute(g[i - 1], os[i])]
  <2>2. ASSUME NEW i \in 0..(n + 1) PROVE g[i] = h[i]
    <3>1. CASE i = n + 1
      <4>1. g[i - 1] = f[n] /\ i # 0 /\ i - 1 = n
        BY <3>1
      <4> QED
        BY <3>1, <4>1
    <3>2. CASE i # n + 1 /\ i # 0
      <4>1. i \in 0..n /\ i - 1 \in 0..(n + 1) /\ i - 1 # n + 1
        BY <3>2
      <4>2. g[i] = f[i] /\ g[i - 1] = f[i - 1]
        BY <3>2, <4>1
      <4>3. f[i] = Execute(f[i - 1], os[i])
        BY <2>1, <3>2, <4>1
      <4> QED
        BY <3>2, <4>2, <4>3
    <3>3. CASE i = 0
      BY <2>1, <3>3
    <3> QED
      BY <3>1, <3>2, <3>3
  <2>3. g = h
    BY <2>2
  <2>4. Is(g, n + 1)
    BY <2>3
  <2>5. n + 1 \in Nat
    OBVIOUS
  <2> HIDE DEF Is, g
  <2> QED
    BY <2>4, <2>5
<1>4. Len(os) \in Some
  <2> HIDE DEF Some
  <2> QED
    BY <1>2, <1>3, Successors
<1>5. Is(Executed(a, os), Len(os))
  BY <1>1, <1>4
<1>6. ASSUME NEW i \in 1..Len(os)
      PROVE Executed(a, os)[i] = Execute(Executed(a, os)[i - 1], os[i])
  BY <1>5
<1>7. Executed(a, os)[0] = a
  BY <1>5
<1> QED
  BY <1>6, <1>7

LEMMA OutgrowsOn ==
  ASSUME NEW a, NEW b, NEW d, Outgrows(a, b), Outgrows(b, d)
  PROVE Outgrows(a, d)
  BY DEF Outgrows

LEMMA DoneStays ==
  ASSUME NEW o \in Item, NEW a, NEW b, Outgrows(a, b), Done(o, a)
  PROVE Done(o, b)
  BY DEF Outgrows, Done, Item, Operation, Stop

LEMMA DeletedStays ==
  ASSUME NEW m \in Message, NEW a, NEW b, Outgrows(a, b), Deleted(m, a)
  PROVE Deleted(m, b)
  BY DEF Outgrows, Deleted

Deletes(o, m) == o.op = "flag" /\ o.event.kind = "delete" /\ o.event.msg = m
Says(o, m) == o.op = "message" /\ o.msg = m

\* The operations come to the tables in their order: all are done, and a deletion behind its message finds it.
LEMMA BatchDone ==
  ASSUME NEW a \in Tables, NEW os \in Seq(Item)
  PROVE LET b == Executed(a, os)[Len(os)]
        IN /\ b \in Tables /\ Outgrows(a, b)
           /\ \A i \in 1 .. Len(os) : Done(os[i], b)
           /\ \A m \in Message : \A j \in 1 .. Len(os) :
                Deletes(os[j], m) /\ (a.messages[m] # NoRow \/ \E i \in 1 .. j - 1 : Says(os[i], m)) => Deleted(m, b)
<1> DEFINE after(n) == Executed(a, os)[n]
           Right(n) ==
             /\ after(n) \in Tables /\ Outgrows(a, after(n))
             /\ \A i \in 1 .. n : Done(os[i], after(n))
             /\ \A m \in Message : \A j \in 1 .. n :
                  Deletes(os[j], m) /\ (a.messages[m] # NoRow \/ \E i \in 1 .. j - 1 : Says(os[i], m))
                    => Deleted(m, after(n))
           S == {n \in Nat : n <= Len(os) => Right(n)}
<1>1. Len(os) \in Nat /\ \A i \in 1 .. Len(os) : os[i] \in Item
  OBVIOUS
<1>2. after(0) = a /\ \A i \in 1 .. Len(os) : after(i) = Execute(after(i - 1), os[i])
  BY <1>1, ExecutedIs
<1> HIDE DEF after
<1>3. 0 \in S
  <2>1. Outgrows(a, a)
    BY DEF Outgrows
  <2>2. Right(0)
    BY <1>2, <2>1
  <2> QED
    BY <2>2
<1>4. ASSUME NEW n \in Nat, n \in S PROVE n + 1 \in S
  <2> SUFFICES ASSUME n + 1 <= Len(os)
               PROVE Right(n + 1)
    OBVIOUS
  <2>1. Right(n) /\ n + 1 \in 1 .. Len(os)
    BY <1>1, <1>4
  <2> DEFINE o == os[n + 1]
             u == after(n)
             v == after(n + 1)
  <2>2. o \in Item /\ u \in Tables
    BY <1>1, <2>1
  <2>3. v = Execute(u, o)
    BY <1>2, <2>1
  <2>4. /\ v \in Tables /\ Outgrows(u, v) /\ Done(o, v)
        /\ \A m \in Message : Deletes(o, m) /\ u.messages[m] # NoRow => Deleted(m, v)
    BY <2>2, <2>3, ExecuteIs DEF Deletes
  <2>5. Outgrows(a, v)
    BY <2>1, <2>4, OutgrowsOn
  <2>6. \A i \in 1 .. n + 1 : Done(os[i], v)
    <3> SUFFICES ASSUME NEW i \in 1 .. n + 1
                 PROVE Done(os[i], v)
      OBVIOUS
    <3>1. CASE i = n + 1
      BY <2>4, <3>1
    <3>2. CASE i # n + 1
      <4>1. i \in 1 .. n /\ os[i] \in Item
        BY <1>1, <2>1, <3>2
      <4>2. Done(os[i], u)
        BY <2>1, <4>1
      <4> QED
        BY <2>4, <4>1, <4>2, DoneStays
    <3> QED
      BY <3>1, <3>2
  <2>7. ASSUME NEW m \in Message, NEW j \in 1 .. n + 1, Deletes(os[j], m),
               a.messages[m] # NoRow \/ \E i \in 1 .. j - 1 : Says(os[i], m)
        PROVE Deleted(m, v)
    <3>1. CASE j # n + 1
      <4>1. j \in 1 .. n
        BY <3>1
      <4>2. Deleted(m, u)
        BY <2>1, <2>7, <4>1
      <4> QED
        BY <2>4, <4>2, DeletedStays
    <3>2. CASE j = n + 1
      <4>1. u.messages[m] # NoRow
        <5>1. CASE a.messages[m] # NoRow
          BY <2>1, <5>1 DEF Outgrows
        <5>2. CASE \E i \in 1 .. j - 1 : Says(os[i], m)
          <6>1. PICK i \in 1 .. j - 1 : Says(os[i], m)
            BY <5>2
          <6>2. i \in 1 .. n
            BY <3>2, <6>1
          <6>3. Done(os[i], u)
            BY <2>1, <6>2
          <6> QED
            BY <6>1, <6>3 DEF Done, Says
        <5> QED
          BY <2>7, <5>1, <5>2
      <4> QED
        BY <2>4, <2>7, <3>2, <4>1
    <3> QED
      BY <3>1, <3>2
  <2> HIDE DEF o, u
  <2> QED
    BY <2>4, <2>5, <2>6, <2>7
<1>5. Len(os) \in S
  <2> HIDE DEF S
  <2> QED
    BY <1>1, <1>3, <1>4, Successors
<1>6. Right(Len(os))
  BY <1>1, <1>5
<1> QED
  BY <1>6 DEF after

-----------------------------------------------------------------------------
(* The queue.                                                              *)

LEMMA Joined ==
  ASSUME NEW s \in Seq(Item), NEW t \in Seq(Item)
  PROVE s \o t \in Seq(Item) /\ ToSet(s \o t) = ToSet(s) \cup ToSet(t)
<1>1. /\ s \o t \in Seq(Item) /\ Len(s \o t) = Len(s) + Len(t) /\ Len(s) \in Nat /\ Len(t) \in Nat
      /\ \A i \in 1 .. Len(s) + Len(t) : (s \o t)[i] = IF i <= Len(s) THEN s[i] ELSE t[i - Len(s)]
  BY ConcatProperties
<1>2. \A i \in 1 .. Len(s) : s[i] = (s \o t)[i] /\ i \in 1 .. Len(s \o t)
  BY <1>1
<1>3. \A i \in 1 .. Len(t) : t[i] = (s \o t)[i + Len(s)] /\ i + Len(s) \in 1 .. Len(s \o t)
  <2> SUFFICES ASSUME NEW i \in 1 .. Len(t)
               PROVE t[i] = (s \o t)[i + Len(s)] /\ i + Len(s) \in 1 .. Len(s \o t)
    OBVIOUS
  <2>1. i + Len(s) \in 1 .. Len(s) + Len(t) /\ ~(i + Len(s) <= Len(s)) /\ i + Len(s) - Len(s) = i
    BY <1>1
  <2> QED
    BY <1>1, <2>1
<1>4. \A i \in 1 .. Len(s \o t) : (s \o t)[i] \in ToSet(s) \cup ToSet(t)
  <2> SUFFICES ASSUME NEW i \in 1 .. Len(s \o t)
               PROVE (s \o t)[i] \in ToSet(s) \cup ToSet(t)
    OBVIOUS
  <2>1. CASE i <= Len(s)
    BY <1>1, <2>1 DEF ToSet
  <2>2. CASE ~(i <= Len(s))
    <3>1. i - Len(s) \in 1 .. Len(t) /\ (s \o t)[i] = t[i - Len(s)]
      BY <1>1, <2>2
    <3> QED
      BY <3>1 DEF ToSet
  <2> QED
    BY <2>1, <2>2
<1>5. DOMAIN s = 1 .. Len(s) /\ DOMAIN t = 1 .. Len(t) /\ DOMAIN (s \o t) = 1 .. Len(s \o t)
  BY <1>1
<1> HIDE DEF Item
<1>6. ToSet(s \o t) \subseteq ToSet(s) \cup ToSet(t)
  BY <1>4, <1>5 DEF ToSet
<1>7. ToSet(s) \subseteq ToSet(s \o t) /\ ToSet(t) \subseteq ToSet(s \o t)
  BY <1>2, <1>3, <1>5 DEF ToSet
<1> QED
  BY <1>1, <1>6, <1>7

\* What is put and what waits to be put.
LEMMA Parted ==
  ASSUME NEW s \in Seq(Item), NEW n \in 0 .. Len(s)
  PROVE /\ SubSeq(s, 1, n) \in Seq(Item) /\ SubSeq(s, n + 1, Len(s)) \in Seq(Item) /\ Len(SubSeq(s, 1, n)) = n
        /\ \A i \in 1 .. n : SubSeq(s, 1, n)[i] = s[i]
        /\ ToSet(s) \subseteq ToSet(SubSeq(s, 1, n)) \cup ToSet(SubSeq(s, n + 1, Len(s)))
<1>1. Len(s) \in Nat /\ DOMAIN s = 1 .. Len(s) /\ \A i \in 1 .. Len(s) : s[i] \in Item
  OBVIOUS
<1>2. /\ SubSeq(s, 1, n) \in Seq(Item) /\ Len(SubSeq(s, 1, n)) = n
      /\ \A i \in 1 .. n : SubSeq(s, 1, n)[i] = s[i]
  BY <1>1
<1>3. /\ SubSeq(s, n + 1, Len(s)) \in Seq(Item) /\ Len(SubSeq(s, n + 1, Len(s))) = Len(s) - n
      /\ \A i \in 1 .. Len(s) - n : SubSeq(s, n + 1, Len(s))[i] = s[n + i]
  <2> DEFINE k == n + 1
  <2>1. k \in 1 .. Len(s) + 1 /\ Len(s) \in k - 1 .. Len(s) /\ Len(s) - k + 1 = Len(s) - n
    BY <1>1
  <2>2. /\ SubSeq(s, k, Len(s)) \in Seq(Item) /\ Len(SubSeq(s, k, Len(s))) = Len(s) - k + 1
        /\ \A i \in 1 .. Len(s) - k + 1 : SubSeq(s, k, Len(s))[i] = s[k + i - 1]
    <3> HIDE DEF k
    <3> QED
      BY <2>1, SubSeqProperties
  <2>3. \A i \in 1 .. Len(s) - n : k + i - 1 = n + i
    BY <1>1
  <2> QED
    BY <2>1, <2>2, <2>3
<1>4. ASSUME NEW i \in 1 .. Len(s)
      PROVE s[i] \in ToSet(SubSeq(s, 1, n)) \cup ToSet(SubSeq(s, n + 1, Len(s)))
  <2>1. CASE i <= n
    <3>1. i \in DOMAIN SubSeq(s, 1, n) /\ SubSeq(s, 1, n)[i] = s[i]
      BY <1>2, <2>1
    <3> QED
      BY <3>1 DEF ToSet
  <2>2. CASE ~(i <= n)
    <3>1. i - n \in 1 .. Len(s) - n /\ n + (i - n) = i
      BY <1>1, <2>2
    <3>2. i - n \in DOMAIN SubSeq(s, n + 1, Len(s)) /\ SubSeq(s, n + 1, Len(s))[i - n] = s[i]
      BY <1>3, <3>1
    <3> QED
      BY <3>2 DEF ToSet
  <2> QED
    BY <2>1, <2>2
<1> QED
  BY <1>1, <1>2, <1>3, <1>4 DEF ToSet

LEMMA HeadAndTail ==
  ASSUME NEW s \in Seq(Item), s # <<>>
  PROVE Head(s) \in Item /\ Tail(s) \in Seq(Item) /\ ToSet(s) = {Head(s)} \cup ToSet(Tail(s))
<1>1. Len(s) \in Nat /\ Len(s) # 0 /\ DOMAIN s = 1 .. Len(s) /\ \A i \in 1 .. Len(s) : s[i] \in Item
  BY EmptySeq
<1>2. Head(s) = s[1] /\ 1 \in 1 .. Len(s)
  BY <1>1
<1>3. Tail(s) \in Seq(Item) /\ DOMAIN Tail(s) = 1 .. Len(s) - 1 /\ \A i \in 1 .. Len(s) - 1 : Tail(s)[i] = s[i + 1]
  BY <1>1
<1>4. \A i \in 1 .. Len(s) : i = 1 \/ (i - 1 \in 1 .. Len(s) - 1 /\ s[i] = Tail(s)[i - 1])
  <2> SUFFICES ASSUME NEW i \in 1 .. Len(s), i # 1
               PROVE i - 1 \in 1 .. Len(s) - 1 /\ s[i] = Tail(s)[i - 1]
    OBVIOUS
  <2>1. i - 1 \in 1 .. Len(s) - 1 /\ (i - 1) + 1 = i
    BY <1>1
  <2> QED
    BY <1>3, <2>1
<1>5. \A i \in 1 .. Len(s) - 1 : i + 1 \in 1 .. Len(s)
  BY <1>1
<1>6. ToSet(s) \subseteq {Head(s)} \cup ToSet(Tail(s))
  <2>1. ASSUME NEW i \in 1 .. Len(s)
        PROVE s[i] \in {Head(s)} \cup ToSet(Tail(s))
    <3>1. CASE i = 1
      BY <1>2, <3>1
    <3>2. CASE i - 1 \in 1 .. Len(s) - 1 /\ s[i] = Tail(s)[i - 1]
      BY <1>3, <3>2 DEF ToSet
    <3> QED
      BY <1>4, <3>1, <3>2
  <2> QED
    BY <1>1, <2>1 DEF ToSet
<1>7. Head(s) \in ToSet(s)
  BY <1>1, <1>2 DEF ToSet
<1>8. ToSet(Tail(s)) \subseteq ToSet(s)
  BY <1>1, <1>3, <1>5 DEF ToSet
<1> HIDE DEF Item
<1>9. Head(s) \in Item
  BY <1>1, <1>2
<1> QED
  BY <1>3, <1>6, <1>7, <1>8, <1>9

LogTypes ==
  /\ queue \in Seq(Item) /\ Len(queue) <= QueueMax /\ taken \in Seq(Item) /\ putting \in [Producer -> Seq(Item)]
  /\ log \in Tables
  /\ writer \in {"taking", "stopping", "singly", "singly_stopping", "stopped"}
  /\ writer \in {"singly", "singly_stopping"} => taken # <<>>
  /\ heard \in Seq(Live) /\ \A e \in Live : putting[e] # <<>> => e \in ToSet(heard)

\* What was on its way still is, or is stored, or was refused.
Carried ==
  /\ Outgrows(log, log')
  /\ \A o \in Underway \cup dropped : o \in Underway' \cup dropped' \/ (o \in Item /\ Done(o, log'))

LEMMA Appended ==
  ASSUME NEW S, NEW s \in Seq(S), NEW x \in S
  PROVE Append(s, x) \in Seq(S) /\ ToSet(s) \cup {x} \subseteq ToSet(Append(s, x))
<1>1. /\ DOMAIN Append(s, x) = 1 .. Len(s) + 1 /\ DOMAIN s = 1 .. Len(s) /\ Len(s) \in Nat /\ Append(s, x) \in Seq(S)
      /\ Append(s, x)[Len(s) + 1] = x /\ \A i \in 1 .. Len(s) : Append(s, x)[i] = s[i]
  OBVIOUS
<1>2. Len(s) + 1 \in 1 .. Len(s) + 1 /\ \A i \in 1 .. Len(s) : i \in 1 .. Len(s) + 1
  BY <1>1
<1>3. x \in ToSet(Append(s, x))
  BY <1>1, <1>2 DEF ToSet
<1>4. \A i \in 1 .. Len(s) : s[i] \in ToSet(Append(s, x))
  BY <1>1, <1>2 DEF ToSet
<1> QED
  BY <1>1, <1>3, <1>4 DEF ToSet

LEMMA OpsAre ==
  ASSUME NEW e \in Event, NEW source \in {"eventsub", "ivr-logs"}
  PROVE Ops(e, source) \in Seq(Item) /\ Len(Ops(e, source)) \in 1 .. 2
<1>1. CASE e.kind = "message"
  <2>1. e.msg \in Message
    BY <1>1 DEF Event
  <2>2. [op |-> "message", msg |-> e.msg, source |-> source] \in Item
    BY <2>1 DEF Item, Operation
  <2> HIDE DEF Item
  <2> QED
    BY <1>1, <2>2 DEF Ops
<1>2. CASE e.kind # "message"
  <2>1. [op |-> "mod_event", event |-> e] \in Item /\ [op |-> "flag", event |-> e] \in Item
    BY <1>2 DEF Item, Operation
  <2> HIDE DEF Item
  <2> QED
    BY <1>2, <2>1 DEF Ops
<1> QED
  BY <1>1, <1>2

LEMMA PutIs ==
  ASSUME LogTypes, NEW p \in Producer, NEW put \in Seq(Item), PutAll(p, put)
  PROVE /\ queue' \in Seq(Item) /\ Len(queue') <= QueueMax /\ putting' \in [Producer -> Seq(Item)]
        /\ ToSet(queue) \subseteq ToSet(queue') /\ ToSet(put) \subseteq ToSet(queue') \cup ToSet(putting'[p])
        /\ \A q \in Producer : q # p => putting'[q] = putting[q]
        /\ \E n \in 0 .. Len(put) : queue' = queue \o SubSeq(put, 1, n)
        /\ Len(put) <= Room => queue' = queue \o put /\ putting'[p] = <<>>
<1> USE DEF LogTypes
<1>1. Len(queue) \in Nat /\ Len(put) \in Nat /\ Room \in Nat
  BY ChatLogAssumption DEF Room
<1>2. PICK n \in 0 .. Len(put) : /\ n <= Room
                                 /\ Len(put) <= Room => n = Len(put)
                                 /\ queue' = queue \o SubSeq(put, 1, n)
                                 /\ putting' = [putting EXCEPT ![p] = SubSeq(put, n + 1, Len(put))]
  <2> DEFINE n == IF Len(put) <= Room THEN Len(put) ELSE Room
  <2>1. n \in 0 .. Len(put) /\ n <= Room /\ (Len(put) <= Room => n = Len(put))
    BY <1>1
  <2>2. queue' = queue \o SubSeq(put, 1, n) /\ putting' = [putting EXCEPT ![p] = SubSeq(put, n + 1, Len(put))]
    BY DEF PutAll
  <2> HIDE DEF n
  <2> QED
    BY <2>1, <2>2
<1> HIDE DEF Item
<1>3. /\ SubSeq(put, 1, n) \in Seq(Item) /\ SubSeq(put, n + 1, Len(put)) \in Seq(Item) /\ Len(SubSeq(put, 1, n)) = n
      /\ ToSet(put) \subseteq ToSet(SubSeq(put, 1, n)) \cup ToSet(SubSeq(put, n + 1, Len(put)))
  BY Parted
<1>4. queue' \in Seq(Item) /\ ToSet(queue') = ToSet(queue) \cup ToSet(SubSeq(put, 1, n))
  BY <1>2, <1>3, Joined
<1>5. Len(queue') = Len(queue) + n
  BY <1>2, <1>3, ConcatProperties
<1>6. Len(queue') <= QueueMax
  BY <1>1, <1>2, <1>5, ChatLogAssumption DEF Room
<1>7. /\ putting' \in [Producer -> Seq(Item)] /\ putting'[p] = SubSeq(put, n + 1, Len(put))
      /\ \A q \in Producer : q # p => putting'[q] = putting[q]
  BY <1>2, <1>3
<1>8. Len(put) <= Room => queue' = queue \o put /\ putting'[p] = <<>>
  <2> SUFFICES ASSUME Len(put) <= Room
               PROVE queue' = queue \o put /\ putting'[p] = <<>>
    OBVIOUS
  <2>1. n = Len(put)
    BY <1>2
  <2>2. SubSeq(put, 1, Len(put)) = put
    OBVIOUS
  <2>3. SubSeq(put, n + 1, Len(put)) = <<>>
    BY <1>1, <2>1, SubSeqEmpty
  <2> QED
    BY <1>2, <1>7, <2>1, <2>2, <2>3
<1> QED
  BY <1>2, <1>3, <1>4, <1>6, <1>7, <1>8

\* A producer that puts leaves nothing out.
LEMMA PutCarries ==
  ASSUME LogTypes, NEW p \in Producer, NEW put \in Seq(Item), PutAll(p, put), ToSet(putting[p]) \subseteq ToSet(put),
         UNCHANGED <<taken, log, dropped>>
  PROVE Carried
<1>1. /\ ToSet(queue) \subseteq ToSet(queue') /\ ToSet(put) \subseteq ToSet(queue') \cup ToSet(putting'[p])
      /\ \A q \in Producer : q # p => putting'[q] = putting[q]
  BY PutIs
<1>2. \A q \in Producer : ToSet(putting[q]) \subseteq Underway'
  BY <1>1 DEF Underway
<1>3. ToSet(queue) \cup ToSet(taken) \subseteq Underway'
  BY <1>1 DEF Underway
<1>4. Underway \subseteq Underway'
  BY <1>2, <1>3 DEF Underway
<1> QED
  BY <1>4 DEF Carried, Outgrows

LEMMA HearStep ==
  ASSUME LogTypes, NEW e \in Live, Hear(e)
  PROVE LogTypes' /\ Carried
<1> USE DEF LogTypes
<1>1. e \in Event /\ e \in Producer
  BY ChatLogAssumption DEF Producer
<1>2. Ops(e, "eventsub") \in Seq(Item) /\ PutAll(e, Ops(e, "eventsub"))
  BY <1>1, OpsAre DEF Hear
<1>3. e \notin ToSet(heard) /\ heard' = Append(heard, e) /\ UNCHANGED <<taken, writer, log, dropped>>
  BY DEF Hear, ToSet
<1>4. ToSet(putting[e]) \subseteq ToSet(Ops(e, "eventsub"))
  <2>1. putting[e] = <<>>
    BY <1>3
  <2> QED
    BY <2>1 DEF ToSet
<1>5. Carried
  BY <1>1, <1>2, <1>3, <1>4, PutCarries
<1>6. heard' \in Seq(Live) /\ ToSet(heard) \cup {e} \subseteq ToSet(heard')
  <2>1. heard' \in Seq(Live)
    BY <1>3
  <2> QED
    BY <1>3, <2>1, Appended
<1>7. /\ queue' \in Seq(Item) /\ Len(queue') <= QueueMax /\ putting' \in [Producer -> Seq(Item)]
      /\ \A q \in Producer : q # e => putting'[q] = putting[q]
  BY <1>1, <1>2, PutIs
<1>8. \A d \in Live : putting'[d] # <<>> => d \in ToSet(heard')
  BY <1>6, <1>7 DEF Producer
<1> QED
  BY <1>3, <1>5, <1>6, <1>7, <1>8

LEMMA PutMoreStep ==
  ASSUME LogTypes, NEW p \in Producer, PutMore(p)
  PROVE LogTypes' /\ Carried
<1> USE DEF LogTypes
<1>1. putting[p] \in Seq(Item) /\ putting[p] # <<>> /\ PutAll(p, putting[p])
  BY DEF PutMore
<1>2. UNCHANGED <<taken, writer, heard, log, dropped>>
  BY DEF PutMore
<1>3. Carried
  BY <1>1, <1>2, PutCarries
<1>4. /\ queue' \in Seq(Item) /\ Len(queue') <= QueueMax /\ putting' \in [Producer -> Seq(Item)]
      /\ \A q \in Producer : q # p => putting'[q] = putting[q]
  BY <1>1, PutIs
<1>5. \A d \in Live : putting'[d] # <<>> => d \in ToSet(heard')
  BY <1>1, <1>2, <1>4 DEF Producer
<1> QED
  BY <1>2, <1>3, <1>4, <1>5

-----------------------------------------------------------------------------
(* The writer.                                                             *)

LEMMA TakeStep ==
  ASSUME LogTypes, Take
  PROVE LogTypes' /\ Carried
<1> USE DEF LogTypes
<1>1. /\ writer = "taking" /\ queue # <<>> /\ taken' = Append(taken, Head(queue)) /\ queue' = Tail(queue)
      /\ UNCHANGED <<writer, putting, heard, log, dropped>>
  BY DEF Take
<1> HIDE DEF Item
<1>2. Head(queue) \in Item /\ Tail(queue) \in Seq(Item) /\ ToSet(queue) = {Head(queue)} \cup ToSet(Tail(queue))
  BY <1>1, HeadAndTail
<1>3. taken' \in Seq(Item) /\ ToSet(taken) \cup {Head(queue)} \subseteq ToSet(taken')
  BY <1>1, <1>2, Appended
<1>4. Len(queue') <= QueueMax
  <2>1. Len(queue) \in Nat /\ Len(queue) # 0 /\ Len(queue') = Len(queue) - 1
    BY <1>1, EmptySeq
  <2> QED
    BY <2>1, ChatLogAssumption
<1>5. LogTypes'
  BY <1>1, <1>2, <1>3, <1>4
<1>6. Underway \subseteq Underway'
  BY <1>1, <1>2, <1>3 DEF Underway
<1> QED
  BY <1>1, <1>5, <1>6 DEF Carried, Outgrows

LEMMA TakeStopStep ==
  ASSUME LogTypes, TakeStop
  PROVE LogTypes' /\ Carried
<1> USE DEF LogTypes
<1>1. /\ queue # <<>> /\ Head(queue) = Stop /\ taken' = taken \o Tail(queue) /\ queue' = <<>> /\ writer' = "stopping"
      /\ UNCHANGED <<putting, heard, log, dropped>>
  BY DEF TakeStop
<1>2. Tail(queue) \in Seq(Item) /\ ToSet(queue) = {Stop} \cup ToSet(Tail(queue))
  BY <1>1, HeadAndTail
<1>3. Stop \in Item /\ \A b : Done(Stop, b)
  BY DEF Item, Done, Stop
<1> HIDE DEF Item
<1>4. taken' \in Seq(Item) /\ ToSet(taken') = ToSet(taken) \cup ToSet(Tail(queue))
  BY <1>1, <1>2, Joined
<1>5. Len(<<>>) <= QueueMax
  BY ChatLogAssumption
<1>6. LogTypes'
  BY <1>1, <1>4, <1>5
<1>7. Underway \subseteq Underway' \cup {Stop}
  BY <1>1, <1>2, <1>4 DEF Underway
<1> QED
  BY <1>1, <1>3, <1>6, <1>7 DEF Carried, Outgrows

LEMMA FlushStep ==
  ASSUME LogTypes, Flush
  PROVE LogTypes' /\ Carried
<1> USE DEF LogTypes
<1>1. /\ log' = Executed(log, taken)[Len(taken)] /\ taken' = <<>> /\ writer' = AfterBatch
      /\ UNCHANGED <<queue, putting, heard, dropped>>
  BY DEF Flush
<1> HIDE DEF Item
<1>2. log' \in Tables /\ Outgrows(log, log') /\ \A i \in 1 .. Len(taken) : Done(taken[i], log')
  BY <1>1, BatchDone
<1>3. \A o \in ToSet(taken) : o \in Item /\ Done(o, log')
  <2>1. DOMAIN taken = 1 .. Len(taken) /\ \A i \in 1 .. Len(taken) : taken[i] \in Item
    OBVIOUS
  <2> QED
    BY <1>2, <2>1 DEF ToSet
<1>4. <<>> \in Seq(Item) /\ writer' \in {"taking", "stopped"}
  BY <1>1 DEF AfterBatch
<1>5. LogTypes'
  BY <1>1, <1>2, <1>4
<1>6. \A o \in Underway : o \in Underway' \/ o \in ToSet(taken)
  BY <1>1 DEF Underway
<1> QED
  BY <1>1, <1>2, <1>3, <1>5, <1>6 DEF Carried

LEMMA FlushFailsStep ==
  ASSUME LogTypes, FlushFails
  PROVE LogTypes' /\ Carried
<1> USE DEF LogTypes
<1>1. UNCHANGED <<queue, taken, putting, heard, log, dropped>> /\ writer' \in {"singly", "singly_stopping"}
  BY DEF FlushFails
<1>2. taken # <<>>
  <2>1. PICK i \in DOMAIN taken : Refusable(taken[i])
    BY DEF FlushFails
  <2> QED
    BY <2>1
<1>3. LogTypes'
  BY <1>1, <1>2
<1>4. Underway' = Underway
  BY <1>1 DEF Underway
<1> QED
  BY <1>1, <1>3, <1>4 DEF Carried, Outgrows

LEMMA WriteOneStep ==
  ASSUME LogTypes, WriteOne
  PROVE LogTypes' /\ Carried
<1> USE DEF LogTypes
<1>1. /\ writer \in {"singly", "singly_stopping"} /\ taken' = Tail(taken) /\ UNCHANGED <<queue, putting, heard>>
      /\ writer' = (IF Len(taken) = 1 THEN AfterBatch ELSE writer)
      /\ \/ dropped' = dropped \cup {Head(taken)} /\ log' = log
         \/ log' = Execute(log, Head(taken)) /\ dropped' = dropped
  BY DEF WriteOne
<1> HIDE DEF Item
<1>2. Head(taken) \in Item /\ Tail(taken) \in Seq(Item) /\ ToSet(taken) = {Head(taken)} \cup ToSet(Tail(taken))
  BY <1>1, HeadAndTail
<1>3. log' \in Tables /\ Outgrows(log, log') /\ dropped \subseteq dropped' /\ (Head(taken) \in dropped' \/ Done(Head(taken), log'))
  <2>1. CASE dropped' = dropped \cup {Head(taken)} /\ log' = log
    BY <2>1 DEF Outgrows
  <2>2. CASE log' = Execute(log, Head(taken)) /\ dropped' = dropped
    BY <1>2, <2>2, ExecuteIs
  <2> QED
    BY <1>1, <2>1, <2>2
<1>4. writer' \in {"singly", "singly_stopping", "taking", "stopped"} /\ (writer' \in {"singly", "singly_stopping"} => taken' # <<>>)
  <2>1. Len(taken) \in Nat /\ Len(taken) # 0
    BY <1>1, EmptySeq
  <2>2. Len(taken') = Len(taken) - 1
    BY <1>1, <2>1
  <2>3. Len(taken) # 1 => taken' # <<>>
    BY <2>1, <2>2
  <2> QED
    BY <1>1, <2>3 DEF AfterBatch
<1>5. LogTypes'
  BY <1>1, <1>2, <1>3, <1>4
<1>6. \A o \in Underway : o \in Underway' \/ o = Head(taken)
  BY <1>1, <1>2 DEF Underway
<1> QED
  BY <1>2, <1>3, <1>5, <1>6 DEF Carried

LEMMA WriterSteps ==
  ASSUME LogTypes, WriterStep
  PROVE LogTypes' /\ Carried
  BY TakeStep, TakeStopStep, FlushStep, FlushFailsStep, WriteOneStep DEF WriterStep

\* So a line that is kept stays so.
LEMMA StaysKept ==
  ASSUME Carried, lost \subseteq lost', NEW e \in ToSet(Archive), Kept(e)
  PROVE Kept(e)'
<1>1. e \in Event
  <2>1. DOMAIN Archive = 1 .. Len(Archive) /\ \A i \in 1 .. Len(Archive) : Archive[i] \in Event
    BY BackfillAssumption
  <2> QED
    BY <2>1 DEF ToSet
<1>2. e.kind = "message" => e.msg \in Message
  BY <1>1 DEF Event
<1>3. InLog(e) => InLog(e)'
  BY <1>2 DEF InLog, Carried, Outgrows
<1>4. e \in LinesOf(Underway \cup dropped) => InLog(e)' \/ e \in LinesOf(Underway \cup dropped)'
  <2> SUFFICES ASSUME e \in LinesOf(Underway \cup dropped)
               PROVE InLog(e)' \/ e \in LinesOf(Underway \cup dropped)'
    OBVIOUS
  <2>1. PICK o \in Underway \cup dropped : \/ o.op = "message" /\ e.kind = "message" /\ o.msg = e.msg
                                           \/ o.op = "mod_event" /\ o.event = e
    BY DEF LinesOf
  <2>2. CASE o \in Underway' \cup dropped'
    BY <2>1, <2>2 DEF LinesOf
  <2>3. CASE o \in Item /\ Done(o, log')
    <3>1. CASE o.op = "message" /\ e.kind = "message" /\ o.msg = e.msg
      BY <2>3, <3>1 DEF Done, InLog
    <3>2. CASE o.op = "mod_event" /\ o.event = e
      <4>1. e.kind # "message"
        BY <2>3, <3>2 DEF Item, Operation, Stop
      <4> QED
        BY <2>3, <3>2, <4>1 DEF Done, InLog
    <3> QED
      BY <2>1, <3>1, <3>2
  <2> QED
    BY <2>2, <2>3 DEF Carried
<1> QED
  BY <1>3, <1>4 DEF Kept

-----------------------------------------------------------------------------
(* Pages.                                                                  *)

LEMMA ArchiveIs ==
  /\ Len(Archive) \in Nat /\ DOMAIN Archive = 1 .. Len(Archive)
  /\ \A i \in 1 .. Len(Archive) : Archive[i] \in Event /\ TimeOf(Archive[i]) \in Nat /\ Archive[i] \in ToSet(Archive)
<1>1. Len(Archive) \in Nat /\ DOMAIN Archive = 1 .. Len(Archive) /\ \A i \in 1 .. Len(Archive) : Archive[i] \in Event
  BY BackfillAssumption
<1>2. \A e \in Event : TimeOf(e) \in Nat
  <2> SUFFICES ASSUME NEW e \in Event
               PROVE TimeOf(e) \in Nat
    OBVIOUS
  <2>1. CASE e.kind = "message"
    <3>1. e.msg \in Message
      BY <2>1 DEF Event
    <3> QED
      BY <2>1, <3>1, ChatLogAssumption DEF TimeOf
  <2>2. CASE e.kind # "message"
    <3>1. e.at \in Nat
      BY <2>2 DEF Event
    <3> QED
      BY <2>2, <3>1 DEF TimeOf
  <2> QED
    BY <2>1, <2>2
<1> QED
  BY <1>1, <1>2 DEF ToSet

LEMMA MaxOfTwo ==
  ASSUME NEW a \in Int, NEW b \in Int
  PROVE Max({a, b}) = IF a >= b THEN a ELSE b
<1> DEFINE m == IF a >= b THEN a ELSE b
<1>1. m \in {a, b} /\ \A y \in {a, b} : m >= y
  OBVIOUS
<1>2. \A x \in {a, b} : (\A y \in {a, b} : x >= y) => x = m
  OBVIOUS
<1>3. Max({a, b}) = CHOOSE x \in {a, b} : \A y \in {a, b} : x >= y
  BY DEF Max
<1> QED
  BY <1>1, <1>2, <1>3

LEMMA MinOfTwo ==
  ASSUME NEW a \in Int, NEW b \in Int
  PROVE Min({a, b}) = IF a <= b THEN a ELSE b
<1> DEFINE m == IF a <= b THEN a ELSE b
<1>1. m \in {a, b} /\ \A y \in {a, b} : m <= y
  OBVIOUS
<1>2. \A x \in {a, b} : (\A y \in {a, b} : x <= y) => x = m
  OBVIOUS
<1>3. Min({a, b}) = CHOOSE x \in {a, b} : \A y \in {a, b} : x <= y
  BY DEF Min
<1> QED
  BY <1>1, <1>2, <1>3

LEMMA MaxOfThree ==
  ASSUME NEW a \in Int, NEW b \in Int, NEW c \in Int
  PROVE LET m == Max({a, b, c}) IN m \in {a, b, c} /\ m >= a /\ m >= b /\ m >= c
<1> DEFINE m == IF a >= b THEN (IF a >= c THEN a ELSE c) ELSE (IF b >= c THEN b ELSE c)
<1>1. m \in {a, b, c} /\ \A y \in {a, b, c} : m >= y
  OBVIOUS
<1>2. \A x \in {a, b, c} : (\A y \in {a, b, c} : x >= y) => x = m
  BY <1>1
<1>3. Max({a, b, c}) = CHOOSE x \in {a, b, c} : \A y \in {a, b, c} : x >= y
  BY DEF Max
<1>4. Max({a, b, c}) = m
  BY <1>1, <1>2, <1>3
<1> QED
  BY <1>1, <1>4

\* The lines from before a time are the first ones.
LEMMA BeforeIs ==
  ASSUME NEW time \in Int
  PROVE /\ Before(time) \in 0 .. Len(Archive)
        /\ \A i \in DOMAIN Archive : i <= Before(time) <=> TimeOf(Archive[i]) < time
<1> DEFINE D == {i \in DOMAIN Archive : TimeOf(Archive[i]) < time}
           S == {n \in Nat : n <= Len(Archive) => \E k \in 0 .. n : D \cap 1 .. n = 1 .. k}
<1>1. Len(Archive) \in Nat /\ DOMAIN Archive = 1 .. Len(Archive) /\ \A i \in DOMAIN Archive : TimeOf(Archive[i]) \in Nat
  BY ArchiveIs
<1>2. D \subseteq 1 .. Len(Archive) /\ \A i \in D : \A j \in 1 .. i : j \in D
  <2> SUFFICES ASSUME NEW i \in D, NEW j \in 1 .. i
               PROVE j \in D
    BY <1>1
  <2>1. i \in DOMAIN Archive /\ j \in DOMAIN Archive /\ j <= i
    BY <1>1
  <2>2. TimeOf(Archive[j]) <= TimeOf(Archive[i])
    BY <2>1, BackfillAssumption
  <2> QED
    BY <1>1, <2>1, <2>2
<1> HIDE DEF D
<1>3. 0 \in S
  <2>1. D \cap 1 .. 0 = 1 .. 0 /\ 0 \in 0 .. 0
    OBVIOUS
  <2> QED
    BY <2>1
<1>4. ASSUME NEW n \in Nat, n \in S
      PROVE n + 1 \in S
  <2> SUFFICES ASSUME n + 1 <= Len(Archive)
               PROVE \E k \in 0 .. n + 1 : D \cap 1 .. n + 1 = 1 .. k
    OBVIOUS
  <2>1. PICK k \in 0 .. n : D \cap 1 .. n = 1 .. k
    BY <1>1, <1>4
  <2>2. CASE n + 1 \in D
    <3>1. D \cap 1 .. n + 1 = 1 .. n + 1 /\ n + 1 \in 0 .. n + 1
      BY <1>2, <2>2
    <3> QED
      BY <3>1
  <2>3. CASE n + 1 \notin D
    <3>1. D \cap 1 .. n + 1 = D \cap 1 .. n
      BY <2>3
    <3>2. k \in 0 .. n + 1
      OBVIOUS
    <3> QED
      BY <2>1, <3>1, <3>2
  <2> QED
    BY <2>2, <2>3
<1>5. PICK k \in 0 .. Len(Archive) : D \cap 1 .. Len(Archive) = 1 .. k
  <2> HIDE DEF S
  <2>1. Len(Archive) \in S
    BY <1>1, <1>3, <1>4, Successors
  <2> QED
    BY <1>1, <2>1 DEF S
<1>6. D = 1 .. k
  BY <1>2, <1>5
<1>7. Cardinality(D) = k
  <2>1. Cardinality(1 .. k) = IF 1 > k THEN 0 ELSE k - 1 + 1
    BY <1>1, FS_Interval
  <2> QED
    BY <1>1, <1>6, <2>1
<1>8. Before(time) = k
  BY <1>7 DEF Before, D
<1>9. \A i \in DOMAIN Archive : i \in D <=> TimeOf(Archive[i]) < time
  BY DEF D
<1>10. \A i \in DOMAIN Archive : i \in D <=> i <= k
  BY <1>1, <1>6
<1> QED
  BY <1>8, <1>9, <1>10

LEMMA PageIs ==
  ASSUME NEW start \in Nat, NEW g \in Gap, NEW offset \in Nat, Before(start) + offset <= Len(Archive)
  PROVE LET page == Page(start, g, offset)
            first == Before(start) + offset
        IN /\ page \in Seq(Event) /\ first + Len(page) <= Len(Archive)
           /\ \A i \in 1 .. Len(page) : page[i] = Archive[first + i]
           /\ Len(page) < Limit => Before(g.to + 1) <= first + Len(page)
<1> DEFINE first == Before(start) + offset
           final == Min({first + Limit, Before(g.to + 1)})
           page == SubSeq(Archive, first + 1, final)
<1>1. Page(start, g, offset) = page
  BY DEF Page
<1>2. Len(Archive) \in Nat /\ \A i \in 1 .. Len(Archive) : Archive[i] \in Event
  BY ArchiveIs
<1>3. first \in Nat /\ first <= Len(Archive)
  BY <1>2, BeforeIs, SMTT(60)
<1>4. g.to + 1 \in Int /\ Limit \in Nat \ {0}
  BY BackfillAssumption
<1>5. Before(g.to + 1) \in 0 .. Len(Archive)
  BY <1>4, BeforeIs
<1> HIDE DEF first
<1>6. final = IF first + Limit <= Before(g.to + 1) THEN first + Limit ELSE Before(g.to + 1)
  BY <1>2, <1>3, <1>4, <1>5, MinOfTwo
<1>7. final \in Nat /\ final <= Len(Archive) /\ (final < first + Limit => final = Before(g.to + 1))
  BY <1>2, <1>3, <1>4, <1>5, <1>6
<1> HIDE DEF final
<1>8. /\ page \in Seq(Event) /\ Len(page) = (IF first + 1 <= final THEN final - first ELSE 0)
      /\ \A i \in 1 .. final - first : page[i] = Archive[first + i]
  <2> DEFINE k == first + 1
  <2>1. k \in Int /\ final \in Int /\ \A i \in k .. final : Archive[i] \in Event
    BY <1>2, <1>3, <1>7
  <2>2. /\ SubSeq(Archive, k, final) \in Seq(Event)
        /\ Len(SubSeq(Archive, k, final)) = IF k <= final THEN final - k + 1 ELSE 0
        /\ \A i \in 1 .. final - k + 1 : SubSeq(Archive, k, final)[i] = Archive[k + i - 1]
    <3> HIDE DEF k
    <3> QED
      BY <2>1, SubSeqProperties
  <2>3. final - k + 1 = final - first /\ \A i \in 1 .. final - first : k + i - 1 = first + i
    BY <1>3, <1>7
  <2> QED
    BY <2>2, <2>3
<1>9. first + Len(page) <= Len(Archive) /\ \A i \in 1 .. Len(page) : page[i] = Archive[first + i]
  BY <1>2, <1>3, <1>7, <1>8
<1>10. Len(page) < Limit => Before(g.to + 1) <= first + Len(page)
  BY <1>3, <1>4, <1>5, <1>6, <1>7, <1>8
<1> QED
  BY <1>1, <1>8, <1>9, <1>10 DEF first

-----------------------------------------------------------------------------
(* What is noted of a gap is kept, where K is of the archive's lines those *)
(* that are kept.                                                          *)

KeptLines == {i \in DOMAIN Archive : Kept(Archive[i])}

\* The gap's lines from before a time.
Until(g, time, K) == \A i \in DOMAIN Archive : g.from <= TimeOf(Archive[i]) /\ TimeOf(Archive[i]) < time => i \in K

Right(g, complete, reached, K) == Until(g, reached, K) /\ (complete => Until(g, g.to + 1, K))

Outcomes == [gap : Gap, complete : BOOLEAN, reached : Nat]

RunsRight(table, K) ==
  /\ table \in [Gap -> [complete : BOOLEAN, reached : Nat]]
  /\ \A g \in Gap : Right(g, table[g].complete, table[g].reached, K)

OutcomesRight(os, K) ==
  os \in Seq(Outcomes) /\ \A i \in 1 .. Len(os) : Right(os[i].gap, os[i].complete, os[i].reached, K)

\* How many lines of the archive are from before the start or have been handed over.
Passed(j) == Before(j.start) + j.offset - Len(j.page)

Errors == {"none", "stopped", "paused", "not_logged", "refused"}

JobTypes ==
  [at : {"beginning", "asking", "storing", "recording", "pausing"}, cancel : BOOLEAN, left : Seq(Gap), start : Nat,
   offset : Nat, reached : Nat, page : Seq(Event), full : BOOLEAN, outcomes : Seq(Outcomes), error : Errors]

\* A fill at a gap has kept what it has passed of it.
GapRight(j, K) ==
  LET g == j.left[1]
  IN /\ j.left # <<>> /\ Passed(j) \in Nat /\ Passed(j) + Len(j.page) <= Len(Archive)
     /\ \A i \in 1 .. Len(j.page) : j.page[i] = Archive[Passed(j) + i]
     /\ \A i \in 1 .. Passed(j) : g.from <= TimeOf(Archive[i]) => i \in K
     /\ Until(g, j.reached, K)
     /\ j.at = "storing" /\ ~j.full => Before(g.to + 1) <= Passed(j) + Len(j.page)

JobRight(j, K) ==
  \/ j = NoJob
  \/ /\ j \in JobTypes /\ OutcomesRight(j.outcomes, K)
     /\ j.at # "storing" => j.page = <<>>
     /\ j.at \in {"asking", "storing"} => GapRight(j, K)
     /\ j.at = "recording" => j.outcomes # <<>>

LEMMA RightStays ==
  ASSUME NEW K, NEW L, K \subseteq L, NEW g, NEW complete, NEW reached, Right(g, complete, reached, K)
  PROVE Right(g, complete, reached, L)
  BY DEF Right, Until

LEMMA RunsStay ==
  ASSUME NEW K, NEW L, K \subseteq L, NEW table, RunsRight(table, K)
  PROVE RunsRight(table, L)
  BY RightStays DEF RunsRight

LEMMA JobStays ==
  ASSUME NEW K, NEW L, K \subseteq L, NEW j, JobRight(j, K)
  PROVE JobRight(j, L)
<1>1. OutcomesRight(j.outcomes, K) => OutcomesRight(j.outcomes, L)
  BY RightStays DEF OutcomesRight
<1>2. GapRight(j, K) => GapRight(j, L)
  BY DEF GapRight, Until
<1> QED
  BY <1>1, <1>2 DEF JobRight

LEMMA FreshRight ==
  ASSUME NEW K
  PROVE Fresh \in JobTypes /\ OutcomesRight(<<>>, K) /\ JobRight(Fresh, K)
<1>1. Fresh \in JobTypes
  BY DEF Fresh, JobTypes, Errors, Nothing
<1>2. OutcomesRight(<<>>, K)
  BY DEF OutcomesRight
<1>3. Fresh.outcomes = <<>> /\ Fresh.at = "beginning" /\ Fresh.page = <<>>
  BY DEF Fresh
<1> QED
  BY <1>1, <1>2, <1>3 DEF JobRight

\* A fill comes to a gap where the last one to note it has got to.
LEMMA GapBegins ==
  ASSUME NEW K, RunsRight(runs, K), NEW j \in JobTypes, OutcomesRight(j.outcomes, K), j.page = <<>>,
         NEW gaps \in Seq(Gap), gaps # <<>>
  PROVE JobRight(AtGap(j, gaps), K)
<1> DEFINE g == gaps[1]
           s == StartOf(g)
           r == Resume(g)
           n == AtGap(j, gaps)
<1>1. g \in Gap
  <2>1. Len(gaps) \in Nat /\ Len(gaps) # 0
    BY EmptySeq
  <2> QED
    BY <2>1
<1>2. r \in Nat /\ Until(g, r, K)
  BY <1>1 DEF RunsRight, Resume, Right
<1>3. s \in Nat /\ (s = g.from - Grace \/ s = 0 \/ s = r) /\ g.from \in Nat /\ Grace \in Nat
  <2>1. g.from \in Nat /\ Grace \in Nat
    BY <1>1, BackfillAssumption
  <2> DEFINE a == g.from - Grace
  <2>2. a \in Int /\ 0 \in Int /\ r \in Int
    BY <1>2, <2>1
  <2>3. s = Max({a, 0, r})
    BY DEF StartOf
  <2> HIDE DEF a, s, r
  <2>4. s \in {a, 0, r} /\ s >= 0
    BY <2>2, <2>3, MaxOfThree
  <2>5. s \in Nat
    BY <2>2, <2>4
  <2> QED
    BY <2>1, <2>4, <2>5 DEF a
<1> HIDE DEF s, r
<1>4. n = [at |-> "asking", cancel |-> j.cancel, left |-> gaps, start |-> s, offset |-> 0, reached |-> r,
           page |-> <<>>, full |-> FALSE, outcomes |-> j.outcomes, error |-> j.error]
  <2> DEFINE left == gaps
  <2>1. AtGap(j, gaps) = [j EXCEPT !.at = "asking", !.left = gaps, !.start = s, !.reached = r, !.offset = 0, !.full = FALSE]
    BY DEF AtGap, s, r
  <2> HIDE DEF s, r
  <2>2. j = [at |-> j.at, cancel |-> j.cancel, left |-> j.left, start |-> j.start, offset |-> j.offset, reached |-> j.reached,
             page |-> <<>>, full |-> j.full, outcomes |-> j.outcomes, error |-> j.error]
    BY DEF JobTypes
  <2> QED
    BY <2>1, <2>2
<1> HIDE DEF n
<1>5. n \in JobTypes
  BY <1>2, <1>3, <1>4 DEF JobTypes
<1>6. Before(s) \in 0 .. Len(Archive) /\ \A i \in DOMAIN Archive : i <= Before(s) <=> TimeOf(Archive[i]) < s
  BY <1>3, BeforeIs, SMTT(60)
<1>7. Len(Archive) \in Nat /\ DOMAIN Archive = 1 .. Len(Archive) /\ \A i \in 1 .. Len(Archive) : TimeOf(Archive[i]) \in Nat
  BY ArchiveIs
<1>8. Passed(n) = Before(s)
  BY <1>4, <1>6, <1>7 DEF Passed
<1>9. ASSUME NEW i \in 1 .. Passed(n), g.from <= TimeOf(Archive[i])
      PROVE i \in K
  <2>1. i \in DOMAIN Archive /\ TimeOf(Archive[i]) < s
    BY <1>6, <1>7, <1>8
  <2>2. TimeOf(Archive[i]) < r
    BY <1>3, <1>7, <1>9, <2>1
  <2> QED
    BY <1>2, <1>9, <2>1, <2>2 DEF Until
<1>10. GapRight(n, K)
  <2>1. n.left = gaps /\ n.page = <<>> /\ n.at = "asking" /\ n.reached = r
    BY <1>4
  <2> QED
    BY <1>2, <1>6, <1>7, <1>8, <1>9, <2>1 DEF GapRight
<1> QED
  BY <1>4, <1>5, <1>10 DEF JobRight, n

\* A fill has passed all of its gap.
Finished(j) == Before(j.left[1].to + 1) <= Passed(j)

\* A gap is done with: it is complete when the fill has passed all of it.
LEMMA GapEnds ==
  ASSUME NEW K, RunsRight(runs, K), NEW j, JobRight(j, K), j.at \in {"asking", "storing"}, j.page = <<>>,
         NEW why \in Errors, why # "none" \/ Finished(j)
  PROVE JobRight(EndGap(j, why), K)
<1> USE DEF Outcome
<1> DEFINE g == j.left[1]
           o == Outcome(g, why = "none", j.reached)
           done == Append(j.outcomes, o)
           rest == [i \in 1 .. Len(j.left) - 1 |-> Outcome(j.left[i + 1], FALSE, Resume(j.left[i + 1]))]
<1>1. j \in JobTypes /\ OutcomesRight(j.outcomes, K) /\ GapRight(j, K)
  BY DEF JobRight, NoJob
<1>2. Len(j.left) \in Nat \ {0} /\ j.left \in Seq(Gap) /\ \A i \in 1 .. Len(j.left) : j.left[i] \in Gap
  BY <1>1, EmptySeq DEF JobTypes, GapRight
<1>3. g \in Gap /\ j.reached \in Nat
  BY <1>1, <1>2 DEF JobTypes
<1>4. o \in Outcomes /\ o.gap = g /\ o.complete = (why = "none") /\ o.reached = j.reached
  BY <1>3 DEF Outcome, Outcomes
<1>5. Right(g, why = "none", j.reached, K)
  <2>1. Until(g, j.reached, K)
    BY <1>1 DEF GapRight
  <2>2. ASSUME why = "none"
        PROVE Until(g, g.to + 1, K)
    <3>1. g.to + 1 \in Int
      BY <1>3, BackfillAssumption
    <3> DEFINE end == g.to + 1
    <3>2. Before(end) \in Nat /\ \A i \in DOMAIN Archive : i <= Before(end) <=> TimeOf(Archive[i]) < end
      <4> HIDE DEF end
      <4>1. end \in Int
        BY <3>1 DEF end
      <4>2. Before(end) \in 0 .. Len(Archive) /\ Len(Archive) \in Nat
        BY <4>1, BeforeIs, ArchiveIs
      <4> QED
        BY <4>1, <4>2, BeforeIs
    <3>3. Passed(j) \in Nat /\ \A i \in 1 .. Passed(j) : g.from <= TimeOf(Archive[i]) => i \in K
      BY <1>1 DEF GapRight
    <3>4. ASSUME NEW i \in DOMAIN Archive, TimeOf(Archive[i]) < g.to + 1
          PROVE i \in 1 .. Passed(j)
      <4>1. i \in Nat /\ i >= 1
        BY ArchiveIs
      <4>2. i <= Before(g.to + 1) /\ Before(g.to + 1) <= Passed(j)
        BY <2>2, <3>2, <3>4 DEF Finished
      <4> QED
        BY <3>2, <3>3, <4>1, <4>2
    <3> QED
      BY <3>3, <3>4 DEF Until
  <2> QED
    BY <2>1, <2>2 DEF Right
<1> HIDE DEF o
<1>6. OutcomesRight(done, K)
  <2>1. /\ j.outcomes \in Seq(Outcomes) /\ Len(j.outcomes) \in Nat
        /\ \A i \in 1 .. Len(j.outcomes) :
             Right(j.outcomes[i].gap, j.outcomes[i].complete, j.outcomes[i].reached, K)
    BY <1>1 DEF OutcomesRight
  <2>2. /\ done \in Seq(Outcomes) /\ Len(done) = Len(j.outcomes) + 1 /\ done[Len(j.outcomes) + 1] = o
        /\ \A i \in 1 .. Len(j.outcomes) : done[i] = j.outcomes[i]
    BY <1>4, <2>1
  <2>3. \A i \in 1 .. Len(j.outcomes) + 1 : i = Len(j.outcomes) + 1 \/ i \in 1 .. Len(j.outcomes)
    BY <2>1
  <2>4. Right(o.gap, o.complete, o.reached, K)
    BY <1>4, <1>5
  <2> HIDE DEF done
  <2> QED
    BY <2>1, <2>2, <2>3, <2>4 DEF OutcomesRight
<1>7. OutcomesRight(rest, K)
  <2>1. ASSUME NEW i \in 1 .. Len(j.left) - 1
        PROVE /\ rest[i] \in Outcomes /\ Right(rest[i].gap, rest[i].complete, rest[i].reached, K)
    <3>1. i + 1 \in 1 .. Len(j.left)
      BY <1>2
    <3> DEFINE h == j.left[i + 1]
    <3>2. h \in Gap
      BY <1>2, <3>1
    <3>3. rest[i] = Outcome(h, FALSE, Resume(h))
      OBVIOUS
    <3> HIDE DEF h
    <3>4. Resume(h) \in Nat /\ Until(h, Resume(h), K)
      BY <3>2 DEF RunsRight, Resume, Right
    <3> HIDE DEF rest
    <3>5. rest[i] \in Outcomes /\ rest[i].gap = h /\ rest[i].complete = FALSE /\ rest[i].reached = Resume(h)
      BY <3>2, <3>3, <3>4 DEF Outcome, Outcomes
    <3> QED
      BY <3>4, <3>5 DEF Right
  <2>2. rest \in Seq(Outcomes) /\ Len(rest) = Len(j.left) - 1
    <3>1. Len(j.left) - 1 \in Nat /\ DOMAIN rest = 1 .. Len(j.left) - 1
      BY <1>2
    <3>2. rest \in [1 .. Len(j.left) - 1 -> Outcomes]
      BY <2>1
    <3> HIDE DEF rest
    <3> QED
      BY <3>1, <3>2
  <2> HIDE DEF rest
  <2> QED
    BY <2>1, <2>2 DEF OutcomesRight
<1>8. ASSUME NEW os, OutcomesRight(os, K), os # <<>>
      PROVE JobRight(Recording(j, os, why), K)
  <2> DEFINE n == Recording(j, os, why)
  <2>1. n = [at |-> "recording", cancel |-> j.cancel, left |-> <<>>, start |-> 0, offset |-> 0, reached |-> Nothing,
             page |-> <<>>, full |-> FALSE, outcomes |-> os, error |-> why]
    <3> HIDE DEF done, rest
    <3>1. n = [Fresh EXCEPT !.at = "recording", !.cancel = j.cancel, !.outcomes = os, !.error = why]
      BY DEF Recording
    <3>2. Fresh = [at |-> "beginning", cancel |-> FALSE, left |-> <<>>, start |-> 0, offset |-> 0, reached |-> Nothing,
                   page |-> <<>>, full |-> FALSE, outcomes |-> <<>>, error |-> "none"]
      BY DEF Fresh
    <3> HIDE DEF n
    <3> QED
      BY <3>1, <3>2
  <2>2. n \in JobTypes
    BY <1>1, <1>8, <2>1 DEF JobTypes, OutcomesRight, Nothing
  <2> HIDE DEF n
  <2>3. n.outcomes = os /\ n.page = <<>> /\ n.at = "recording"
    BY <2>1
  <2>4. JobRight(n, K)
    BY <1>8, <2>2, <2>3 DEF JobRight
  <2> QED
    BY <2>4 DEF n
<1>9. CASE why # "none"
  <2>1. OutcomesRight(done \o rest, K) /\ done \o rest # <<>>
    <3>1. /\ done \in Seq(Outcomes) /\ rest \in Seq(Outcomes) /\ Len(done) \in Nat /\ Len(rest) \in Nat
          /\ \A i \in 1 .. Len(done) : Right(done[i].gap, done[i].complete, done[i].reached, K)
          /\ \A i \in 1 .. Len(rest) : Right(rest[i].gap, rest[i].complete, rest[i].reached, K)
      <4> HIDE DEF done, rest
      <4> QED
        BY <1>6, <1>7 DEF OutcomesRight
    <3>2. Len(done) # 0
      BY <1>1, <1>4 DEF JobTypes
    <3> HIDE DEF done, rest
    <3>3. /\ done \o rest \in Seq(Outcomes) /\ Len(done \o rest) = Len(done) + Len(rest)
          /\ \A i \in 1 .. Len(done) + Len(rest) :
               (done \o rest)[i] = IF i <= Len(done) THEN done[i] ELSE rest[i - Len(done)]
      BY <3>1, ConcatProperties
    <3>4. \A i \in 1 .. Len(done) + Len(rest) : i \in 1 .. Len(done) \/ (~(i <= Len(done)) /\ i - Len(done) \in 1 .. Len(rest))
      BY <3>1
    <3>5. \A i \in 1 .. Len(done \o rest) :
            Right((done \o rest)[i].gap, (done \o rest)[i].complete, (done \o rest)[i].reached, K)
      BY <3>1, <3>3, <3>4
    <3> QED
      BY <3>1, <3>2, <3>3, <3>5 DEF OutcomesRight
  <2>2. EndGap(j, why) = Recording(j, done \o rest, why)
    BY <1>9 DEF EndGap, o
  <2> HIDE DEF done, rest
  <2> QED
    BY <1>8, <2>1, <2>2
<1>10. CASE why = "none" /\ Len(j.left) = 1
  <2>1. EndGap(j, why) = Recording(j, done, "none")
    BY <1>10 DEF EndGap, o
  <2>2. done # <<>>
    <3> HIDE DEF rest
    <3>1. j.outcomes \in Seq(Outcomes)
      BY <1>1 DEF JobTypes
    <3>2. done \in Seq(Outcomes) /\ Len(done) = Len(j.outcomes) + 1 /\ Len(j.outcomes) \in Nat
      BY <1>4, <3>1
    <3> QED
      BY <3>2
  <2> HIDE DEF done
  <2> QED
    BY <1>6, <1>8, <1>10, <2>1, <2>2
<1>11. CASE why = "none" /\ Len(j.left) # 1
  <2> DEFINE n == [j EXCEPT !.outcomes = done]
  <2>1. EndGap(j, why) = AtGap(n, Tail(j.left))
    BY <1>11 DEF EndGap, o
  <2>2. Tail(j.left) \in Seq(Gap) /\ Len(Tail(j.left)) = Len(j.left) - 1 /\ Len(Tail(j.left)) # 0
    BY <1>2, <1>11
  <2>3. Tail(j.left) # <<>>
    <3> DEFINE t == Tail(j.left)
    <3>1. t \in Seq(Gap) /\ Len(t) # 0
      BY <2>2
    <3> HIDE DEF t, done, rest
    <3>2. t # <<>>
      BY <3>1
    <3> QED
      BY <3>2 DEF t
  <2>4. done \in Seq(Outcomes)
    BY <1>6 DEF OutcomesRight
  <2> HIDE DEF done
  <2>5. n \in JobTypes /\ n.outcomes = done /\ n.page = <<>>
    BY <1>1, <2>4 DEF JobTypes
  <2> HIDE DEF n
  <2> QED
    BY <1>6, <2>1, <2>2, <2>3, <2>5, GapBegins
<1> QED
  BY <1>9, <1>10, <1>11

\* A job that is past its gaps or not yet at them.
LEMMA AtRight ==
  ASSUME NEW K, NEW j \in JobTypes, OutcomesRight(j.outcomes, K), j.page = <<>>
  PROVE JobRight([j EXCEPT !.at = "beginning"], K)
<1> DEFINE n == [j EXCEPT !.at = "beginning"]
<1>1. n \in JobTypes /\ n.at = "beginning" /\ n.outcomes = j.outcomes /\ n.page = j.page
  BY DEF JobTypes
<1> HIDE DEF n
<1>2. JobRight(n, K)
  BY <1>1 DEF JobRight
<1> QED
  BY <1>2 DEF n

LEMMA PausingRight ==
  ASSUME NEW K, NEW cancel \in BOOLEAN
  PROVE JobRight([Fresh EXCEPT !.at = "pausing", !.cancel = cancel], K)
<1> DEFINE n == [Fresh EXCEPT !.at = "pausing", !.cancel = cancel]
<1>1. Fresh \in JobTypes /\ Fresh.outcomes = <<>> /\ Fresh.page = <<>> /\ OutcomesRight(<<>>, K)
  <2>1. Fresh.outcomes = <<>> /\ Fresh.page = <<>>
    BY DEF Fresh
  <2> QED
    BY <2>1, FreshRight
<1>2. n \in JobTypes /\ n.at = "pausing" /\ n.outcomes = <<>> /\ n.page = <<>>
  <2> DEFINE f == Fresh
  <2>1. f \in JobTypes /\ f.outcomes = <<>> /\ f.page = <<>> /\ n = [f EXCEPT !.at = "pausing", !.cancel = cancel]
    BY <1>1
  <2> HIDE DEF f, n
  <2> QED
    BY <2>1 DEF JobTypes
<1> HIDE DEF n
<1>3. JobRight(n, K)
  BY <1>1, <1>2 DEF JobRight
<1> QED
  BY <1>3 DEF n

LEMMA CancelRight ==
  ASSUME NEW K, NEW j, JobRight(j, K), j # NoJob, NEW yes \in BOOLEAN
  PROVE JobRight([j EXCEPT !.cancel = yes], K)
<1> DEFINE n == [j EXCEPT !.cancel = yes]
<1>1. j \in JobTypes /\ OutcomesRight(j.outcomes, K) /\ (j.at # "storing" => j.page = <<>>)
      /\ (j.at \in {"asking", "storing"} => GapRight(j, K)) /\ (j.at = "recording" => j.outcomes # <<>>)
  BY DEF JobRight
<1>2. /\ n \in JobTypes /\ n.at = j.at /\ n.outcomes = j.outcomes /\ n.page = j.page /\ n.left = j.left /\ n.start = j.start
      /\ n.offset = j.offset /\ n.reached = j.reached /\ n.full = j.full
  BY <1>1 DEF JobTypes
<1> HIDE DEF n
<1>3. GapRight(j, K) => GapRight(n, K)
  <2>1. Passed(n) = Passed(j)
    BY <1>2 DEF Passed
  <2> QED
    BY <1>2, <2>1 DEF GapRight
<1>4. JobRight(n, K)
  BY <1>1, <1>2, <1>3 DEF JobRight
<1> QED
  BY <1>4 DEF n

-----------------------------------------------------------------------------
(* The steps of the job.                                                   *)

BackfillInv == LogTypes /\ JobRight(job, KeptLines) /\ RunsRight(runs, KeptLines)

\* A line that is kept stays so, and with it what is noted.
LEMMA KeptGrows ==
  ASSUME Carried, lost \subseteq lost'
  PROVE KeptLines \subseteq KeptLines'
<1>1. ASSUME NEW i \in DOMAIN Archive, Kept(Archive[i])
      PROVE Kept(Archive[i])'
  <2>1. Archive[i] \in ToSet(Archive)
    BY ArchiveIs
  <2> QED
    BY <1>1, <2>1, StaysKept
<1> QED
  BY <1>1 DEF KeptLines

LEMMA LogStands ==
  ASSUME LogTypes, UNCHANGED logVars
  PROVE LogTypes' /\ Carried
<1>1. Outgrows(log, log)
  BY DEF LogTypes, Tables, Outgrows
<1>2. Underway' = Underway
  BY DEF logVars, Underway
<1> QED
  BY <1>1, <1>2 DEF logVars, LogTypes, Carried

\* A step that leaves the log alone.
LEMMA JobMoves ==
  ASSUME BackfillInv, UNCHANGED <<logVars, runs, lost>>, JobRight(job', KeptLines)
  PROVE BackfillInv'
<1>1. LogTypes' /\ Carried
  BY LogStands DEF BackfillInv
<1>2. KeptLines \subseteq KeptLines'
  BY <1>1, KeptGrows
<1>3. JobRight(job', KeptLines')
  BY <1>2, JobStays
<1>4. RunsRight(runs, KeptLines') /\ runs' = runs
  BY <1>2, RunsStay DEF BackfillInv
<1> QED
  BY <1>1, <1>3, <1>4 DEF BackfillInv

\* A step that leaves the job alone.
LEMMA LogMoves ==
  ASSUME BackfillInv, LogTypes', KeptLines \subseteq KeptLines', job' \in {job, NoJob}, UNCHANGED runs
  PROVE BackfillInv'
<1>1. JobRight(job, KeptLines')
  BY JobStays DEF BackfillInv
<1>2. RunsRight(runs, KeptLines')
  BY RunsStay DEF BackfillInv
<1>3. JobRight(job', KeptLines') /\ RunsRight(runs', KeptLines')
  BY <1>1, <1>2 DEF JobRight
<1> QED
  BY <1>3 DEF BackfillInv

LEMMA GapsAre ==
  ASSUME NEW gaps \in ByStart(OpenGaps), BackfillInv
  PROVE gaps \in Seq(Gap)
<1>1. OpenGaps \subseteq Gap /\ IsFiniteSet(OpenGaps)
  BY BackfillAssumption, FS_Subset DEF OpenGaps
<1>2. Cardinality(OpenGaps) \in Nat
  BY <1>1, FS_CardinalityType
<1>3. gaps \in [1 .. Cardinality(OpenGaps) -> OpenGaps]
  BY DEF ByStart
<1> QED
  BY <1>1, <1>2, <1>3

LEMMA BeginStep ==
  ASSUME BackfillInv, Begin
  PROVE BackfillInv'
<1>1. CASE job' = NoJob
  BY <1>1, JobMoves DEF Begin, JobRight
<1>2. ASSUME NEW gaps \in ByStart(OpenGaps), gaps # <<>>, job' = AtGap([job EXCEPT !.outcomes = <<>>, !.error = "none"], gaps)
      PROVE BackfillInv'
  <2> DEFINE j == [job EXCEPT !.outcomes = <<>>, !.error = "none"]
  <2>1. job \in JobTypes /\ job.page = <<>>
    BY DEF Begin, BackfillInv, JobRight, NoJob
  <2>2. j \in JobTypes /\ j.outcomes = <<>> /\ j.page = <<>>
    <3>1. j = [at |-> job.at, cancel |-> job.cancel, left |-> job.left, start |-> job.start, offset |-> job.offset,
               reached |-> job.reached, page |-> job.page, full |-> job.full, outcomes |-> <<>>, error |-> "none"]
      <4>1. job = [at |-> job.at, cancel |-> job.cancel, left |-> job.left, start |-> job.start, offset |-> job.offset,
                   reached |-> job.reached, page |-> job.page, full |-> job.full, outcomes |-> job.outcomes,
                   error |-> job.error]
        BY <2>1 DEF JobTypes
      <4> DEFINE empty == <<>>
      <4>2. j = [job EXCEPT !.outcomes = empty, !.error = "none"]
        OBVIOUS
      <4> HIDE DEF empty, j
      <4>3. j = [at |-> job.at, cancel |-> job.cancel, left |-> job.left, start |-> job.start, offset |-> job.offset,
                 reached |-> job.reached, page |-> job.page, full |-> job.full, outcomes |-> empty, error |-> "none"]
        BY <4>1, <4>2
      <4> QED
        BY <4>3 DEF empty
    <3>2. <<>> \in Seq(Outcomes) /\ "none" \in Errors
      BY DEF Errors
    <3> HIDE DEF j
    <3> QED
      BY <2>1, <3>1, <3>2 DEF JobTypes
  <2>3. OutcomesRight(j.outcomes, KeptLines)
    BY <2>2, FreshRight
  <2>4. gaps \in Seq(Gap)
    BY GapsAre
  <2>5. RunsRight(runs, KeptLines)
    BY DEF BackfillInv
  <2> HIDE DEF j
  <2>6. JobRight(AtGap(j, gaps), KeptLines)
    BY <1>2, <2>2, <2>3, <2>4, <2>5, GapBegins
  <2>7. JobRight(job', KeptLines)
    BY <1>2, <2>6 DEF j
  <2> QED
    BY <2>7, JobMoves DEF Begin
<1> QED
  BY <1>1, <1>2 DEF Begin

LEMMA AtAGap ==
  ASSUME BackfillInv, job.at \in {"asking", "storing"}
  PROVE job \in JobTypes /\ OutcomesRight(job.outcomes, KeptLines) /\ GapRight(job, KeptLines) /\ RunsRight(runs, KeptLines)
  BY DEF BackfillInv, JobRight, NoJob

LEMMA AskStep ==
  ASSUME BackfillInv, Ask
  PROVE BackfillInv'
<1>1. PICK why \in {"stopped", "paused"} : job' = EndGap(job, why)
  BY DEF Ask
<1>2. why \in Errors /\ why # "none"
  BY DEF Errors
<1>3. JobRight(job, KeptLines) /\ RunsRight(runs, KeptLines) /\ job.at = "asking" /\ job.page = <<>>
  BY DEF BackfillInv, Ask, JobRight, NoJob
<1>4. JobRight(job', KeptLines)
  BY <1>1, <1>2, <1>3, GapEnds
<1> QED
  BY <1>4, JobMoves DEF Ask

LEMMA FetchStep ==
  ASSUME BackfillInv, Fetch
  PROVE BackfillInv'
<1>1. JobRight(job, KeptLines) /\ RunsRight(runs, KeptLines) /\ job.at = "asking" /\ job.page = <<>>
  BY DEF BackfillInv, Fetch, JobRight, NoJob
<1>2. ASSUME NEW why \in {"paused", "not_logged", "refused"}, job' = EndGap(job, why)
      PROVE JobRight(job', KeptLines)
  <2>1. why \in Errors /\ why # "none"
    BY DEF Errors
  <2> QED
    BY <1>1, <1>2, <2>1, GapEnds
<1>3. ASSUME NEW page, page = Page(job.start, job.left[1], job.offset),
             job' = [job EXCEPT !.at = "storing", !.page = page, !.full = Len(page) >= Limit, !.offset = @ + Len(page)]
      PROVE JobRight(job', KeptLines)
  <2> DEFINE g == job.left[1]
             first == Before(job.start) + job.offset
  <2>1. job \in JobTypes /\ OutcomesRight(job.outcomes, KeptLines) /\ GapRight(job, KeptLines)
    BY <1>1, AtAGap
  <2>2. job.start \in Nat /\ job.offset \in Nat /\ job.left \in Seq(Gap) /\ job.left # <<>>
    BY <2>1 DEF JobTypes, GapRight
  <2>3. g \in Gap
    <3>1. Len(job.left) \in Nat \ {0}
      BY <2>2, EmptySeq
    <3> QED
      BY <2>2, <3>1
  <2>4. Before(job.start) \in Nat
    <3>1. job.start \in Int
      BY <2>2
    <3> QED
      BY <3>1, BeforeIs, ArchiveIs, SMTT(60)
  <2>5. Passed(job) = first /\ first \in Nat /\ first <= Len(Archive)
    BY <1>1, <2>1, <2>2, <2>4 DEF Passed, GapRight
  <2>6. /\ page \in Seq(Event) /\ first + Len(page) <= Len(Archive)
        /\ \A i \in 1 .. Len(page) : page[i] = Archive[first + i]
        /\ Len(page) < Limit => Before(g.to + 1) <= first + Len(page)
    BY <1>3, <2>2, <2>3, <2>5, PageIs
  <2>7. Len(page) \in Nat /\ Limit \in Nat
    BY <2>6, BackfillAssumption
  <2> DEFINE full == Len(page) >= Limit
             n == job'
  <2>8. full \in BOOLEAN /\ (~full => Len(page) < Limit)
    BY <2>7
  <2> HIDE DEF full, first, g
  <2>9. n = [job EXCEPT !.at = "storing", !.page = page, !.full = full, !.offset = @ + Len(page)]
    BY <1>3 DEF full
  <2> HIDE DEF n
  <2>10. n \in JobTypes
    <3>1. n = [at |-> "storing", cancel |-> job.cancel, left |-> job.left, start |-> job.start,
               offset |-> job.offset + Len(page), reached |-> job.reached, page |-> page, full |-> full,
               outcomes |-> job.outcomes, error |-> job.error]
      BY <2>1, <2>9 DEF JobTypes
    <3>2. job.offset + Len(page) \in Nat
      BY <2>2, <2>7
    <3> QED
      BY <2>1, <2>6, <2>8, <3>1, <3>2 DEF JobTypes
  <2>11. /\ n.at = "storing" /\ n.page = page /\ n.full = full /\ n.offset = job.offset + Len(page)
         /\ n.left = job.left /\ n.start = job.start /\ n.reached = job.reached /\ n.outcomes = job.outcomes
    BY <2>1, <2>9 DEF JobTypes
  <2>12. Passed(n) = first
    BY <2>2, <2>4, <2>7, <2>11 DEF Passed, first
  <2>13. GapRight(n, KeptLines)
    <3>1. /\ \A i \in 1 .. first : g.from <= TimeOf(Archive[i]) => i \in KeptLines
          /\ Until(g, job.reached, KeptLines)
      BY <2>1, <2>5 DEF GapRight, g
    <3>2. n.left[1] = g
      BY <2>11 DEF g
    <3>3. n.left # <<>> /\ Passed(n) \in Nat /\ Passed(n) + Len(n.page) <= Len(Archive)
      BY <2>2, <2>5, <2>6, <2>11, <2>12
    <3>4. \A i \in 1 .. Len(n.page) : n.page[i] = Archive[Passed(n) + i]
      BY <2>6, <2>11, <2>12
    <3>5. n.at = "storing" /\ ~n.full => Before(g.to + 1) <= Passed(n) + Len(n.page)
      BY <2>6, <2>8, <2>11, <2>12
    <3> QED
      BY <2>11, <2>12, <3>1, <3>2, <3>3, <3>4, <3>5 DEF GapRight
  <2>14. JobRight(n, KeptLines)
    BY <2>1, <2>10, <2>11, <2>13 DEF JobRight
  <2> QED
    BY <2>14 DEF n
<1>4. JobRight(job', KeptLines)
  BY <1>2, <1>3 DEF Fetch
<1> QED
  BY <1>4, JobMoves DEF Fetch

\* The row of a line is among the operations it is stored by.
LEMMA LineAmong ==
  ASSUME NEW e \in ToSet(Archive), e \in Event, NEW U, ToSet(Ops(e, "ivr-logs")) \subseteq U
  PROVE e \in LinesOf(U)
<1> DEFINE m == [op |-> "message", msg |-> e.msg, source |-> "ivr-logs"]
           r == [op |-> "mod_event", event |-> e]
           f == [op |-> "flag", event |-> e]
<1>1. CASE e.kind = "message"
  <2>1. Ops(e, "ivr-logs") = <<m>>
    BY <1>1 DEF Ops
  <2>2. m.op = "message" /\ m.msg = e.msg
    OBVIOUS
  <2> HIDE DEF m
  <2>3. m \in ToSet(<<m>>)
    BY DEF ToSet
  <2> QED
    BY <1>1, <2>1, <2>2, <2>3 DEF LinesOf
<1>2. CASE e.kind # "message"
  <2>1. Ops(e, "ivr-logs") = <<r, f>>
    BY <1>2 DEF Ops
  <2>2. r.op = "mod_event" /\ r.event = e
    OBVIOUS
  <2> HIDE DEF r, f
  <2>3. r \in ToSet(<<r, f>>)
    BY DEF ToSet
  <2> QED
    BY <2>1, <2>2, <2>3 DEF LinesOf
<1> QED
  BY <1>1, <1>2

\* The next line is kept, and with it everything before it.
LEMMA StoreStep ==
  ASSUME BackfillInv, Store
  PROVE BackfillInv'
<1> DEFINE e == Head(job.page)
           put == Ops(e, "ivr-logs")
           p == Passed(job)
           g == job.left[1]
           n == job'
           r == Max({job.reached, TimeOf(e)})
<1>1. /\ job \in JobTypes /\ OutcomesRight(job.outcomes, KeptLines) /\ GapRight(job, KeptLines)
      /\ job.at = "storing" /\ job.page # <<>> /\ LogTypes
  BY AtAGap DEF Store, BackfillInv
<1>2. /\ job.page \in Seq(Event) /\ Len(job.page) \in Nat \ {0} /\ e = job.page[1] /\ e \in Event
      /\ Tail(job.page) \in Seq(Event) /\ Len(Tail(job.page)) = Len(job.page) - 1
      /\ \A i \in 1 .. Len(job.page) - 1 : Tail(job.page)[i] = job.page[i + 1]
  <2>1. job.page \in Seq(Event) /\ job.page # <<>>
    BY <1>1 DEF JobTypes
  <2> HIDE DEF e
  <2> DEFINE q == job.page
  <2>2. q \in Seq(Event) /\ q # <<>>
    BY <2>1
  <2> HIDE DEF q
  <2>3. /\ Len(q) \in Nat \ {0} /\ Head(q) = q[1] /\ Head(q) \in Event
        /\ Tail(q) \in Seq(Event) /\ Len(Tail(q)) = Len(q) - 1
        /\ \A i \in 1 .. Len(q) - 1 : Tail(q)[i] = q[i + 1]
    BY <2>2, EmptySeq
  <2> QED
    BY <2>2, <2>3 DEF q, e
<1>3. /\ p \in Nat /\ p + Len(job.page) <= Len(Archive) /\ Len(Archive) \in Nat
      /\ p + 1 \in DOMAIN Archive /\ e = Archive[p + 1] /\ e \in ToSet(Archive) /\ TimeOf(e) \in Nat
  <2>1. p \in Nat /\ p + Len(job.page) <= Len(Archive) /\ \A i \in 1 .. Len(job.page) : job.page[i] = Archive[p + i]
    BY <1>1 DEF GapRight
  <2> HIDE DEF p, e
  <2>2. p + 1 \in 1 .. Len(Archive) /\ e = Archive[p + 1]
    BY <1>2, <2>1, ArchiveIs
  <2> QED
    BY <2>1, <2>2, ArchiveIs
<1>4. put \in Seq(Item)
  BY <1>2, OpsAre
<1> HIDE DEF e, put, p
<1>5. Fill \in Producer /\ putting[Fill] = <<>> /\ PutAll(Fill, put) /\ UNCHANGED <<taken, log, dropped, writer, heard, lost, runs>>
  BY DEF Store, Producer, e, put
<1>6. Carried
  <2>1. ToSet(putting[Fill]) \subseteq ToSet(put)
    BY <1>5 DEF ToSet
  <2> QED
    BY <1>1, <1>4, <1>5, <2>1, PutCarries
<1>7. Fill \notin Live
  <2>1. Fill \notin Event
    BY DEF Fill, Event
  <2> QED
    BY <2>1, ChatLogAssumption
<1>8. /\ queue' \in Seq(Item) /\ Len(queue') <= QueueMax /\ putting' \in [Producer -> Seq(Item)]
      /\ ToSet(put) \subseteq ToSet(queue') \cup ToSet(putting'[Fill])
      /\ \A q \in Producer : q # Fill => putting'[q] = putting[q]
  BY <1>1, <1>4, <1>5, PutIs
<1>9. LogTypes'
  <2>1. \A q \in Live : putting'[q] = putting[q]
    BY <1>7, <1>8 DEF Producer
  <2> QED
    BY <1>1, <1>5, <1>8, <2>1 DEF LogTypes
<1>10. KeptLines \subseteq KeptLines'
  BY <1>5, <1>6, KeptGrows
<1>11. ToSet(put) \subseteq Underway'
  BY <1>5, <1>8 DEF Underway
<1>12. p + 1 \in KeptLines'
  <2>1. e \in LinesOf(Underway')
    BY <1>2, <1>3, <1>11, LineAmong DEF put
  <2>2. e \in LinesOf(Underway' \cup dropped')
    BY <2>1 DEF LinesOf
  <2> QED
    BY <1>3, <2>2 DEF KeptLines, Kept
<1>13. job.reached \in Nat
  BY <1>1 DEF JobTypes
<1>14. r \in Nat /\ (r = job.reached \/ r = TimeOf(e))
  <2> DEFINE t == TimeOf(e)
  <2>1. t \in Int /\ job.reached \in Int
    BY <1>3, <1>13
  <2> HIDE DEF t
  <2>2. Max({job.reached, t}) = IF job.reached >= t THEN job.reached ELSE t
    BY <2>1, MaxOfTwo
  <2> QED
    BY <1>3, <1>13, <2>2 DEF t
<1>15. n = [job EXCEPT !.page = Tail(@), !.reached = r]
  BY DEF Store, e
<1> HIDE DEF n, r
<1>16. n = [at |-> job.at, cancel |-> job.cancel, left |-> job.left, start |-> job.start, offset |-> job.offset,
            reached |-> r, page |-> Tail(job.page), full |-> job.full, outcomes |-> job.outcomes, error |-> job.error]
  BY <1>1, <1>15 DEF JobTypes
<1>17. n \in JobTypes
  BY <1>1, <1>2, <1>14, <1>16 DEF JobTypes
<1>18. /\ n.at = "storing" /\ n.left = job.left /\ n.start = job.start /\ n.offset = job.offset /\ n.reached = r
       /\ n.page = Tail(job.page) /\ n.full = job.full /\ n.outcomes = job.outcomes
  BY <1>1, <1>16
<1>19. Passed(n) = p + 1
  <2>1. Before(job.start) \in Int /\ job.offset \in Int
    <3>1. job.start \in Int /\ job.offset \in Int
      BY <1>1 DEF JobTypes
    <3>2. Before(job.start) \in 0 .. Len(Archive)
      BY <3>1, BeforeIs
    <3> QED
      BY <1>3, <3>1, <3>2
  <2>2. Passed(n) = Before(job.start) + job.offset - Len(Tail(job.page)) /\ p = Before(job.start) + job.offset - Len(job.page)
    BY <1>18 DEF Passed, p
  <2> QED
    BY <1>2, <2>1, <2>2
<1>20. GapRight(n, KeptLines')
  <2>1. n.left # <<>> /\ n.left[1] = g /\ Passed(n) \in Nat /\ Passed(n) + Len(n.page) <= Len(Archive)
    <3>1. n.left # <<>> /\ n.left[1] = g
      BY <1>1, <1>18 DEF GapRight
    <3>2. Passed(n) = p + 1 /\ Len(n.page) = Len(job.page) - 1
      BY <1>2, <1>18, <1>19
    <3> HIDE DEF g
    <3>3. Passed(n) \in Nat /\ Passed(n) + Len(n.page) <= Len(Archive)
      <4> DEFINE l == Len(job.page)
                 a == Len(Archive)
                 x == Passed(n)
                 y == Len(n.page)
      <4>1. l \in Nat /\ a \in Nat /\ p \in Nat /\ p + l <= a /\ x = p + 1 /\ y = l - 1
        BY <1>2, <1>3, <3>2
      <4> HIDE DEF l, a, x, y
      <4>2. x \in Nat /\ x + y <= a
        BY <4>1
      <4> QED
        BY <4>2 DEF a, x, y
    <3> QED
      BY <3>1, <3>3
  <2>2. ASSUME NEW i \in 1 .. Len(n.page)
        PROVE n.page[i] = Archive[Passed(n) + i]
    <3>1. i + 1 \in 1 .. Len(job.page) /\ i \in 1 .. Len(job.page) - 1
      BY <1>2, <1>18
    <3>2. n.page[i] = job.page[i + 1]
      BY <1>2, <1>18, <3>1
    <3>3. job.page[i + 1] = Archive[p + (i + 1)]
      BY <1>1, <3>1 DEF GapRight, p
    <3>4. p + (i + 1) = Passed(n) + i
      BY <1>3, <1>19
    <3> QED
      BY <3>2, <3>3, <3>4
  <2>3. ASSUME NEW i \in 1 .. Passed(n), g.from <= TimeOf(Archive[i])
        PROVE i \in KeptLines'
    <3>1. i = p + 1 \/ i \in 1 .. p
      BY <1>3, <1>19
    <3>2. i \in 1 .. p => i \in KeptLines
      BY <1>1, <2>3 DEF GapRight, p
    <3> QED
      BY <1>10, <1>12, <3>1, <3>2
  <2>4. Until(g, r, KeptLines')
    <3>1. Until(g, job.reached, KeptLines')
      BY <1>1, <1>10 DEF GapRight, Until
    <3>2. ASSUME NEW i \in DOMAIN Archive, g.from <= TimeOf(Archive[i]), TimeOf(Archive[i]) < TimeOf(e)
          PROVE i \in KeptLines'
      <4>1. i \in 1 .. Len(Archive) /\ TimeOf(Archive[i]) \in Nat
        BY ArchiveIs
      <4>2. ~(p + 1 <= i)
        <5>1. p + 1 <= i => TimeOf(Archive[p + 1]) <= TimeOf(Archive[i])
          BY <1>3, BackfillAssumption
        <5>2. TimeOf(Archive[p + 1]) \in Nat /\ TimeOf(Archive[i]) < TimeOf(Archive[p + 1])
          BY <1>3, <3>2
        <5> QED
          BY <4>1, <5>1, <5>2
      <4>3. i \in 1 .. Passed(n)
        BY <1>3, <1>19, <4>1, <4>2
      <4> QED
        BY <2>3, <3>2, <4>3
    <3>3. Until(g, TimeOf(e), KeptLines')
      BY <3>2 DEF Until
    <3> QED
      BY <1>14, <3>1, <3>3
  <2>5. n.at = "storing" /\ ~n.full => Before(g.to + 1) <= Passed(n) + Len(n.page)
    <3>1. Passed(n) + Len(n.page) = p + Len(job.page)
      <4>1. Passed(n) = p + 1 /\ Len(n.page) = Len(job.page) - 1
        BY <1>2, <1>18, <1>19
      <4> DEFINE l == Len(job.page)
                 x == Passed(n)
                 y == Len(n.page)
      <4>2. l \in Nat /\ p \in Nat /\ x = p + 1 /\ y = l - 1
        BY <1>2, <1>3, <4>1
      <4> HIDE DEF l, x, y
      <4>3. x + y = p + l
        BY <4>2
      <4> QED
        BY <4>3 DEF l, x, y
    <3>2. ~job.full => Before(g.to + 1) <= p + Len(job.page)
      BY <1>1 DEF GapRight, p
    <3> QED
      BY <1>18, <3>1, <3>2
  <2> QED
    BY <1>18, <2>1, <2>2, <2>3, <2>4, <2>5 DEF GapRight
<1>21. OutcomesRight(n.outcomes, KeptLines')
  BY <1>1, <1>10, <1>18, RightStays DEF OutcomesRight
<1>22. JobRight(n, KeptLines')
  BY <1>17, <1>18, <1>20, <1>21 DEF JobRight
<1>23. RunsRight(runs', KeptLines')
  BY <1>5, <1>10, RunsStay DEF BackfillInv
<1> QED
  BY <1>9, <1>22, <1>23 DEF BackfillInv, n

LEMMA PageDoneStep ==
  ASSUME BackfillInv, PageDone
  PROVE BackfillInv'
<1>1. /\ job \in JobTypes /\ OutcomesRight(job.outcomes, KeptLines) /\ GapRight(job, KeptLines)
      /\ job.at = "storing" /\ job.page = <<>> /\ JobRight(job, KeptLines) /\ RunsRight(runs, KeptLines)
  BY AtAGap DEF PageDone, BackfillInv
<1>2. CASE job.full
  <2> DEFINE n == job'
             no == FALSE
  <2>1. n = [job EXCEPT !.at = "asking", !.full = no]
    BY <1>2 DEF PageDone
  <2>2. no \in BOOLEAN
    OBVIOUS
  <2> HIDE DEF n, no
  <2>3. n = [at |-> "asking", cancel |-> job.cancel, left |-> job.left, start |-> job.start, offset |-> job.offset,
             reached |-> job.reached, page |-> job.page, full |-> no, outcomes |-> job.outcomes, error |-> job.error]
    BY <1>1, <2>1 DEF JobTypes
  <2>4. n \in JobTypes
    BY <1>1, <2>2, <2>3 DEF JobTypes
  <2>5. /\ n.at = "asking" /\ n.left = job.left /\ n.start = job.start /\ n.offset = job.offset
        /\ n.reached = job.reached /\ n.page = job.page /\ n.outcomes = job.outcomes
    BY <2>3
  <2>6. Passed(n) = Passed(job)
    BY <2>5 DEF Passed
  <2>7. GapRight(n, KeptLines)
    BY <1>1, <2>5, <2>6 DEF GapRight
  <2>8. JobRight(n, KeptLines)
    BY <1>1, <2>4, <2>5, <2>7 DEF JobRight
  <2> QED
    BY <2>8, JobMoves DEF PageDone, n
<1>3. CASE ~job.full
  <2>1. Finished(job)
    <3>1. Len(job.page) = 0 /\ Passed(job) \in Nat
      BY <1>1 DEF GapRight
    <3>2. Before(job.left[1].to + 1) <= Passed(job) + Len(job.page)
      BY <1>1, <1>3 DEF GapRight
    <3> QED
      BY <3>1, <3>2 DEF Finished
  <2>2. "none" \in Errors
    BY DEF Errors
  <2>3. JobRight(EndGap(job, "none"), KeptLines)
    BY <1>1, <2>1, <2>2, GapEnds
  <2>4. job' = EndGap(job, "none")
    BY <1>3 DEF PageDone
  <2> QED
    BY <2>3, <2>4, JobMoves DEF PageDone
<1> QED
  BY <1>2, <1>3

\* What an outcome says of its gap is added to what was noted.
LEMMA RecordStep ==
  ASSUME BackfillInv, Record
  PROVE BackfillInv'
<1> DEFINE o == Head(job.outcomes)
           g == o.gap
           complete == runs[g].complete \/ o.complete
           reached == Max({runs[g].reached, o.reached})
           row == [complete |-> complete, reached |-> reached]
<1>1. /\ job \in JobTypes /\ OutcomesRight(job.outcomes, KeptLines) /\ job.outcomes # <<>> /\ job.page = <<>>
      /\ job.at = "recording"
  BY DEF Record, BackfillInv, JobRight, NoJob
<1>2. RunsRight(runs, KeptLines) /\ LogTypes
  BY DEF BackfillInv
<1> DEFINE os == job.outcomes
<1>3. os \in Seq(Outcomes) /\ \A i \in 1 .. Len(os) : Right(os[i].gap, os[i].complete, os[i].reached, KeptLines)
  BY <1>1 DEF OutcomesRight
<1>4. /\ Len(os) \in Nat \ {0} /\ o = os[1] /\ o \in Outcomes /\ Tail(os) \in Seq(Outcomes) /\ Len(Tail(os)) = Len(os) - 1
      /\ \A i \in 1 .. Len(os) - 1 : Tail(os)[i] = os[i + 1]
  <2>1. os # <<>> /\ os \in Seq(Outcomes)
    BY <1>1, <1>3
  <2> HIDE DEF os
  <2>2. Head(os) = os[1] /\ Len(os) \in Nat \ {0} /\ Head(os) \in Outcomes
    BY <2>1, EmptySeq
  <2>3. Tail(os) \in Seq(Outcomes) /\ Len(Tail(os)) = Len(os) - 1 /\ \A i \in 1 .. Len(os) - 1 : Tail(os)[i] = os[i + 1]
    BY <2>1, <2>2
  <2> QED
    BY <2>2, <2>3 DEF os
<1>5. g \in Gap /\ o.complete \in BOOLEAN /\ o.reached \in Nat /\ Right(g, o.complete, o.reached, KeptLines)
  <2>1. Right(o.gap, o.complete, o.reached, KeptLines)
    BY <1>3, <1>4
  <2> QED
    BY <1>4, <2>1 DEF Outcomes
<1>6. runs' = [runs EXCEPT ![g] = row]
  <2>1. runs' = [runs EXCEPT ![g] = [complete |-> @.complete \/ o.complete, reached |-> Max({@.reached, o.reached})]]
    BY DEF Record
  <2> QED
    BY <1>2, <1>5, <2>1 DEF RunsRight
<1>7. runs[g] \in [complete : BOOLEAN, reached : Nat] /\ Right(g, runs[g].complete, runs[g].reached, KeptLines)
  BY <1>2, <1>5 DEF RunsRight
<1>8. reached \in Nat /\ (reached = runs[g].reached \/ reached = o.reached)
  <2> DEFINE a == runs[g].reached
             b == o.reached
  <2>1. a \in Nat /\ b \in Nat
    BY <1>5, <1>7
  <2> HIDE DEF a, b
  <2>2. Max({a, b}) = IF a >= b THEN a ELSE b
    BY <2>1, MaxOfTwo
  <2>3. Max({a, b}) \in Nat /\ (Max({a, b}) = a \/ Max({a, b}) = b)
    BY <2>1, <2>2
  <2> QED
    BY <2>3 DEF a, b
<1>9. complete \in BOOLEAN
  BY <1>5, <1>7
<1> HIDE DEF reached
<1>10. Right(g, complete, reached, KeptLines)
  <2>1. Until(g, reached, KeptLines)
    BY <1>5, <1>7, <1>8 DEF Right
  <2>2. complete => Until(g, g.to + 1, KeptLines)
    BY <1>5, <1>7 DEF Right
  <2> QED
    BY <2>1, <2>2 DEF Right
<1> HIDE DEF complete
<1>11. RunsRight(runs', KeptLines)
  <2>1. row \in [complete : BOOLEAN, reached : Nat] /\ row.complete = complete /\ row.reached = reached
    BY <1>8, <1>9
  <2> HIDE DEF row, g
  <2>2. runs' \in [Gap -> [complete : BOOLEAN, reached : Nat]]
    BY <1>2, <1>6, <2>1 DEF RunsRight
  <2>3. ASSUME NEW h \in Gap
        PROVE Right(h, runs'[h].complete, runs'[h].reached, KeptLines)
    <3>1. h = g => runs'[h] = row
      BY <1>2, <1>6 DEF RunsRight
    <3>2. h # g => runs'[h] = runs[h]
      BY <1>2, <1>6 DEF RunsRight
    <3>3. Right(h, runs[h].complete, runs[h].reached, KeptLines)
      BY <1>2 DEF RunsRight
    <3> QED
      BY <1>10, <2>1, <3>1, <3>2, <3>3
  <2> QED
    BY <2>2, <2>3 DEF RunsRight
<1>12. JobRight(job', KeptLines)
  <2>1. CASE job' = NoJob
    BY <2>1 DEF JobRight
  <2>2. CASE job' = [Fresh EXCEPT !.at = "pausing", !.cancel = job.cancel]
    BY <1>1, <2>2, PausingRight DEF JobTypes
  <2>3. CASE Len(os) # 1 /\ job' = [job EXCEPT !.outcomes = Tail(@)]
    <3> DEFINE n == job'
               t == Tail(os)
    <3>1. n = [job EXCEPT !.outcomes = t]
      BY <2>3
    <3>2. t \in Seq(Outcomes) /\ t # <<>> /\ Len(t) = Len(os) - 1 /\ \A i \in 1 .. Len(os) - 1 : t[i] = os[i + 1]
      <4>1. t \in Seq(Outcomes) /\ Len(t) = Len(os) - 1 /\ \A i \in 1 .. Len(os) - 1 : t[i] = os[i + 1]
        BY <1>4
      <4>2. Len(t) # 0
        BY <1>4, <2>3, <4>1
      <4> HIDE DEF t, os
      <4>3. t # <<>>
        BY <4>2
      <4> QED
        BY <4>1, <4>3
    <3> HIDE DEF n, t
    <3>3. n \in JobTypes /\ n.outcomes = t /\ n.page = <<>> /\ n.at = "recording"
      BY <1>1, <3>1, <3>2 DEF JobTypes
    <3>4. OutcomesRight(t, KeptLines)
      <4>1. ASSUME NEW i \in 1 .. Len(t)
            PROVE Right(t[i].gap, t[i].complete, t[i].reached, KeptLines)
        <5>1. i \in 1 .. Len(os) - 1 /\ i + 1 \in 1 .. Len(os)
          BY <1>4, <3>2
        <5> QED
          BY <1>3, <3>2, <5>1
      <4> QED
        BY <3>2, <4>1 DEF OutcomesRight
    <3>5. JobRight(n, KeptLines)
      BY <3>2, <3>3, <3>4 DEF JobRight
    <3> QED
      BY <3>5 DEF n
  <2> QED
    BY <2>1, <2>2, <2>3 DEF Record, EndFill
<1>13. LogTypes' /\ Carried
  BY <1>2, LogStands DEF Record
<1>14. KeptLines \subseteq KeptLines'
  BY <1>13, KeptGrows DEF Record
<1> QED
  BY <1>11, <1>12, <1>13, <1>14, JobStays, RunsStay DEF BackfillInv

LEMMA PauseStep ==
  ASSUME BackfillInv, Pause
  PROVE BackfillInv'
<1>1. job \in JobTypes /\ OutcomesRight(job.outcomes, KeptLines) /\ job.page = <<>>
  BY DEF Pause, BackfillInv, JobRight, NoJob
<1>2. JobRight(job', KeptLines)
  <2>1. CASE job' = NoJob
    BY <2>1 DEF JobRight
  <2>2. CASE job' = [job EXCEPT !.at = "beginning"]
    BY <1>1, <2>2, AtRight
  <2> QED
    BY <2>1, <2>2 DEF Pause
<1> QED
  BY <1>2, JobMoves DEF Pause

LEMMA JobSteps ==
  ASSUME BackfillInv, JobStep
  PROVE BackfillInv'
  BY BeginStep, AskStep, FetchStep, StoreStep, PageDoneStep, RecordStep, PauseStep DEF JobStep

-----------------------------------------------------------------------------
(* The steps of the process.                                               *)

LEMMA ControlSteps ==
  ASSUME BackfillInv, QueueGaps \/ Cancel \/ StartJob \/ NewDay \/ Stop_ \/ UNCHANGED backfillVars
  PROVE BackfillInv'
<1>1. UNCHANGED <<logVars, runs, lost>>
  BY DEF QueueGaps, Cancel, StartJob, NewDay, Stop_, backfillVars, fillVars
<1>2. JobRight(job', KeptLines)
  <2>1. CASE job' = job
    BY <2>1 DEF BackfillInv
  <2>2. CASE job' = Fresh
    BY <2>2, FreshRight
  <2>3. CASE job.at # "none" /\ job' = [job EXCEPT !.cancel = TRUE]
    <3> DEFINE yes == TRUE
               n == job'
    <3>1. JobRight(job, KeptLines) /\ job # NoJob
      BY <2>3 DEF BackfillInv, NoJob
    <3>2. n = [job EXCEPT !.cancel = yes] /\ yes \in BOOLEAN
      BY <2>3
    <3> HIDE DEF yes, n
    <3>3. JobRight(n, KeptLines)
      BY <3>1, <3>2, CancelRight
    <3> QED
      BY <3>3 DEF n
  <2> QED
    BY <2>1, <2>2, <2>3 DEF QueueGaps, Cancel, StartJob, NewDay, Stop_, backfillVars, fillVars
<1> QED
  BY <1>1, <1>2, JobMoves

LEMMA LogSteps ==
  ASSUME BackfillInv, WriterAlone \/ (\E p \in Producer : PutAlone(p)) \/ (\E e \in Live : HearEvent(e))
  PROVE BackfillInv'
<1>1. LogTypes
  BY DEF BackfillInv
<1>2. LogTypes' /\ Carried
  <2>1. CASE WriterAlone
    BY <1>1, <2>1, WriterSteps DEF WriterAlone
  <2>2. ASSUME NEW p \in Producer, PutAlone(p)
        PROVE LogTypes' /\ Carried
    BY <1>1, <2>2, PutMoreStep DEF PutAlone
  <2>3. ASSUME NEW e \in Live, HearEvent(e)
        PROVE LogTypes' /\ Carried
    BY <1>1, <2>3, HearStep DEF HearEvent
  <2> QED
    BY <2>1, <2>2, <2>3
<1>3. job' = job /\ runs' = runs /\ lost' = lost
  BY DEF WriterAlone, PutAlone, HearEvent, fillVars
<1>4. KeptLines \subseteq KeptLines'
  BY <1>2, <1>3, KeptGrows
<1> QED
  BY <1>2, <1>3, <1>4, LogMoves

LEMMA StopWriterStep ==
  ASSUME BackfillInv, StopWriter
  PROVE BackfillInv'
<1>1. LogTypes /\ queue \in Seq(Item) /\ Len(queue) <= QueueMax /\ Stop \in Item
  BY DEF BackfillInv, LogTypes, Item
<1>2. UNCHANGED <<taken, writer, putting, heard, log, dropped, job, runs, lost>> /\ queue' = Append(queue, Stop)
  BY DEF StopWriter
<1>3. queue' \in Seq(Item) /\ ToSet(queue) \subseteq ToSet(queue')
  BY <1>1, <1>2, Appended
<1>4. Len(queue') <= QueueMax
  <2>1. Len(queue) \in Nat /\ QueueMax \in Nat /\ Len(queue') = Len(queue) + 1
    BY <1>1, <1>2, ChatLogAssumption
  <2>2. QueueMax - Len(queue) > 0
    BY DEF StopWriter, Room
  <2> QED
    BY <2>1, <2>2
<1>5. LogTypes'
  BY <1>1, <1>2, <1>3, <1>4 DEF LogTypes
<1>6. Carried
  <2>1. Underway \subseteq Underway'
    BY <1>2, <1>3 DEF Underway
  <2>2. Outgrows(log, log)
    BY <1>1 DEF LogTypes, Tables, Outgrows
  <2> QED
    BY <1>2, <2>1, <2>2 DEF Carried
<1>7. KeptLines \subseteq KeptLines'
  BY <1>2, <1>6, KeptGrows
<1> QED
  BY <1>2, <1>5, <1>7, LogMoves

\* What a process takes with it counts as lost.
LEMMA GoneStep ==
  ASSUME BackfillInv, Gone, job' \in {job, NoJob}
  PROVE BackfillInv'
<1>1. LogTypes'
  <2>1. <<>> \in Seq(Item) /\ <<>> \in Seq(Live) /\ Len(<<>>) = 0
    OBVIOUS
  <2>2. queue' = <<>> /\ taken' = <<>> /\ heard' = <<>> /\ putting' = [p \in Producer |-> <<>>] /\ writer' = "stopped" /\ log' = log
    BY DEF Gone
  <2>3. putting' \in [Producer -> Seq(Item)] /\ \A e \in Live : putting'[e] = <<>>
    BY <2>1, <2>2 DEF Producer
  <2>4. QueueMax \in Nat
    BY ChatLogAssumption
  <2> QED
    BY <2>1, <2>2, <2>3, <2>4 DEF LogTypes, BackfillInv
<1>2. ASSUME NEW e \in ToSet(Archive), Kept(e)
      PROVE Kept(e)'
  <2>1. log' = log /\ dropped' = dropped /\ lost' = lost \cup LinesOf(Underway)
    BY DEF Gone
  <2>2. InLog(e) => InLog(e)'
    BY <2>1 DEF InLog
  <2>3. e \in LinesOf(Underway \cup dropped) => e \in LinesOf(Underway) \/ e \in LinesOf(Underway' \cup dropped')
    BY <2>1 DEF LinesOf
  <2> QED
    BY <1>2, <2>1, <2>2, <2>3 DEF Kept
<1>3. KeptLines \subseteq KeptLines'
  BY <1>2, ArchiveIs DEF KeptLines
<1> QED
  BY <1>1, <1>3, LogMoves DEF Gone

LEMMA BootStep ==
  ASSUME BackfillInv, Boot
  PROVE BackfillInv'
<1>1. UNCHANGED <<queue, taken, putting, heard, log, dropped, job, runs, lost>> /\ writer' = "taking"
  BY DEF Boot
<1>2. LogTypes' /\ Carried
  <2>1. Outgrows(log, log)
    BY DEF BackfillInv, LogTypes, Tables, Outgrows
  <2>2. Underway' = Underway
    BY <1>1 DEF Underway
  <2> QED
    BY <1>1, <2>1, <2>2 DEF BackfillInv, LogTypes, Carried
<1>3. KeptLines \subseteq KeptLines'
  BY <1>1, <1>2, KeptGrows
<1> QED
  BY <1>1, <1>2, <1>3, LogMoves

LEMMA BackfillStep ==
  ASSUME BackfillInv, [BackfillNext]_backfillVars
  PROVE BackfillInv'
<1>1. CASE QueueGaps \/ Cancel \/ StartJob \/ NewDay \/ Stop_ \/ UNCHANGED backfillVars
  BY <1>1, ControlSteps
<1>2. CASE JobStep
  BY <1>2, JobSteps
<1>3. CASE WriterAlone \/ (\E p \in Producer : PutAlone(p)) \/ (\E e \in Live : HearEvent(e))
  BY <1>3, LogSteps
<1>4. CASE StopWriter
  BY <1>4, StopWriterStep
<1>5. CASE Exit \/ Killed
  BY <1>5, GoneStep DEF Exit, Killed
<1>6. CASE Boot
  BY <1>6, BootStep
<1> QED
  BY <1>1, <1>2, <1>3, <1>4, <1>5, <1>6 DEF BackfillNext

LEMMA BackfillStarts ==
  ASSUME BackfillInit
  PROVE BackfillInv
<1>1. LogTypes
  <2>1. <<>> \in Seq(Item) /\ <<>> \in Seq(Live) /\ Len(<<>>) = 0 /\ QueueMax \in Nat
    BY ChatLogAssumption
  <2>2. putting \in [Producer -> Seq(Item)] /\ \A e \in Live : putting[e] = <<>>
    BY <2>1 DEF BackfillInit, LogInit, Producer
  <2>3. log \in Tables
    BY DEF BackfillInit, LogInit, Tables
  <2> QED
    BY <2>1, <2>2, <2>3 DEF BackfillInit, LogInit, LogTypes
<1>2. JobRight(job, KeptLines)
  BY DEF BackfillInit, JobRight
<1>3. RunsRight(runs, KeptLines)
  <2> DEFINE no == FALSE
  <2>1. no \in BOOLEAN /\ runs = [g \in Gap |-> [complete |-> no, reached |-> 0]] /\ ~no
    BY DEF BackfillInit, NoRun, Nothing
  <2> HIDE DEF no
  <2>2. runs \in [Gap -> [complete : BOOLEAN, reached : Nat]]
    BY <2>1
  <2>3. ASSUME NEW g \in Gap
        PROVE Right(g, runs[g].complete, runs[g].reached, KeptLines)
    <3>1. ~runs[g].complete /\ runs[g].reached = 0
      BY <2>1
    <3>2. \A i \in DOMAIN Archive : ~(TimeOf(Archive[i]) < 0)
      BY ArchiveIs
    <3> QED
      BY <3>1, <3>2 DEF Right, Until
  <2> QED
    BY <2>2, <2>3 DEF RunsRight
<1> QED
  BY <1>1, <1>2, <1>3 DEF BackfillInv

\* A gap that is noted as complete has all of its lines, and one that is not has those before the line where the
\* next fill resumes: stored, on their way to the tables, or gone with a process or a refused row (backfill.py).
THEOREM FilledSafety == BackfillSpec => []FilledMeansKept
<1>1. BackfillInv => FilledMeansKept
  <2> SUFFICES ASSUME BackfillInv, NEW g \in DOMAIN runs, NEW i \in DOMAIN Archive,
                      g.from <= TimeOf(Archive[i]),
                      TimeOf(Archive[i]) <= IF runs[g].complete THEN g.to ELSE runs[g].reached - 1
               PROVE Kept(Archive[i])
    BY DEF FilledMeansKept
  <2>1. g \in Gap /\ Right(g, runs[g].complete, runs[g].reached, KeptLines) /\ runs[g].reached \in Nat
    BY DEF BackfillInv, RunsRight
  <2>2. g.to \in Nat /\ TimeOf(Archive[i]) \in Nat
    BY <2>1, BackfillAssumption, ArchiveIs
  <2>3. i \in KeptLines
    <3>1. CASE runs[g].complete
      <4>1. TimeOf(Archive[i]) < g.to + 1
        BY <2>2, <3>1
      <4> QED
        BY <2>1, <3>1, <4>1 DEF Right, Until
    <3>2. CASE ~runs[g].complete
      <4>1. TimeOf(Archive[i]) < runs[g].reached
        BY <2>1, <2>2, <3>2
      <4> QED
        BY <2>1, <4>1 DEF Right, Until
    <3> QED
      BY <3>1, <3>2
  <2> QED
    BY <2>3 DEF KeptLines
<1>2. BackfillSpec => []BackfillInv
  BY BackfillStarts, BackfillStep, PTL DEF BackfillSpec
<1> QED
  BY <1>1, <1>2, PTL
-----------------------------------------------------------------------------
(* A deletion and its message, on their way to the tables.                 *)

Line(m) == [kind |-> "message", msg |-> m]
RowOf(m) == [op |-> "message", msg |-> m, source |-> "eventsub"]
MarkOf(d) == [op |-> "flag", event |-> d]

\* What will be executed, in this order.
Way == taken \o queue

\* The message's row is stored, was refused or is on its way.
Comes(m, way, tables, refused) ==
  \/ RowOf(m) \in refused \/ tables.messages[m] # NoRow
  \/ \E i \in 1 .. Len(way) : way[i] = RowOf(m)

\* The row is marked, was refused, or is marked by what is on its way: behind the row, if that is not stored yet.
Marked(d, way, tables, refused) ==
  \/ RowOf(d.msg) \in refused \/ Deleted(d.msg, tables)
  \/ \E j \in 1 .. Len(way) :
       way[j] = MarkOf(d) /\ (tables.messages[d.msg] # NoRow \/ \E i \in 1 .. j - 1 : way[i] = RowOf(d.msg))

MarkInv ==
  /\ \A e \in ToSet(heard) \ waited : e.kind = "message" => Comes(e.msg, Way, log, dropped)
  /\ \A d \in ToSet(heard) \ waited : d.kind = "delete" /\ Line(d.msg) \notin waited => Marked(d, Way, log, dropped)

LEMMA KindsAre ==
  ASSUME NEW e \in Live, e.kind \in {"message", "delete"}
  PROVE e.msg \in Message
  BY ChatLogAssumption DEF Event

\* More on the way, more in the tables.
LEMMA MarkedOn ==
  ASSUME NEW v, NEW w, Len(v) \in Nat, Len(w) \in Nat, \A k \in 1 .. Len(v) : k \in 1 .. Len(w) /\ w[k] = v[k],
         NEW a, NEW b, Outgrows(a, b), NEW r, NEW s, r \subseteq s
  PROVE /\ \A m \in Message : Comes(m, v, a, r) => Comes(m, w, b, s)
        /\ \A d \in Live : d.kind = "delete" /\ Marked(d, v, a, r) => Marked(d, w, b, s)
<1>1. \A m \in Message : a.messages[m] # NoRow => b.messages[m] # NoRow
  BY DEF Outgrows
<1>2. \A m \in Message : Comes(m, v, a, r) => Comes(m, w, b, s)
  BY <1>1 DEF Comes
<1>3. ASSUME NEW d \in Live, d.kind = "delete", Marked(d, v, a, r)
      PROVE Marked(d, w, b, s)
  <2>1. d.msg \in Message
    BY <1>3, KindsAre
  <2>2. Deleted(d.msg, a) => Deleted(d.msg, b)
    BY <2>1, DeletedStays
  <2>3. ASSUME NEW j \in 1 .. Len(v), v[j] = MarkOf(d), a.messages[d.msg] # NoRow \/ \E i \in 1 .. j - 1 : v[i] = RowOf(d.msg)
        PROVE Marked(d, w, b, s)
    <3>1. j \in 1 .. Len(w) /\ w[j] = MarkOf(d)
      BY <2>3
    <3>2. \A i \in 1 .. j - 1 : i \in 1 .. Len(v) /\ w[i] = v[i]
      OBVIOUS
    <3>3. b.messages[d.msg] # NoRow \/ \E i \in 1 .. j - 1 : w[i] = RowOf(d.msg)
      BY <1>1, <2>1, <2>3, <3>2
    <3> QED
      BY <3>1, <3>3 DEF Marked
  <2> QED
    BY <1>3, <2>2, <2>3 DEF Marked
<1> QED
  BY <1>2, <1>3

\* The first n are done with.
LEMMA MarkedPast ==
  ASSUME NEW v \in Seq(Item), NEW w, NEW n \in 0 .. Len(v), Len(w) = Len(v) - n, \A k \in 1 .. Len(w) : w[k] = v[k + n],
         NEW a, NEW b, Outgrows(a, b), NEW r, NEW s, r \subseteq s,
         \A m \in Message : \A i \in 1 .. n : v[i] = RowOf(m) => RowOf(m) \in s \/ b.messages[m] # NoRow,
         \A d \in Live : \A j \in 1 .. n :
           /\ d.kind = "delete" /\ v[j] = MarkOf(d)
           /\ a.messages[d.msg] # NoRow \/ \E i \in 1 .. j - 1 : v[i] = RowOf(d.msg)
           => RowOf(d.msg) \in s \/ Deleted(d.msg, b)
  PROVE /\ \A m \in Message : Comes(m, v, a, r) => Comes(m, w, b, s)
        /\ \A d \in Live : d.kind = "delete" /\ Marked(d, v, a, r) => Marked(d, w, b, s)
<1>1. \A m \in Message : a.messages[m] # NoRow => b.messages[m] # NoRow
  BY DEF Outgrows
<1>2. Len(v) \in Nat /\ n \in Nat /\ n <= Len(v) /\ Len(w) \in Nat
  OBVIOUS
<1>3. \A i \in 1 .. Len(v) : i \in 1 .. n \/ (i - n \in 1 .. Len(w) /\ w[i - n] = v[i])
  <2> SUFFICES ASSUME NEW i \in 1 .. Len(v), i \notin 1 .. n
               PROVE i - n \in 1 .. Len(w) /\ w[i - n] = v[i]
    OBVIOUS
  <2>1. i - n \in 1 .. Len(w) /\ (i - n) + n = i
    BY <1>2
  <2> QED
    BY <2>1
<1>4. \A m \in Message : Comes(m, v, a, r) => Comes(m, w, b, s)
  BY <1>1, <1>3 DEF Comes
<1>5. ASSUME NEW d \in Live, d.kind = "delete", Marked(d, v, a, r)
      PROVE Marked(d, w, b, s)
  <2>1. d.msg \in Message
    BY <1>5, KindsAre
  <2>2. Deleted(d.msg, a) => Deleted(d.msg, b)
    BY <2>1, DeletedStays
  <2>3. ASSUME NEW j \in 1 .. Len(v), v[j] = MarkOf(d), a.messages[d.msg] # NoRow \/ \E i \in 1 .. j - 1 : v[i] = RowOf(d.msg)
        PROVE Marked(d, w, b, s)
    <3>1. CASE j \in 1 .. n
      BY <1>5, <2>3, <3>1 DEF Marked
    <3>2. CASE j \notin 1 .. n
      <4>1. j - n \in 1 .. Len(w) /\ w[j - n] = MarkOf(d)
        BY <1>3, <2>3, <3>2
      <4>2. CASE a.messages[d.msg] # NoRow
        BY <1>1, <2>1, <4>1, <4>2 DEF Marked
      <4>3. ASSUME NEW i \in 1 .. j - 1, v[i] = RowOf(d.msg)
            PROVE Marked(d, w, b, s)
        <5>1. i \in 1 .. Len(v)
          BY <1>2
        <5>2. CASE i \in 1 .. n
          <6>1. RowOf(d.msg) \in s \/ b.messages[d.msg] # NoRow
            BY <2>1, <4>3, <5>2
          <6> QED
            BY <4>1, <6>1 DEF Marked
        <5>3. CASE i \notin 1 .. n
          <6>1. w[i - n] = RowOf(d.msg) /\ i - n \in 1 .. Len(w)
            BY <1>3, <4>3, <5>1, <5>3
          <6>2. i - n \in 1 .. (j - n) - 1
            BY <1>2, <6>1
          <6> QED
            BY <4>1, <6>1, <6>2 DEF Marked
        <5> QED
          BY <5>2, <5>3
      <4> QED
        BY <2>3, <4>2, <4>3
    <3> QED
      BY <3>1, <3>2
  <2> QED
    BY <1>5, <2>2, <2>3 DEF Marked
<1> QED
  BY <1>4, <1>5

\* What is heard stays right when each of it does.
LEMMA MarkInvOn ==
  ASSUME LogTypes, MarkInv, heard' = heard, waited' = waited,
         \A m \in Message : Comes(m, Way, log, dropped) => Comes(m, Way', log', dropped'),
         \A d \in Live : d.kind = "delete" /\ Marked(d, Way, log, dropped) => Marked(d, Way', log', dropped')
  PROVE MarkInv'
<1>1. ToSet(heard) \subseteq Live
  BY DEF LogTypes, ToSet
<1>2. \A e \in ToSet(heard) \ waited : e.kind = "message" => Comes(e.msg, Way', log', dropped')
  BY <1>1, KindsAre DEF MarkInv
<1>3. \A d \in ToSet(heard) \ waited : d.kind = "delete" /\ Line(d.msg) \notin waited => Marked(d, Way', log', dropped')
  BY <1>1 DEF MarkInv
<1> QED
  BY <1>2, <1>3 DEF MarkInv

LEMMA WayIs ==
  ASSUME NEW t \in Seq(Item), NEW q \in Seq(Item)
  PROVE /\ t \o q \in Seq(Item) /\ Len(t \o q) = Len(t) + Len(q) /\ Len(t) \in Nat /\ Len(q) \in Nat
        /\ \A k \in 1 .. Len(t) + Len(q) : (t \o q)[k] = IF k <= Len(t) THEN t[k] ELSE q[k - Len(t)]
  BY ConcatProperties

\* Something more is put.
LEMMA WayGrows ==
  ASSUME LogTypes, NEW x \in Seq(Item), queue' = queue \o x, taken' = taken
  PROVE /\ Len(Way) \in Nat /\ Len(Way') \in Nat /\ Len(Way') = Len(Way) + Len(x) /\ Len(x) \in Nat
        /\ \A k \in 1 .. Len(Way) : k \in 1 .. Len(Way') /\ Way'[k] = Way[k]
        /\ \A k \in 1 .. Len(x) : Way'[Len(Way) + k] = x[k]
<1>1. queue \in Seq(Item) /\ taken \in Seq(Item)
  BY DEF LogTypes
<1> DEFINE q == queue \o x
<1>2. /\ q \in Seq(Item) /\ Len(q) = Len(queue) + Len(x) /\ Len(queue) \in Nat /\ Len(x) \in Nat
      /\ \A k \in 1 .. Len(queue) + Len(x) : q[k] = IF k <= Len(queue) THEN queue[k] ELSE x[k - Len(queue)]
  BY <1>1, WayIs
<1> HIDE DEF q
<1>3. /\ Len(taken \o q) = Len(taken) + Len(q) /\ Len(taken) \in Nat
      /\ \A k \in 1 .. Len(taken) + Len(q) : (taken \o q)[k] = IF k <= Len(taken) THEN taken[k] ELSE q[k - Len(taken)]
  BY <1>1, <1>2, WayIs
<1>4. /\ Len(taken \o queue) = Len(taken) + Len(queue)
      /\ \A k \in 1 .. Len(taken) + Len(queue) :
           (taken \o queue)[k] = IF k <= Len(taken) THEN taken[k] ELSE queue[k - Len(taken)]
  BY <1>1, WayIs
<1>5. Way = taken \o queue /\ Way' = taken \o q
  BY DEF Way, q
<1> DEFINE v == Way
           w == Way'
           lt == Len(taken)
           lq == Len(queue)
           lx == Len(x)
<1>6. /\ lt \in Nat /\ lq \in Nat /\ lx \in Nat /\ Len(v) = lt + lq /\ Len(w) = lt + (lq + lx)
      /\ \A k \in 1 .. lt + lq : v[k] = IF k <= lt THEN taken[k] ELSE queue[k - lt]
      /\ \A k \in 1 .. lt + (lq + lx) : w[k] = IF k <= lt THEN taken[k] ELSE q[k - lt]
      /\ \A k \in 1 .. lq + lx : q[k] = IF k <= lq THEN queue[k] ELSE x[k - lq]
  BY <1>2, <1>3, <1>4, <1>5
<1> HIDE DEF v, w, lt, lq, lx
<1>7. Len(v) \in Nat /\ Len(w) \in Nat /\ Len(w) = Len(v) + lx
  BY <1>6
<1>8. ASSUME NEW k \in 1 .. Len(v)
      PROVE k \in 1 .. Len(w) /\ w[k] = v[k]
  <2>1. k \in 1 .. lt + (lq + lx) /\ k \in 1 .. lt + lq
    BY <1>6
  <2>2. k <= lt \/ (~(k <= lt) /\ k - lt \in 1 .. lq + lx /\ k - lt <= lq)
    BY <1>6
  <2> QED
    BY <1>6, <2>1, <2>2
<1>9. ASSUME NEW k \in 1 .. lx
      PROVE w[Len(v) + k] = x[k]
  <2>1. Len(v) + k \in 1 .. lt + (lq + lx) /\ ~(Len(v) + k <= lt) /\ (Len(v) + k) - lt = lq + k
    BY <1>6
  <2>2. lq + k \in 1 .. lq + lx /\ ~(lq + k <= lq) /\ (lq + k) - lq = k
    BY <1>6
  <2> QED
    BY <1>6, <2>1, <2>2
<1> QED
  BY <1>6, <1>7, <1>8, <1>9 DEF v, w, lx

LEMMA PutMarks ==
  ASSUME LogTypes, MarkInv, NEW x \in Seq(Item), queue' = queue \o x, UNCHANGED <<taken, log, dropped>>
  PROVE /\ \A m \in Message : Comes(m, Way, log, dropped) => Comes(m, Way', log', dropped')
        /\ \A d \in Live : d.kind = "delete" /\ Marked(d, Way, log, dropped) => Marked(d, Way', log', dropped')
<1>1. Outgrows(log, log') /\ dropped \subseteq dropped'
  BY DEF LogTypes, Tables, Outgrows
<1> QED
  BY <1>1, WayGrows, MarkedOn

LEMMA PutMarkStep ==
  ASSUME LogTypes, MarkInv, NEW p \in Producer, NEW put \in Seq(Item), PutAll(p, put),
         UNCHANGED <<taken, log, dropped, heard, waited>>
  PROVE MarkInv'
<1>1. PICK n \in 0 .. Len(put) : queue' = queue \o SubSeq(put, 1, n)
  BY PutIs
<1>2. SubSeq(put, 1, n) \in Seq(Item)
  BY Parted
<1> DEFINE x == SubSeq(put, 1, n)
<1>3. x \in Seq(Item) /\ queue' = queue \o x
  BY <1>1, <1>2
<1> HIDE DEF x
<1> QED
  BY <1>3, PutMarks, MarkInvOn

\* A deletion is heard after its message, whose row is then stored or on its way.
LEMMA HearMarks ==
  ASSUME LogTypes, MarkInv, NEW e \in Live, Hear(e)
  PROVE MarkInv'
<1> DEFINE put == Ops(e, "eventsub")
<1>1. put \in Seq(Item) /\ Len(put) \in 1 .. 2 /\ e \in Event /\ e \in Producer
  <2>1. e \in Event
    BY ChatLogAssumption
  <2> QED
    BY <2>1, OpsAre DEF Producer
<1>2. /\ PutAll(e, put) /\ heard' = Append(heard, e) /\ UNCHANGED <<taken, log, dropped>>
      /\ waited' = IF Len(put) <= Room THEN waited ELSE waited \cup {e}
      /\ e.kind = "delete" => \E i \in DOMAIN heard : heard[i] = Line(e.msg)
  BY DEF Hear, Line
<1> HIDE DEF put
<1>3. PICK n \in 0 .. Len(put) : queue' = queue \o SubSeq(put, 1, n)
  BY <1>1, <1>2, PutIs
<1>4. /\ \A m \in Message : Comes(m, Way, log, dropped) => Comes(m, Way', log', dropped')
      /\ \A d \in Live : d.kind = "delete" /\ Marked(d, Way, log, dropped) => Marked(d, Way', log', dropped')
  <2> DEFINE x == SubSeq(put, 1, n)
  <2>1. x \in Seq(Item) /\ queue' = queue \o x
    BY <1>1, <1>3, Parted
  <2> HIDE DEF x
  <2> QED
    BY <1>2, <2>1, PutMarks
<1>5. ToSet(heard) \subseteq Live /\ ToSet(heard') = ToSet(heard) \cup {e}
  <2>1. heard \in Seq(Live)
    BY DEF LogTypes
  <2>2. /\ Append(heard, e) \in Seq(Live) /\ Len(Append(heard, e)) = Len(heard) + 1 /\ Append(heard, e)[Len(heard) + 1] = e
        /\ Len(heard) \in Nat /\ \A i \in 1 .. Len(heard) : Append(heard, e)[i] = heard[i]
    BY <2>1
  <2> QED
    BY <1>2, <2>1, <2>2 DEF ToSet
<1>6. waited \subseteq waited' /\ (e \notin waited' => Len(put) <= Room)
  BY <1>2
<1>7. ASSUME NEW d \in ToSet(heard') \ waited', d # e
      PROVE /\ d.kind = "message" => Comes(d.msg, Way', log', dropped')
            /\ d.kind = "delete" /\ Line(d.msg) \notin waited' => Marked(d, Way', log', dropped')
  <2>1. d \in ToSet(heard) \ waited /\ d \in Live
    BY <1>5, <1>6, <1>7
  <2>2. d.kind = "message" => Comes(d.msg, Way', log', dropped')
    BY <1>4, <2>1, KindsAre DEF MarkInv
  <2>3. d.kind = "delete" /\ Line(d.msg) \notin waited' => Marked(d, Way', log', dropped')
    BY <1>4, <1>6, <2>1 DEF MarkInv
  <2> QED
    BY <2>2, <2>3
<1>8. ASSUME e \notin waited'
      PROVE /\ Len(Way) \in Nat /\ Len(Way') = Len(Way) + Len(put)
            /\ \A k \in 1 .. Len(Way) : Way'[k] = Way[k]
            /\ \A k \in 1 .. Len(put) : Way'[Len(Way) + k] = put[k]
  <2>1. queue' = queue \o put
    BY <1>1, <1>2, <1>6, <1>8, PutIs
  <2> QED
    BY <1>1, <1>2, <2>1, WayGrows
<1>9. ASSUME e \notin waited', e.kind = "message"
      PROVE Comes(e.msg, Way', log', dropped')
  <2>1. put = <<RowOf(e.msg)>>
    BY <1>9 DEF put, Ops, RowOf
  <2>2. Len(put) = 1 /\ put[1] = RowOf(e.msg)
    BY <2>1
  <2>3. Len(Way) + 1 \in 1 .. Len(Way') /\ Way'[Len(Way) + 1] = RowOf(e.msg)
    BY <1>8, <1>9, <2>2
  <2> QED
    BY <2>3 DEF Comes
<1>10. ASSUME e \notin waited', e.kind = "delete", Line(e.msg) \notin waited'
       PROVE Marked(e, Way', log', dropped')
  <2>1. put = <<[op |-> "mod_event", event |-> e], MarkOf(e)>>
    BY <1>10 DEF put, Ops, MarkOf
  <2>2. Len(put) = 2 /\ put[2] = MarkOf(e)
    BY <2>1
  <2>3. Len(Way) + 2 \in 1 .. Len(Way') /\ Way'[Len(Way) + 2] = MarkOf(e)
    BY <1>8, <1>10, <2>2
  <2>4. Line(e.msg) \in ToSet(heard) \ waited
    BY <1>2, <1>6, <1>10 DEF ToSet
  <2>5. Line(e.msg).kind = "message" /\ Line(e.msg).msg = e.msg
    BY DEF Line
  <2>6. Comes(e.msg, Way, log, dropped)
    BY <2>4, <2>5 DEF MarkInv
  <2> DEFINE j == Len(Way) + 2
             m == e.msg
  <2>7. Len(Way) \in Nat /\ \A k \in 1 .. Len(Way) : k \in 1 .. j - 1 /\ Way'[k] = Way[k]
    BY <1>8, <1>10
  <2>8. RowOf(m) \in dropped' \/ log'.messages[m] # NoRow \/ \E i \in 1 .. j - 1 : Way'[i] = RowOf(m)
    BY <1>2, <2>6, <2>7 DEF Comes
  <2>9. j \in 1 .. Len(Way') /\ Way'[j] = MarkOf(e)
    BY <2>3
  <2> HIDE DEF j
  <2> QED
    BY <2>8, <2>9 DEF Marked
<1> QED
  BY <1>5, <1>7, <1>9, <1>10 DEF MarkInv

\* The writer takes the next: the way is the same.
LEMMA TakeMarks ==
  ASSUME LogTypes, MarkInv, Take
  PROVE MarkInv'
<1> DEFINE h == Head(queue)
           t == Tail(queue)
           a == Append(taken, h)
           lt == Len(taken)
           lq == Len(queue)
<1>1. /\ queue \in Seq(Item) /\ taken \in Seq(Item) /\ queue # <<>> /\ taken' = a /\ queue' = t
      /\ UNCHANGED <<heard, waited, log, dropped>>
  BY DEF LogTypes, Take
<1>2. /\ lq \in Nat \ {0} /\ h = queue[1] /\ h \in Item /\ t \in Seq(Item) /\ Len(t) = lq - 1
      /\ \A k \in 1 .. lq - 1 : t[k] = queue[k + 1]
  <2> DEFINE q == queue
  <2>1. q \in Seq(Item) /\ q # <<>>
    BY <1>1
  <2> HIDE DEF q
  <2>2. Len(q) \in Nat \ {0} /\ Head(q) = q[1] /\ Head(q) \in Item
    BY <2>1, EmptySeq
  <2>3. Tail(q) \in Seq(Item) /\ Len(Tail(q)) = Len(q) - 1 /\ \A k \in 1 .. Len(q) - 1 : Tail(q)[k] = q[k + 1]
    BY <2>1, <2>2
  <2> QED
    BY <2>2, <2>3 DEF q
<1> HIDE DEF h, t
<1>3. /\ a \in Seq(Item) /\ Len(a) = lt + 1 /\ lt \in Nat /\ a[lt + 1] = h /\ \A k \in 1 .. lt : a[k] = taken[k]
  BY <1>1, <1>2
<1> HIDE DEF a
<1>4. /\ Len(Way) = lt + lq
      /\ \A k \in 1 .. lt + lq : Way[k] = IF k <= lt THEN taken[k] ELSE queue[k - lt]
  BY <1>1, WayIs DEF Way
<1>5. /\ Len(Way') = (lt + 1) + (lq - 1)
      /\ \A k \in 1 .. (lt + 1) + (lq - 1) : Way'[k] = IF k <= lt + 1 THEN a[k] ELSE t[k - (lt + 1)]
  <2>1. Way' = a \o t
    BY <1>1 DEF Way
  <2>2. Len(a \o t) = Len(a) + Len(t) /\ \A k \in 1 .. Len(a) + Len(t) : (a \o t)[k] = IF k <= Len(a) THEN a[k] ELSE t[k - Len(a)]
    BY <1>2, <1>3, WayIs
  <2>3. Len(a) = lt + 1 /\ Len(t) = lq - 1
    BY <1>2, <1>3
  <2> HIDE DEF lt, lq
  <2> QED
    BY <2>1, <2>2, <2>3
<1> HIDE DEF lt, lq
<1>6. Len(Way) \in Nat /\ Len(Way') = Len(Way)
  BY <1>2, <1>3, <1>4, <1>5
<1>7. ASSUME NEW k \in 1 .. Len(Way)
      PROVE k \in 1 .. Len(Way') /\ Way'[k] = Way[k]
  <2>1. k \in 1 .. lt + lq /\ k \in 1 .. (lt + 1) + (lq - 1) /\ k \in Nat
    BY <1>2, <1>3, <1>4, <1>7
  <2>2. CASE k <= lt
    <3>1. Way[k] = taken[k] /\ Way'[k] = a[k] /\ k \in 1 .. lt
      BY <1>3, <1>4, <1>5, <2>1, <2>2
    <3> QED
      BY <1>3, <1>6, <1>7, <3>1
  <2>3. CASE k = lt + 1
    <3>1. Way[k] = queue[1] /\ Way'[k] = a[k]
      BY <1>3, <1>4, <1>5, <2>1, <2>3
    <3> QED
      BY <1>2, <1>3, <1>6, <1>7, <2>3, <3>1
  <2>4. CASE k > lt + 1
    <3>1. Way[k] = queue[k - lt] /\ Way'[k] = t[k - (lt + 1)]
      BY <1>3, <1>4, <1>5, <2>1, <2>4
    <3>2. k - (lt + 1) \in 1 .. lq - 1 /\ (k - (lt + 1)) + 1 = k - lt
      BY <1>2, <1>3, <2>1, <2>4
    <3> QED
      BY <1>2, <1>6, <1>7, <3>1, <3>2
  <2> QED
    BY <1>3, <2>1, <2>2, <2>3, <2>4
<1>8. Outgrows(log, log') /\ dropped \subseteq dropped'
  BY <1>1 DEF LogTypes, Tables, Outgrows
<1>9. /\ \A m \in Message : Comes(m, Way, log, dropped) => Comes(m, Way', log', dropped')
      /\ \A d \in Live : d.kind = "delete" /\ Marked(d, Way, log, dropped) => Marked(d, Way', log', dropped')
  BY <1>6, <1>7, <1>8, MarkedOn
<1> QED
  BY <1>1, <1>9, MarkInvOn

\* The sentinel is left out: the rest keeps its order.
LEMMA MarkedBut ==
  ASSUME NEW v, NEW w, NEW f, Len(v) \in Nat, Len(w) \in Nat,
         \A k \in 1 .. Len(v) : v[k] # Stop => f[k] \in 1 .. Len(w) /\ w[f[k]] = v[k],
         \A i, k \in 1 .. Len(v) : i < k /\ v[i] # Stop /\ v[k] # Stop => f[i] < f[k],
         NEW a, NEW r
  PROVE /\ \A m \in Message : Comes(m, v, a, r) => Comes(m, w, a, r)
        /\ \A d \in Live : d.kind = "delete" /\ Marked(d, v, a, r) => Marked(d, w, a, r)
<1>1. \A m : RowOf(m) # Stop
  BY DEF RowOf, Stop
<1>2. \A d : MarkOf(d) # Stop
  BY DEF MarkOf, Stop
<1>3. \A m \in Message : Comes(m, v, a, r) => Comes(m, w, a, r)
  BY <1>1 DEF Comes
<1>4. ASSUME NEW d \in Live, NEW j \in 1 .. Len(v), v[j] = MarkOf(d),
             a.messages[d.msg] # NoRow \/ \E i \in 1 .. j - 1 : v[i] = RowOf(d.msg)
      PROVE Marked(d, w, a, r)
  <2>1. f[j] \in 1 .. Len(w) /\ w[f[j]] = MarkOf(d)
    BY <1>2, <1>4
  <2>2. ASSUME NEW i \in 1 .. j - 1, v[i] = RowOf(d.msg)
        PROVE f[i] \in 1 .. f[j] - 1 /\ w[f[i]] = RowOf(d.msg)
    <3>1. i \in 1 .. Len(v) /\ i < j
      OBVIOUS
    <3>2. f[i] \in 1 .. Len(w) /\ w[f[i]] = RowOf(d.msg) /\ f[i] < f[j]
      BY <1>1, <1>2, <1>4, <2>2, <3>1
    <3> QED
      BY <2>1, <3>2
  <2> QED
    BY <1>4, <2>1, <2>2 DEF Marked
<1> QED
  BY <1>3, <1>4 DEF Marked

LEMMA TakeStopMarks ==
  ASSUME LogTypes, MarkInv, TakeStop
  PROVE MarkInv'
<1> DEFINE t == Tail(queue)
           lt == Len(taken)
           lq == Len(queue)
           f == [k \in 1 .. lt + lq |-> IF k <= lt THEN k ELSE k - 1]
<1>1. /\ queue \in Seq(Item) /\ taken \in Seq(Item) /\ queue # <<>> /\ Head(queue) = Stop
      /\ taken' = taken \o t /\ queue' = <<>> /\ UNCHANGED <<heard, waited, log, dropped>>
  BY DEF LogTypes, TakeStop
<1>2. /\ lq \in Nat \ {0} /\ queue[1] = Stop /\ t \in Seq(Item) /\ Len(t) = lq - 1
      /\ \A k \in 1 .. lq - 1 : t[k] = queue[k + 1]
  <2> DEFINE q == queue
  <2>1. q \in Seq(Item) /\ q # <<>> /\ Head(q) = Stop
    BY <1>1
  <2> HIDE DEF q
  <2>2. Len(q) \in Nat \ {0} /\ q[1] = Stop
    BY <2>1, EmptySeq
  <2>3. Tail(q) \in Seq(Item) /\ Len(Tail(q)) = Len(q) - 1 /\ \A k \in 1 .. Len(q) - 1 : Tail(q)[k] = q[k + 1]
    BY <2>1, <2>2
  <2> QED
    BY <2>2, <2>3 DEF q
<1> HIDE DEF t
<1>3. /\ Len(Way) = lt + lq /\ lt \in Nat
      /\ \A k \in 1 .. lt + lq : Way[k] = IF k <= lt THEN taken[k] ELSE queue[k - lt]
  BY <1>1, WayIs DEF Way
<1>4. /\ Len(Way') = lt + (lq - 1)
      /\ \A k \in 1 .. lt + (lq - 1) : Way'[k] = IF k <= lt THEN taken[k] ELSE t[k - lt]
  <2>1. taken \o t \in Seq(Item) /\ Len(taken \o t) = lt + (lq - 1)
        /\ \A k \in 1 .. lt + (lq - 1) : (taken \o t)[k] = IF k <= lt THEN taken[k] ELSE t[k - lt]
    BY <1>1, <1>2, WayIs
  <2> DEFINE s == taken \o t
  <2>2. Way' = s \o <<>> /\ s \in Seq(Item)
    BY <1>1, <2>1 DEF Way
  <2> HIDE DEF s
  <2>3. s \o <<>> = s
    BY <2>2, ConcatEmptySeq
  <2> QED
    BY <2>1, <2>2, <2>3 DEF s
<1>5. \A k \in 1 .. lt + lq : f[k] = IF k <= lt THEN k ELSE k - 1
  OBVIOUS
<1> HIDE DEF lt, lq, f
<1>6. Len(Way) \in Nat /\ Len(Way') \in Nat
  BY <1>2, <1>3, <1>4
<1>7. ASSUME NEW k \in 1 .. Len(Way), Way[k] # Stop
      PROVE f[k] \in 1 .. Len(Way') /\ Way'[f[k]] = Way[k] /\ k # lt + 1
  <2>1. k \in 1 .. lt + lq
    BY <1>3
  <2>2. CASE k <= lt
    <3>1. f[k] = k /\ k \in 1 .. lt + (lq - 1)
      BY <1>2, <1>3, <1>5, <2>1, <2>2
    <3> QED
      BY <1>3, <1>4, <2>1, <2>2, <3>1
  <2>3. CASE ~(k <= lt)
    <3>1. Way[k] = queue[k - lt] /\ f[k] = k - 1
      BY <1>3, <1>5, <2>1, <2>3
    <3>2. k - lt # 1
      BY <1>2, <1>7, <3>1
    <3>3. k - 1 \in 1 .. lt + (lq - 1) /\ ~(k - 1 <= lt) /\ (k - 1) - lt \in 1 .. lq - 1 /\ ((k - 1) - lt) + 1 = k - lt /\ k # lt + 1
      BY <1>2, <1>3, <2>1, <2>3, <3>2
    <3>4. Way'[k - 1] = t[(k - 1) - lt] /\ t[(k - 1) - lt] = queue[k - lt]
      BY <1>2, <1>4, <3>3
    <3> QED
      BY <1>4, <3>1, <3>3, <3>4
  <2> QED
    BY <2>2, <2>3
<1>8. ASSUME NEW i \in 1 .. Len(Way), NEW k \in 1 .. Len(Way), i < k, Way[i] # Stop, Way[k] # Stop
      PROVE f[i] < f[k]
  <2>1. i # lt + 1 /\ k # lt + 1 /\ i \in 1 .. lt + lq /\ k \in 1 .. lt + lq
    BY <1>3, <1>7, <1>8
  <2>2. f[i] = (IF i <= lt THEN i ELSE i - 1) /\ f[k] = (IF k <= lt THEN k ELSE k - 1)
    BY <1>5, <2>1
  <2> QED
    BY <1>2, <1>3, <1>8, <2>1, <2>2
<1>9. /\ \A m \in Message : Comes(m, Way, log, dropped) => Comes(m, Way', log, dropped)
      /\ \A d \in Live : d.kind = "delete" /\ Marked(d, Way, log, dropped) => Marked(d, Way', log, dropped)
  BY <1>6, <1>7, <1>8, MarkedBut
<1> QED
  BY <1>1, <1>9, MarkInvOn

\* A batch is stored: the deletions in it find the rows before it and in it.
LEMMA FlushMarks ==
  ASSUME LogTypes, MarkInv, Flush
  PROVE MarkInv'
<1> DEFINE n == Len(taken)
           b == Executed(log, taken)[n]
<1>1. /\ queue \in Seq(Item) /\ taken \in Seq(Item) /\ log \in Tables /\ taken' = <<>> /\ queue' = queue /\ log' = b
      /\ UNCHANGED <<heard, waited, dropped>>
  BY DEF LogTypes, Flush
<1>2. /\ b \in Tables /\ Outgrows(log, b)
      /\ \A i \in 1 .. n : Done(taken[i], b)
      /\ \A m \in Message : \A j \in 1 .. n :
           Deletes(taken[j], m) /\ (log.messages[m] # NoRow \/ \E i \in 1 .. j - 1 : Says(taken[i], m)) => Deleted(m, b)
  BY <1>1, BatchDone
<1> HIDE DEF b
<1>3. /\ Way \in Seq(Item) /\ Len(Way) = n + Len(queue) /\ n \in Nat /\ Len(queue) \in Nat
      /\ \A k \in 1 .. n + Len(queue) : Way[k] = IF k <= n THEN taken[k] ELSE queue[k - n]
  BY <1>1, WayIs DEF Way
<1>4. Way' = queue
  <2> DEFINE q == queue
  <2>1. q \in Seq(Item) /\ Way' = <<>> \o q
    BY <1>1 DEF Way
  <2> HIDE DEF q
  <2>2. <<>> \o q = q
    BY <2>1, ConcatEmptySeq
  <2> QED
    BY <2>1, <2>2 DEF q
<1> HIDE DEF n
<1>5. n \in 0 .. Len(Way) /\ Len(Way') = Len(Way) - n
  BY <1>3, <1>4
<1>6. ASSUME NEW k \in 1 .. Len(Way')
      PROVE Way'[k] = Way[k + n]
  <2>1. k + n \in 1 .. n + Len(queue) /\ ~(k + n <= n) /\ (k + n) - n = k
    BY <1>3, <1>4, <1>6
  <2> QED
    BY <1>3, <1>4, <2>1
<1>7. \A i \in 1 .. n : Way[i] = taken[i]
  BY <1>3
<1>8. ASSUME NEW m \in Message, NEW i \in 1 .. n, Way[i] = RowOf(m)
      PROVE log'.messages[m] # NoRow
  <2>1. Done(RowOf(m), log')
    BY <1>1, <1>2, <1>7, <1>8
  <2>2. RowOf(m).op = "message" /\ RowOf(m).msg = m
    BY DEF RowOf
  <2> QED
    BY <2>1, <2>2 DEF Done
<1>9. ASSUME NEW d \in Live, NEW j \in 1 .. n, d.kind = "delete", Way[j] = MarkOf(d),
             log.messages[d.msg] # NoRow \/ \E i \in 1 .. j - 1 : Way[i] = RowOf(d.msg)
      PROVE Deleted(d.msg, log')
  <2>1. d.msg \in Message
    BY <1>9, KindsAre
  <2>2. Deletes(taken[j], d.msg)
    <3>1. MarkOf(d).op = "flag" /\ MarkOf(d).event = d
      BY DEF MarkOf
    <3> QED
      BY <1>7, <1>9, <3>1 DEF Deletes
  <2>3. log.messages[d.msg] # NoRow \/ \E i \in 1 .. j - 1 : Says(taken[i], d.msg)
    <3>1. ASSUME NEW i \in 1 .. j - 1, Way[i] = RowOf(d.msg)
          PROVE Says(taken[i], d.msg)
      <4>1. i \in 1 .. n
        BY <1>3
      <4>2. RowOf(d.msg).op = "message" /\ RowOf(d.msg).msg = d.msg
        BY DEF RowOf
      <4> QED
        BY <1>7, <3>1, <4>1, <4>2 DEF Says
    <3> QED
      BY <1>9, <3>1
  <2> QED
    BY <1>1, <1>2, <2>1, <2>2, <2>3
<1>10. /\ \A m \in Message : Comes(m, Way, log, dropped) => Comes(m, Way', log', dropped')
       /\ \A d \in Live : d.kind = "delete" /\ Marked(d, Way, log, dropped) => Marked(d, Way', log', dropped')
  <2> DEFINE v == Way
             w == Way'
  <2>1. /\ v \in Seq(Item) /\ n \in 0 .. Len(v) /\ Len(w) = Len(v) - n /\ \A k \in 1 .. Len(w) : w[k] = v[k + n]
        /\ Outgrows(log, log') /\ dropped \subseteq dropped'
    BY <1>1, <1>2, <1>3, <1>5, <1>6
  <2>2. \A m \in Message : \A i \in 1 .. n : v[i] = RowOf(m) => RowOf(m) \in dropped' \/ log'.messages[m] # NoRow
    BY <1>8
  <2>3. \A d \in Live : \A j \in 1 .. n :
          /\ d.kind = "delete" /\ v[j] = MarkOf(d)
          /\ log.messages[d.msg] # NoRow \/ \E i \in 1 .. j - 1 : v[i] = RowOf(d.msg)
          => RowOf(d.msg) \in dropped' \/ Deleted(d.msg, log')
    BY <1>9
  <2> HIDE DEF v, w
  <2>4. /\ \A m \in Message : Comes(m, v, log, dropped) => Comes(m, w, log', dropped')
        /\ \A d \in Live : d.kind = "delete" /\ Marked(d, v, log, dropped) => Marked(d, w, log', dropped')
    BY <2>1, <2>2, <2>3, MarkedPast
  <2> QED
    BY <2>4 DEF v, w
<1> QED
  BY <1>1, <1>10, MarkInvOn

\* One operation is tried again: it is done or refused.
LEMMA WriteOneMarks ==
  ASSUME LogTypes, MarkInv, WriteOne
  PROVE MarkInv'
<1> DEFINE o == Head(taken)
           t == Tail(taken)
           lt == Len(taken)
<1>1. /\ queue \in Seq(Item) /\ taken \in Seq(Item) /\ taken # <<>> /\ log \in Tables /\ taken' = t /\ queue' = queue
      /\ UNCHANGED <<heard, waited>>
  BY DEF LogTypes, WriteOne
<1>2. /\ lt \in Nat \ {0} /\ o = taken[1] /\ o \in Item /\ t \in Seq(Item) /\ Len(t) = lt - 1
      /\ \A k \in 1 .. lt - 1 : t[k] = taken[k + 1]
  <2> DEFINE q == taken
  <2>1. q \in Seq(Item) /\ q # <<>>
    BY <1>1
  <2> HIDE DEF q
  <2>2. Len(q) \in Nat \ {0} /\ Head(q) = q[1] /\ Head(q) \in Item
    BY <2>1, EmptySeq
  <2>3. Tail(q) \in Seq(Item) /\ Len(Tail(q)) = Len(q) - 1 /\ \A k \in 1 .. Len(q) - 1 : Tail(q)[k] = q[k + 1]
    BY <2>1, <2>2
  <2> QED
    BY <2>2, <2>3 DEF q
<1>3. \/ Refusable(o) /\ dropped' = dropped \cup {o} /\ log' = log
      \/ ~Refusable(o) /\ dropped' = dropped /\ log' = Execute(log, o)
  BY DEF WriteOne
<1> HIDE DEF o, t
<1>4. /\ Way \in Seq(Item) /\ Len(Way) = lt + Len(queue) /\ Len(queue) \in Nat
      /\ \A k \in 1 .. lt + Len(queue) : Way[k] = IF k <= lt THEN taken[k] ELSE queue[k - lt]
  BY <1>1, WayIs DEF Way
<1>5. /\ Len(Way') = (lt - 1) + Len(queue)
      /\ \A k \in 1 .. (lt - 1) + Len(queue) : Way'[k] = IF k <= lt - 1 THEN t[k] ELSE queue[k - (lt - 1)]
  <2>1. Way' = t \o queue
    BY <1>1 DEF Way
  <2> QED
    BY <1>1, <1>2, <2>1, WayIs
<1> HIDE DEF lt
<1>6. 1 \in 0 .. Len(Way) /\ Len(Way') = Len(Way) - 1 /\ Way[1] = o
  BY <1>2, <1>4, <1>5
<1>7. ASSUME NEW k \in 1 .. Len(Way')
      PROVE Way'[k] = Way[k + 1]
  <2>1. k \in 1 .. (lt - 1) + Len(queue) /\ k + 1 \in 1 .. lt + Len(queue)
    BY <1>2, <1>4, <1>5, <1>7
  <2>2. CASE k <= lt - 1
    <3>1. k + 1 <= lt /\ k \in 1 .. lt - 1
      BY <1>2, <2>1, <2>2
    <3> QED
      BY <1>2, <1>4, <1>5, <2>1, <2>2, <3>1
  <2>3. CASE ~(k <= lt - 1)
    <3>1. ~(k + 1 <= lt) /\ (k + 1) - lt = k - (lt - 1)
      BY <1>2, <2>1, <2>3
    <3> QED
      BY <1>4, <1>5, <2>1, <2>3, <3>1
  <2> QED
    BY <2>2, <2>3
<1>8. /\ Outgrows(log, Execute(log, o)) /\ Done(o, Execute(log, o))
      /\ \A m \in Message : o.op = "flag" /\ o.event.kind = "delete" /\ o.event.msg = m /\ log.messages[m] # NoRow
                              => Deleted(m, Execute(log, o))
  BY <1>1, <1>2, ExecuteIs
<1>9. Outgrows(log, log') /\ dropped \subseteq dropped'
  BY <1>1, <1>3, <1>8 DEF Tables, Outgrows
<1>10. ASSUME NEW m \in Message, o = RowOf(m)
       PROVE RowOf(m) \in dropped' \/ log'.messages[m] # NoRow
  <2>1. RowOf(m).op = "message" /\ RowOf(m).msg = m
    BY DEF RowOf
  <2> QED
    BY <1>3, <1>8, <1>10, <2>1 DEF Done
<1>11. ASSUME NEW d \in Live, d.kind = "delete", o = MarkOf(d), log.messages[d.msg] # NoRow
       PROVE Deleted(d.msg, log')
  <2>1. d.msg \in Message
    BY <1>11, KindsAre
  <2>2. MarkOf(d).op = "flag" /\ MarkOf(d).event = d
    BY DEF MarkOf
  <2>3. ~Refusable(o)
    BY <1>11, <2>2 DEF Refusable
  <2> QED
    BY <1>3, <1>8, <1>11, <2>1, <2>2, <2>3
<1>12. /\ \A m \in Message : Comes(m, Way, log, dropped) => Comes(m, Way', log', dropped')
       /\ \A d \in Live : d.kind = "delete" /\ Marked(d, Way, log, dropped) => Marked(d, Way', log', dropped')
  <2> DEFINE v == Way
             w == Way'
             n == 1
  <2>1. /\ v \in Seq(Item) /\ n \in 0 .. Len(v) /\ Len(w) = Len(v) - n /\ \A k \in 1 .. Len(w) : w[k] = v[k + n]
    BY <1>4, <1>6, <1>7
  <2>2. \A m \in Message : \A i \in 1 .. n : v[i] = RowOf(m) => RowOf(m) \in dropped' \/ log'.messages[m] # NoRow
    BY <1>6, <1>10
  <2>3. \A d \in Live : \A j \in 1 .. n :
          /\ d.kind = "delete" /\ v[j] = MarkOf(d)
          /\ log.messages[d.msg] # NoRow \/ \E i \in 1 .. j - 1 : v[i] = RowOf(d.msg)
          => RowOf(d.msg) \in dropped' \/ Deleted(d.msg, log')
    BY <1>6, <1>11
  <2> HIDE DEF v, w, n
  <2>4. /\ \A m \in Message : Comes(m, v, log, dropped) => Comes(m, w, log', dropped')
        /\ \A d \in Live : d.kind = "delete" /\ Marked(d, v, log, dropped) => Marked(d, w, log', dropped')
    BY <1>9, <2>1, <2>2, <2>3, MarkedPast
  <2> QED
    BY <2>4 DEF v, w
<1> QED
  BY <1>1, <1>12, MarkInvOn

LEMMA MarksStand ==
  ASSUME MarkInv, UNCHANGED <<queue, taken, log, dropped, heard, waited>>
  PROVE MarkInv'
  BY DEF MarkInv, Way

LEMMA WriterMarks ==
  ASSUME LogTypes, MarkInv, WriterStep
  PROVE MarkInv'
<1>1. CASE FlushFails
  BY <1>1, MarksStand DEF FlushFails
<1> QED
  BY <1>1, TakeMarks, TakeStopMarks, FlushMarks, WriteOneMarks DEF WriterStep

\* The steps of the job put a line's operations, or nothing.
LEMMA StoreMarks ==
  ASSUME BackfillInv, MarkInv, Store
  PROVE MarkInv'
<1> DEFINE put == Ops(Head(job.page), "ivr-logs")
<1>1. LogTypes /\ job.page \in Seq(Event) /\ job.page # <<>>
  BY AtAGap DEF Store, BackfillInv, JobTypes
<1>2. put \in Seq(Item)
  <2> DEFINE q == job.page
  <2>1. q \in Seq(Event) /\ q # <<>>
    BY <1>1
  <2> HIDE DEF q
  <2>2. Head(q) \in Event
    BY <2>1, EmptySeq
  <2>3. Head(job.page) \in Event
    BY <2>2 DEF q
  <2> QED
    BY <2>3, OpsAre
<1> HIDE DEF put
<1>3. Fill \in Producer /\ PutAll(Fill, put) /\ UNCHANGED <<taken, log, dropped, heard, waited>>
  BY DEF Store, Producer, put
<1> QED
  BY <1>1, <1>2, <1>3, PutMarkStep

LEMMA JobMarks ==
  ASSUME BackfillInv, MarkInv, JobStep
  PROVE MarkInv'
<1>1. CASE Store
  BY <1>1, StoreMarks
<1>2. CASE Begin \/ Ask \/ Fetch \/ PageDone \/ Record \/ Pause
  BY <1>2, MarksStand DEF Begin, Ask, Fetch, PageDone, Record, Pause, logVars
<1> QED
  BY <1>1, <1>2 DEF JobStep

LEMMA MarkStep ==
  ASSUME BackfillInv, MarkInv, [BackfillNext]_backfillVars
  PROVE MarkInv'
<1>1. LogTypes
  BY DEF BackfillInv
<1>2. CASE QueueGaps \/ Cancel \/ StartJob \/ NewDay \/ Stop_ \/ UNCHANGED backfillVars
  BY <1>2, MarksStand DEF QueueGaps, Cancel, StartJob, NewDay, Stop_, backfillVars, logVars
<1>3. CASE JobStep
  BY <1>3, JobMarks
<1>4. CASE WriterAlone
  BY <1>1, <1>4, WriterMarks DEF WriterAlone
<1>5. ASSUME NEW p \in Producer, PutAlone(p)
      PROVE MarkInv'
  <2>1. putting[p] \in Seq(Item)
    BY <1>1 DEF LogTypes
  <2>2. PutAll(p, putting[p]) /\ UNCHANGED <<taken, log, dropped, heard, waited>>
    BY <1>5 DEF PutAlone, PutMore
  <2> QED
    BY <1>1, <2>1, <2>2, PutMarkStep
<1>6. ASSUME NEW e \in Live, HearEvent(e)
      PROVE MarkInv'
  BY <1>1, <1>6, HearMarks DEF HearEvent
<1>7. CASE StopWriter
  <2> DEFINE x == <<Stop>>
  <2>1. queue \in Seq(Item) /\ Stop \in Item
    BY <1>1 DEF LogTypes, Item
  <2>2. x \in Seq(Item) /\ queue' = queue \o x
    <3>1. Append(queue, Stop) = queue \o <<Stop>>
      BY <2>1, AppendIsConcat
    <3> QED
      BY <1>7, <2>1, <3>1 DEF StopWriter
  <2>3. UNCHANGED <<taken, log, dropped, heard, waited>>
    BY <1>7 DEF StopWriter
  <2> HIDE DEF x
  <2> QED
    BY <1>1, <2>2, <2>3, PutMarks, MarkInvOn
<1>8. CASE Exit \/ Killed
  <2>1. heard' = <<>>
    BY <1>8 DEF Exit, Killed, Gone
  <2>2. ToSet(heard') = {}
    BY <2>1 DEF ToSet
  <2> QED
    BY <2>2 DEF MarkInv
<1>9. CASE Boot
  BY <1>9, MarksStand DEF Boot
<1> QED
  BY <1>2, <1>3, <1>4, <1>5, <1>6, <1>7, <1>8, <1>9 DEF BackfillNext

\* A live deletion finds its message: once the operations of both have left the queue, and none was refused, the
\* message's row is there and says that it was deleted, unless a handler had to wait for room (writer.py).
THEOREM ModerationSafety == BackfillSpec => []ModerationApplied
<1>1. BackfillInit => BackfillInv /\ MarkInv
  <2>1. BackfillInit => ToSet(heard) = {}
    BY DEF BackfillInit, LogInit, ToSet
  <2> QED
    BY <2>1, BackfillStarts DEF MarkInv
<1>2. LogTypes /\ MarkInv => ModerationApplied
  <2> SUFFICES ASSUME LogTypes, MarkInv, NEW d \in Live, NEW m \in Message, d.kind = "delete", d.msg = m,
                      {d, Line(m)} \subseteq ToSet(heard), {d, Line(m)} \cap waited = {},
                      (ToSet(Ops(Line(m), "eventsub")) \cup ToSet(Ops(d, "eventsub"))) \cap (Underway \cup dropped) = {}
               PROVE Deleted(m, log)
    BY DEF ModerationApplied, Line, Deleted
  <2>1. Marked(d, Way, log, dropped)
    BY DEF MarkInv
  <2>2. RowOf(m) \notin dropped
    <3>1. Ops(Line(m), "eventsub") = <<RowOf(m)>>
      BY DEF Ops, Line, RowOf
    <3>2. RowOf(m) \in ToSet(<<RowOf(m)>>)
      BY DEF ToSet
    <3> QED
      BY <3>1, <3>2
  <2>3. MarkOf(d) \notin Underway
    <3> DEFINE o == [op |-> "mod_event", event |-> d]
               k == MarkOf(d)
    <3>1. Ops(d, "eventsub") = <<o, k>>
      BY DEF Ops, MarkOf
    <3> HIDE DEF o, k
    <3>2. k \in ToSet(<<o, k>>)
      BY DEF ToSet
    <3> QED
      BY <3>1, <3>2 DEF k
  <2>4. ASSUME NEW j \in 1 .. Len(Way), Way[j] = MarkOf(d)
        PROVE FALSE
    <3>1. queue \in Seq(Item) /\ taken \in Seq(Item)
      BY DEF LogTypes
    <3>2. /\ Len(Way) = Len(taken) + Len(queue) /\ Len(taken) \in Nat /\ Len(queue) \in Nat
          /\ \A i \in 1 .. Len(taken) + Len(queue) : Way[i] = IF i <= Len(taken) THEN taken[i] ELSE queue[i - Len(taken)]
      BY <3>1, WayIs DEF Way
    <3>3. MarkOf(d) \in ToSet(taken) \/ MarkOf(d) \in ToSet(queue)
      <4>1. j \in 1 .. Len(taken) \/ (~(j <= Len(taken)) /\ j - Len(taken) \in 1 .. Len(queue))
        BY <3>2
      <4> QED
        BY <2>4, <3>1, <3>2, <4>1 DEF ToSet
    <3> QED
      BY <2>3, <3>3 DEF Underway
  <2> QED
    BY <2>1, <2>2, <2>4 DEF Marked
<1>3. BackfillSpec => [](BackfillInv /\ MarkInv)
  <2>1. BackfillInv /\ MarkInv /\ [BackfillNext]_backfillVars => (BackfillInv /\ MarkInv)'
    BY BackfillStep, MarkStep
  <2> QED
    BY <1>1, <2>1, PTL DEF BackfillSpec
<1> QED
  BY <1>2, <1>3, PTL DEF BackfillInv
=============================================================================
