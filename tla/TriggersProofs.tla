--------------------------- MODULE TriggersProofs ---------------------------
(***************************************************************************)
(* The cooldowns of triggers, proved for every set of triggers, channels,  *)
(* tasks and slots.  What makes it work is that a bucket's wait and the    *)
(* time since its last run add up to its cooldown: a bucket that holds     *)
(* nobody back has let its cooldown pass.  That a run begins at all only   *)
(* in TriggerRunner.run, after the buckets were looked at and with no      *)
(* await between the two, is the other half.                               *)
(*                                                                         *)
(* Then the watchers of chat lines: one event of a channel is told at a    *)
(* time, and what is told is what the channel's lines built, in the order  *)
(* of the lines, with nothing missed.                                      *)
(*                                                                         *)
(* Last the clock: the runs that may still come before a cron's, and what  *)
(* the scheduler has yet to sleep, always fit in what is left of its       *)
(* minute.                                                                 *)
(***************************************************************************)
EXTENDS Triggers, SequenceTheorems, FiniteSetTheorems, WellFoundedInduction, TLAPS

\* The wait left in a bucket and its age make up its cooldown.
BucketsInv ==
  /\ held \in [Keys -> Nat] /\ since \in [Keys -> Nat]
  /\ \A k \in Keys : held[k] + since[k] >= Holds(k)

\* A record of the fields a task has.
Shaped(r) ==
  r = [kind |-> r.kind, at |-> r.at, ch |-> r.ch, type |-> r.type, ev |-> r.ev, size |-> r.size,
       found |-> r.found, todo |-> r.todo]

AreTasks(f) == f = [t \in Task |-> f[t]] /\ \A t \in Task : Shaped(f[t])

\* Nobody begins to run from f to g.
Calm(f, g) == \A t \in Task : f[t].at # "running" => g[t].at # "running"

-----------------------------------------------------------------------------
(* The buckets.                                                            *)

\* Every cooldown, with the floor of the bot's own event, is a natural number.
LEMMA HoldsNat == \A k \in Keys : Holds(k) \in Nat
<1> SUFFICES ASSUME NEW k \in Keys PROVE Holds(k) \in Nat
  OBVIOUS
<1>1. k[1] \in Index
  BY DEF Keys
<1>2. Reaction[k[1]].hold \in Nat /\ Reaction[k[1]].holdUser \in Nat /\ LeastHold \in Nat
  BY <1>1, TriggerRunsAssumption DEF Index
<1> QED
  BY <1>2 DEF Holds, HoldOf

LEMMA BucketsInit == EventsInit => BucketsInv
<1> SUFFICES ASSUME EventsInit PROVE BucketsInv
  OBVIOUS
<1>1. held = [k \in Keys |-> 0] /\ since = [k \in Keys |-> Holds(k)]
  BY DEF EventsInit
<1> QED
  BY <1>1, HoldsNat DEF BucketsInv

\* A run takes all of its buckets anew.
LEMMA BucketsTaken ==
  ASSUME BucketsInv, NEW S,
         held' = [k \in Keys |-> IF k \in S THEN Holds(k) ELSE held[k]],
         since' = [k \in Keys |-> IF k \in S THEN 0 ELSE since[k]]
  PROVE  BucketsInv'
<1>1. \A k \in Keys : held'[k] = (IF k \in S THEN Holds(k) ELSE held[k]) /\ since'[k] = (IF k \in S THEN 0 ELSE since[k])
  OBVIOUS
<1>2. held' \in [Keys -> Nat] /\ since' \in [Keys -> Nat]
  BY HoldsNat DEF BucketsInv
<1>3. \A k \in Keys : held'[k] + since'[k] >= Holds(k)
  BY <1>1, HoldsNat DEF BucketsInv
<1> QED
  BY <1>2, <1>3 DEF BucketsInv, Keys, Holds, HoldOf, Index, Someone

LEMMA BucketsTick == ASSUME BucketsInv, TimePasses PROVE BucketsInv'
<1>1. /\ held' = [k \in Keys |-> IF held[k] > 0 THEN held[k] - 1 ELSE 0]
      /\ since' = [k \in Keys |-> IF since[k] < Holds(k) THEN since[k] + 1 ELSE since[k]]
  BY DEF TimePasses
<1>2. \A k \in Keys : held[k] \in Nat /\ since[k] \in Nat /\ Holds(k) \in Nat /\ held[k] + since[k] >= Holds(k)
  BY HoldsNat DEF BucketsInv
<1>3. held' \in [Keys -> Nat] /\ since' \in [Keys -> Nat]
  BY <1>1, <1>2
<1>4. ASSUME NEW k \in Keys PROVE held'[k] + since'[k] >= Holds(k)
  <2>1. /\ held'[k] = (IF held[k] > 0 THEN held[k] - 1 ELSE 0)
        /\ since'[k] = (IF since[k] < Holds(k) THEN since[k] + 1 ELSE since[k])
    BY <1>1
  <2> QED
    BY <2>1, <1>2
<1> QED
  BY <1>3, <1>4 DEF BucketsInv

LEMMA BucketsStay == ASSUME BucketsInv, UNCHANGED <<held, since>> PROVE BucketsInv'
  BY DEF BucketsInv

\* Only a turn takes a bucket, and only time gives it back.
LEMMA BucketsNext == ASSUME BucketsInv, EventsNext PROVE BucketsInv'
<1>1. CASE TimePasses
  BY <1>1, BucketsTick
<1>2. CASE \E t \in Task : Turn(t)
  <2> PICK t \in Task : Turn(t)
    BY <1>2
  <2>1. \/ UNCHANGED runVars
        \/ /\ held' = Taken(t)
           /\ since' = [k \in Keys |-> IF k \in KeysOf(t) THEN 0 ELSE since[k]]
    BY DEF Turn
  <2>2. CASE UNCHANGED runVars
    BY <2>2, BucketsStay DEF runVars
  <2>3. CASE held' = Taken(t) /\ since' = [k \in Keys |-> IF k \in KeysOf(t) THEN 0 ELSE since[k]]
    <3> DEFINE S == KeysOf(t)
    <3>1. /\ held' = [k \in Keys |-> IF k \in S THEN Holds(k) ELSE held[k]]
          /\ since' = [k \in Keys |-> IF k \in S THEN 0 ELSE since[k]]
      BY <2>3 DEF Taken
    <3> HIDE DEF S
    <3> QED
      BY <3>1, BucketsTaken
  <2> QED
    BY <2>1, <2>2, <2>3
<1>3. CASE UNCHANGED runVars
  BY <1>3, BucketsStay DEF runVars
<1>4. TimePasses \/ (\E t \in Task : Turn(t)) \/ UNCHANGED runVars
  <2>1. ASSUME NEW l PROVE ChatLine(l) => UNCHANGED runVars
    BY DEF ChatLine
  <2>2. ASSUME NEW c, NEW size PROVE Notification(c, size) => UNCHANGED runVars
    BY DEF Notification
  <2>3. PollBegins => UNCHANGED runVars
    BY DEF PollBegins
  <2>4. ASSUME NEW live, NEW failed PROVE PollEnds(live, failed) => UNCHANGED runVars
    BY DEF PollEnds
  <2>5. ASSUME NEW updated PROVE Online(updated) => UNCHANGED runVars
    BY DEF Online
  <2>6. ASSUME NEW c, NEW type PROVE OneEvent(c, type) => UNCHANGED runVars
    BY DEF OneEvent
  <2>7. ASSUME NEW c PROVE (Parted(c) => UNCHANGED runVars) /\ (ModuleTurned(c) => UNCHANGED runVars)
    BY DEF Parted, ModuleTurned
  <2>8. ASSUME NEW x PROVE Turned(x) => UNCHANGED runVars
    BY DEF Turned
  <2>9. ASSUME NEW t PROVE Steps(t) => Turn(t) \/ UNCHANGED runVars
    <3>1. ASSUME NEW raised PROVE Over(t, raised) => UNCHANGED runVars
      BY DEF Over
    <3> QED
      BY <3>1 DEF Steps
  <2> QED
    BY <2>1, <2>2, <2>3, <2>4, <2>5, <2>6, <2>7, <2>8, <2>9 DEF EventsNext
<1> QED
  BY <1>1, <1>2, <1>3, <1>4

-----------------------------------------------------------------------------
(* The tasks.                                                              *)

\* A task moved on.
LEMMA OneMoved ==
  ASSUME NEW f, AreTasks(f), NEW t, NEW r, Shaped(r)
  PROVE  /\ AreTasks([f EXCEPT ![t] = r])
         /\ r.at # "running" => Calm(f, [f EXCEPT ![t] = r])
         /\ \A u \in Task \ {t} : [f EXCEPT ![t] = r][u] = f[u]
  BY DEF AreTasks, Calm

LEMMA AtMoved ==
  ASSUME NEW r, Shaped(r), NEW v
  PROVE  Shaped([r EXCEPT !.at = v]) /\ [r EXCEPT !.at = v].at = v
<1> DEFINE w == [r EXCEPT !.at = v]
           k == r.kind  c == r.ch  y == r.type  e == r.ev  s == r.size  f == r.found  o == r.todo  a == r.at
<1>1. r = [kind |-> k, at |-> a, ch |-> c, type |-> y, ev |-> e, size |-> s, found |-> f, todo |-> o]
  BY DEF Shaped
<1> HIDE DEF k, c, y, e, s, f, o, a
<1>2. w = [kind |-> k, at |-> v, ch |-> c, type |-> y, ev |-> e, size |-> s, found |-> f, todo |-> o]
  BY <1>1
<1> HIDE DEF w
<1>3. Shaped(w) /\ w.at = v
  BY <1>2 DEF Shaped
<1> QED
  BY <1>3 DEF w

LEMMA OneAt ==
  ASSUME NEW f, AreTasks(f), NEW t, NEW v
  PROVE  /\ AreTasks([f EXCEPT ![t].at = v])
         /\ v # "running" => Calm(f, [f EXCEPT ![t].at = v])
         /\ \A u \in Task \ {t} : [f EXCEPT ![t].at = v][u] = f[u]
<1> DEFINE g == [f EXCEPT ![t].at = v]
<1>1. g = [u \in Task |-> IF u = t THEN [f[u] EXCEPT !.at = v] ELSE f[u]]
  BY DEF AreTasks
<1>2. \A u \in Task : Shaped(f[u])
  BY DEF AreTasks
<1>3. \A u \in Task : Shaped([f[u] EXCEPT !.at = v]) /\ [f[u] EXCEPT !.at = v].at = v
  BY <1>2, AtMoved
<1> HIDE DEF g
<1>4. AreTasks(g)
  BY <1>1, <1>2, <1>3 DEF AreTasks
<1>5. v # "running" => Calm(f, g)
  BY <1>1, <1>3 DEF Calm
<1>6. \A u \in Task \ {t} : g[u] = f[u]
  BY <1>1
<1> QED
  BY <1>4, <1>5, <1>6 DEF g

LEMMA CalmOn == ASSUME NEW f, NEW g, NEW h, Calm(f, g), Calm(g, h) PROVE Calm(f, h)
  BY DEF Calm

\* New tasks have not begun.
LEMMA SpawnedCalm ==
  ASSUME AreTasks(task), NEW works, \A i \in DOMAIN works : Shaped(works[i]) /\ works[i].at = "fresh", Spawned(works)
  PROVE  AreTasks(task') /\ Calm(task, task')
<1>1. PICK ids : task' = [t \in Task |-> IF \E i \in DOMAIN works : ids[i] = t
                                THEN works[CHOOSE i \in DOMAIN works : ids[i] = t] ELSE task[t]]
  BY DEF Spawned
<1>2. ASSUME NEW t \in Task
      PROVE  task'[t] = task[t] \/ (Shaped(task'[t]) /\ task'[t].at = "fresh")
  <2>1. CASE \E i \in DOMAIN works : ids[i] = t
    <3>1. (CHOOSE i \in DOMAIN works : ids[i] = t) \in DOMAIN works
      BY <2>1
    <3>2. task'[t] = works[CHOOSE i \in DOMAIN works : ids[i] = t]
      BY <2>1, <1>1
    <3> QED
      BY <3>1, <3>2
  <2>2. CASE ~ \E i \in DOMAIN works : ids[i] = t
    BY <2>2, <1>1
  <2> QED
    BY <2>1, <2>2
<1>3. task' = [t \in Task |-> task'[t]]
  BY <1>1
<1> QED
  BY <1>2, <1>3 DEF AreTasks, Calm

LEMMA AskCalm ==
  ASSUME AreTasks(task), NEW t, NEW to, Shaped(to), AskSlot(t, to)
  PROVE  AreTasks(task') /\ Calm(task, task')
<1> DEFINE in == [to EXCEPT !.at = "in"]
           waits == [to EXCEPT !.at = "waits"]
<1>1. task' = [task EXCEPT ![t] = in] \/ task' = [task EXCEPT ![t] = waits]
  BY DEF AskSlot
<1>2. Shaped(in) /\ in.at = "in" /\ Shaped(waits) /\ waits.at = "waits"
  BY AtMoved
<1> HIDE DEF in, waits
<1>3. /\ AreTasks([task EXCEPT ![t] = in]) /\ Calm(task, [task EXCEPT ![t] = in])
      /\ AreTasks([task EXCEPT ![t] = waits]) /\ Calm(task, [task EXCEPT ![t] = waits])
  BY <1>2, OneMoved
<1> QED
  BY <1>1, <1>3

LEMMA UnlockedCalm ==
  ASSUME NEW now, AreTasks(now), NEW t, Unlocked(t, now)
  PROVE  AreTasks(task') /\ Calm(now, task')
<1>1. task' = now \/ \E u : task' = [now EXCEPT ![u].at = "looks"]
  BY DEF Unlocked
<1>2. Calm(now, now)
  BY DEF Calm
<1> QED
  BY <1>1, <1>2, OneAt

LEMMA GiveCalm ==
  ASSUME AreTasks(task), NEW t, NEW to, Shaped(to), to.at # "running", GiveSlot(t, to)
  PROVE  AreTasks(task') /\ Calm(task, task')
<1> DEFINE now == [task EXCEPT ![t] = to]
           next == [now EXCEPT ![Head(waiting)].at = "in"]
<1>1. AreTasks(now) /\ Calm(task, now)
  BY OneMoved
<1>2. Unlocked(t, IF waiting = <<>> THEN now ELSE next)
  BY DEF GiveSlot
<1> HIDE DEF now
<1>3. AreTasks(next) /\ Calm(now, next)
  BY <1>1, OneAt
<1> HIDE DEF next
<1>4. CASE waiting = <<>>
  BY <1>4, <1>1, <1>2, UnlockedCalm, CalmOn
<1>5. CASE waiting # <<>>
  <2>1. Unlocked(t, next)
    BY <1>5, <1>2
  <2>2. AreTasks(task') /\ Calm(next, task')
    BY <2>1, <1>3, UnlockedCalm
  <2> QED
    BY <2>2, <1>1, <1>3, CalmOn
<1> QED
  BY <1>4, <1>5

LEMMA RegainCalm ==
  ASSUME AreTasks(task), NEW t, NEW to, Shaped(to), RegainSlot(t, to)
  PROVE  AreTasks(task') /\ Calm(task, task')
<1> DEFINE in == [task EXCEPT ![t] = [to EXCEPT !.at = "in"]]
           waits == [task EXCEPT ![t] = [to EXCEPT !.at = "waits"]]
           next == [waits EXCEPT ![Head(waiting)].at = "in"]
<1>1. /\ Shaped([to EXCEPT !.at = "in"]) /\ [to EXCEPT !.at = "in"].at = "in"
      /\ Shaped([to EXCEPT !.at = "waits"]) /\ [to EXCEPT !.at = "waits"].at = "waits"
  BY AtMoved
<1>2. AreTasks(in) /\ Calm(task, in) /\ AreTasks(waits) /\ Calm(task, waits)
  BY <1>1, OneMoved
<1>3. task' = in \/ task' = next
  BY DEF RegainSlot
<1> HIDE DEF in, waits
<1>4. AreTasks(next) /\ Calm(waits, next)
  BY <1>2, OneAt
<1> HIDE DEF next
<1> QED
  BY <1>2, <1>3, <1>4, CalmOn

-----------------------------------------------------------------------------
(* What happens leaves every run where it was, but a turn begins one.      *)

LEMMA EndedShaped == Shaped(Ended) /\ Ended.at = "none"
  BY DEF Ended, Shaped

LEMMA WorkShaped ==
  ASSUME NEW kind, NEW c, NEW type, NEW ev, NEW size
  PROVE  Shaped(Work(kind, c, type, ev, size)) /\ Work(kind, c, type, ev, size).at = "fresh"
  BY DEF Work, Shaped

LEMMA Quiet == ASSUME AreTasks(task), UNCHANGED task PROVE AreTasks(task') /\ Calm(task, task')
  BY DEF AreTasks, Calm

LEMMA LineCalm == ASSUME AreTasks(task), NEW l, ChatLine(l) PROVE AreTasks(task') /\ Calm(task, task')
<1>1. PICK e : Spawned((IF e = NoEvent THEN <<>> ELSE <<Work("watch", l.ch, "pyramid", e, 0)>>) \o OfLine(l))
  BY DEF ChatLine
<1> DEFINE event == IF e = NoEvent THEN <<>> ELSE <<Work("watch", l.ch, "pyramid", e, 0)>>
           works == event \o OfLine(l)
<1>2. OfLine(l) = <<>> \/ \E w : OfLine(l) = <<w>> /\ Shaped(w) /\ w.at = "fresh"
  BY WorkShaped DEF OfLine
<1>3. event = <<>> \/ \E w : event = <<w>> /\ Shaped(w) /\ w.at = "fresh"
  BY WorkShaped
<1> HIDE DEF event
<1>4. \A i \in DOMAIN works : Shaped(works[i]) /\ works[i].at = "fresh"
  BY <1>2, <1>3
<1> QED
  BY <1>1, <1>4, SpawnedCalm DEF event

LEMMA NoticeCalm ==
  ASSUME AreTasks(task), NEW c, NEW size, Notification(c, size) PROVE AreTasks(task') /\ Calm(task, task')
<1>1. PICK w : Spawned(<<w>>) /\ Shaped(w) /\ w.at = "fresh"
  BY WorkShaped DEF Notification
<1>2. \A i \in DOMAIN <<w>> : Shaped(<<w>>[i]) /\ <<w>>[i].at = "fresh"
  BY <1>1
<1> QED
  BY <1>1, <1>2, SpawnedCalm

LEMMA PollCalm ==
  ASSUME AreTasks(task), NEW live, NEW failed, PollEnds(live, failed) PROVE AreTasks(task') /\ Calm(task, task')
<1>1. CASE UNCHANGED task
  BY <1>1, Quiet
<1>2. CASE ~UNCHANGED task
  <2> DEFINE heard == Changed(live) \cap joined
             works == {Work("stream", c, IF c \in live THEN "stream_online" ELSE "stream_offline", NoEvent, 0) : c \in heard}
  <2>1. PICK order \in [1 .. Cardinality(heard) -> works] : Spawned(order)
    BY <1>2 DEF PollEnds
  <2>2. \A w \in works : Shaped(w) /\ w.at = "fresh"
    BY WorkShaped
  <2> HIDE DEF works, heard
  <2>3. \A i \in DOMAIN order : Shaped(order[i]) /\ order[i].at = "fresh"
    BY <2>2
  <2> QED
    BY <2>1, <2>3, SpawnedCalm
<1> QED
  BY <1>1, <1>2

\* A field of a task besides where it is.
LEMMA FieldKept ==
  ASSUME NEW r, Shaped(r)
  PROVE  /\ \A v : Shaped([r EXCEPT !.ch = v]) /\ [r EXCEPT !.ch = v].at = r.at
         /\ \A v : Shaped([r EXCEPT !.type = v]) /\ [r EXCEPT !.type = v].at = r.at
         /\ \A v : Shaped([r EXCEPT !.found = v]) /\ [r EXCEPT !.found = v].at = r.at
         /\ \A v : Shaped([r EXCEPT !.todo = v]) /\ [r EXCEPT !.todo = v].at = r.at
<1> DEFINE k == r.kind  c == r.ch  y == r.type  e == r.ev  s == r.size  f == r.found  o == r.todo  a == r.at
<1>0. r = [kind |-> k, at |-> a, ch |-> c, type |-> y, ev |-> e, size |-> s, found |-> f, todo |-> o]
  BY DEF Shaped
<1> HIDE DEF k, c, y, e, s, f, o, a
<1>1. \A v : Shaped([r EXCEPT !.ch = v]) /\ [r EXCEPT !.ch = v].at = r.at
  <2> TAKE v
  <2> DEFINE w == [r EXCEPT !.ch = v]
  <2>1. w = [kind |-> k, at |-> a, ch |-> v, type |-> y, ev |-> e, size |-> s, found |-> f, todo |-> o]
    BY <1>0
  <2> HIDE DEF w
  <2>2. Shaped(w) /\ w.at = a
    BY <2>1 DEF Shaped
  <2> QED
    BY <2>2 DEF w, a
<1>2. \A v : Shaped([r EXCEPT !.type = v]) /\ [r EXCEPT !.type = v].at = r.at
  <2> TAKE v
  <2> DEFINE w == [r EXCEPT !.type = v]
  <2>1. w = [kind |-> k, at |-> a, ch |-> c, type |-> v, ev |-> e, size |-> s, found |-> f, todo |-> o]
    BY <1>0
  <2> HIDE DEF w
  <2>2. Shaped(w) /\ w.at = a
    BY <2>1 DEF Shaped
  <2> QED
    BY <2>2 DEF w, a
<1>3. \A v : Shaped([r EXCEPT !.found = v]) /\ [r EXCEPT !.found = v].at = r.at
  <2> TAKE v
  <2> DEFINE w == [r EXCEPT !.found = v]
  <2>1. w = [kind |-> k, at |-> a, ch |-> c, type |-> y, ev |-> e, size |-> s, found |-> v, todo |-> o]
    BY <1>0
  <2> HIDE DEF w
  <2>2. Shaped(w) /\ w.at = a
    BY <2>1 DEF Shaped
  <2> QED
    BY <2>2 DEF w, a
<1>4. \A v : Shaped([r EXCEPT !.todo = v]) /\ [r EXCEPT !.todo = v].at = r.at
  <2> TAKE v
  <2> DEFINE w == [r EXCEPT !.todo = v]
  <2>1. w = [kind |-> k, at |-> a, ch |-> c, type |-> y, ev |-> e, size |-> s, found |-> f, todo |-> v]
    BY <1>0
  <2> HIDE DEF w
  <2>2. Shaped(w) /\ w.at = a
    BY <2>1 DEF Shaped
  <2> QED
    BY <2>2 DEF w, a
<1> QED
  BY <1>1, <1>2, <1>3, <1>4

LEMMA BotCalm == ASSUME AreTasks(task), NEW todo, BotCall(todo) PROVE AreTasks(task') /\ Calm(task, task')
<1> DEFINE r == [Work("bot", "", "", NoEvent, 0) EXCEPT !.at = "next"]
           q == [r EXCEPT !.todo = todo]
<1>1. PICK t : task' = [task EXCEPT ![t] = q]
  BY DEF BotCall
<1>2. Shaped(r) /\ r.at = "next"
  BY WorkShaped, AtMoved
<1> HIDE DEF r
<1>3. Shaped(q) /\ q.at = "next"
  BY <1>2, FieldKept
<1> HIDE DEF q
<1> QED
  BY <1>1, <1>3, OneMoved

\* Where a task goes when it has none to run any more is nowhere near a run.
LEMMA AfterShaped == ASSUME NEW t, Shaped(task[t]) PROVE Shaped(After(t)) /\ After(t).at \in {"next", "none"}
<1> DEFINE r == [task[t] EXCEPT !.at = "next"]
<1>1. Shaped(r) /\ r.at = "next"
  BY AtMoved
<1>2. Shaped([r EXCEPT !.found = <<>>]) /\ [r EXCEPT !.found = <<>>].at = "next"
  <2> HIDE DEF r
  <2> QED
    BY <1>1, FieldKept
<1>3. After(t) = [r EXCEPT !.found = <<>>] \/ After(t) = Ended
  BY DEF After
<1> HIDE DEF r
<1> QED
  BY <1>2, <1>3, EndedShaped

LEMMA OnwardCalm == ASSUME AreTasks(task), NEW t \in Task, Onward(t) PROVE AreTasks(task') /\ Calm(task, task')
<1> DEFINE rest == IF task[t].found = <<>> THEN <<>> ELSE Tail(task[t].found)
           to == [task[t] EXCEPT !.found = rest]
<1>0. Shaped(task[t])
  BY DEF AreTasks
<1>1. Shaped(to) /\ Shaped(After(t)) /\ After(t).at # "running"
  <2> HIDE DEF rest
  <2> QED
    BY <1>0, FieldKept, AfterShaped
<1>2. GiveSlot(t, After(t)) \/ RegainSlot(t, to) \/ task' = [task EXCEPT ![t].found = rest, ![t].at = "in"]
  BY DEF Onward
<1>3. CASE GiveSlot(t, After(t))
  BY <1>3, <1>1, GiveCalm
<1>4. CASE RegainSlot(t, to)
  <2> HIDE DEF to
  <2> QED
    BY <1>4, <1>1, RegainCalm
<1>5. CASE task' = [task EXCEPT ![t].found = rest, ![t].at = "in"]
  <2> HIDE DEF rest
  <2>1. task' = [task EXCEPT ![t] = [to EXCEPT !.at = "in"]]
    BY <1>5 DEF AreTasks
  <2> HIDE DEF to
  <2>2. Shaped([to EXCEPT !.at = "in"]) /\ [to EXCEPT !.at = "in"].at = "in"
    BY <1>1, AtMoved
  <2> DEFINE r == [to EXCEPT !.at = "in"]
  <2> HIDE DEF r
  <2>3. task' = [task EXCEPT ![t] = r] /\ Shaped(r) /\ r.at = "in"
    BY <2>1, <2>2 DEF r
  <2> QED
    BY <2>3, OneMoved
<1> QED
  BY <1>2, <1>3, <1>4, <1>5

LEMMA BeginCalm == ASSUME AreTasks(task), NEW t \in Task, Begin(t) PROVE AreTasks(task') /\ Calm(task, task')
<1> DEFINE to == [task[t] EXCEPT !.found = Found(t)]
<1>1. Shaped(to)
  BY FieldKept DEF AreTasks
<1>2. \/ \E v : v # "running" /\ task' = [task EXCEPT ![t].at = v]
      \/ AskSlot(t, to)
      \/ task' = [task EXCEPT ![t] = Ended]
  <2>1. UnderLock(t) \/ AskSlot(t, to) \/ task' = [task EXCEPT ![t] = Ended]
    BY DEF Begin
  <2>2. UnderLock(t) => \E v : v # "running" /\ task' = [task EXCEPT ![t].at = v]
    BY DEF UnderLock
  <2> QED
    BY <2>1, <2>2
<1> HIDE DEF to
<1>3. ASSUME NEW v, v # "running", task' = [task EXCEPT ![t].at = v] PROVE AreTasks(task') /\ Calm(task, task')
  BY <1>3, OneAt
<1>4. CASE AskSlot(t, to)
  BY <1>4, <1>1, AskCalm
<1>5. CASE task' = [task EXCEPT ![t] = Ended]
  BY <1>5, EndedShaped, OneMoved
<1> QED
  BY <1>2, <1>3, <1>4, <1>5

LEMMA LookCalm == ASSUME AreTasks(task), NEW t \in Task, Look(t) PROVE AreTasks(task') /\ Calm(task, task')
<1> DEFINE to == [task[t] EXCEPT !.found = Found(t)]
           gone == [task EXCEPT ![t] = Ended]
<1>1. Shaped(to)
  BY FieldKept DEF AreTasks
<1>2. AreTasks(gone) /\ Calm(task, gone)
  BY EndedShaped, OneMoved
<1>3. AskSlot(t, to) \/ Unlocked(t, gone)
  BY DEF Look
<1> HIDE DEF to, gone
<1>4. CASE AskSlot(t, to)
  BY <1>4, <1>1, AskCalm
<1>5. CASE Unlocked(t, gone)
  BY <1>5, <1>2, UnlockedCalm, CalmOn
<1> QED
  BY <1>3, <1>4, <1>5

LEMMA NextEventCalm ==
  ASSUME AreTasks(task), NEW t \in Task, NextEvent(t) PROVE AreTasks(task') /\ Calm(task, task')
<1> DEFINE todo == task[t].todo
           found == Finds(todo[1][1], todo[1][2], 0)
           r1 == [task[t] EXCEPT !.todo = Tail(todo)]
           r2 == [r1 EXCEPT !.ch = todo[1][1]]
           r3 == [r2 EXCEPT !.type = todo[1][2]]
           to == [r3 EXCEPT !.found = found]
<1>0. task[t].at = "next" /\ Shaped(task[t])
  BY DEF NextEvent, AreTasks
<1>1. task' = [task EXCEPT ![t] = Ended] \/ AskSlot(t, to) \/ task' = [task EXCEPT ![t] = to]
  BY DEF NextEvent
<1> HIDE DEF found, todo
<1>2. Shaped(r1) /\ r1.at = "next"
  BY <1>0, FieldKept
<1> HIDE DEF r1
<1>3. Shaped(r2) /\ r2.at = "next"
  BY <1>2, FieldKept
<1> HIDE DEF r2
<1>4. Shaped(r3) /\ r3.at = "next"
  BY <1>3, FieldKept
<1> HIDE DEF r3
<1>5. Shaped(to) /\ to.at = "next"
  BY <1>4, FieldKept
<1> HIDE DEF to
<1>6. CASE task' = [task EXCEPT ![t] = Ended]
  BY <1>6, EndedShaped, OneMoved
<1>7. CASE AskSlot(t, to)
  BY <1>7, <1>5, AskCalm
<1>8. CASE task' = [task EXCEPT ![t] = to]
  BY <1>8, <1>5, OneMoved
<1> QED
  BY <1>1, <1>6, <1>7, <1>8

LEMMA OverCalm ==
  ASSUME AreTasks(task), NEW t \in Task, NEW raised, Over(t, raised) PROVE AreTasks(task') /\ Calm(task, task')
<1>1. GiveSlot(t, After(t)) \/ Onward(t)
  BY DEF Over
<1>2. Shaped(After(t)) /\ After(t).at # "running"
  BY AfterShaped DEF AreTasks
<1> QED
  BY <1>1, <1>2, GiveCalm, OnwardCalm

\* A turn begins its own run, if any, and none of a trigger that cools down.
LEMMA TurnBegins ==
  ASSUME AreTasks(task), NEW t \in Task, Turn(t)
  PROVE  /\ AreTasks(task')
         /\ \A u \in Task \ {t} : task[u].at # "running" => task'[u].at # "running"
         /\ \/ Calm(task, task')
            \/ task[t].kind = "command"
            \/ ~Cooling(t)
<1>1. CASE Onward(t)
  BY <1>1, OnwardCalm DEF Calm
<1>2. CASE task' = [task EXCEPT ![t].at = "running"] /\ (task[t].kind = "command" \/ ~Cooling(t))
  <2> DEFINE next == [task EXCEPT ![t].at = "running"]
  <2>1. AreTasks(next) /\ \A u \in Task \ {t} : next[u] = task[u]
    BY OneAt
  <2> HIDE DEF next
  <2>2. task' = next
    BY <1>2 DEF next
  <2> QED
    BY <1>2, <2>1, <2>2
<1>3. Onward(t) \/ (task' = [task EXCEPT ![t].at = "running"] /\ (task[t].kind = "command" \/ ~Cooling(t)))
  BY DEF Turn
<1> QED
  BY <1>1, <1>2, <1>3

LEMMA StepBegins ==
  ASSUME AreTasks(task), EventsNext
  PROVE  /\ AreTasks(task')
         /\ \A t \in Task, x \in Index : Starts(t, x) => ~Cooling(t)
<1> SUFFICES AreTasks(task') /\ (Calm(task, task') \/ \E t \in Task : Turn(t))
  BY TurnBegins DEF Starts, Calm
<1>1. ASSUME NEW l, ChatLine(l) PROVE AreTasks(task') /\ Calm(task, task')
  BY <1>1, LineCalm
<1>2. ASSUME NEW c, NEW size, Notification(c, size) PROVE AreTasks(task') /\ Calm(task, task')
  BY <1>2, NoticeCalm
<1>3. ASSUME NEW live, NEW failed, PollEnds(live, failed) PROVE AreTasks(task') /\ Calm(task, task')
  BY <1>3, PollCalm
<1>4. ASSUME NEW updated, Online(updated) PROVE AreTasks(task') /\ Calm(task, task')
  <2>1. \E todo : BotCall(todo)
    BY <1>4 DEF Online
  <2> QED
    BY <2>1, BotCalm
<1>5. ASSUME NEW c, NEW type, OneEvent(c, type) PROVE AreTasks(task') /\ Calm(task, task')
  <2>1. \E todo : BotCall(todo)
    BY <1>5 DEF OneEvent
  <2> QED
    BY <2>1, BotCalm
<1>6. ASSUME NEW t \in Task, Steps(t) PROVE AreTasks(task') /\ (Calm(task, task') \/ Turn(t))
  BY <1>6, BeginCalm, LookCalm, NextEventCalm, TurnBegins, OverCalm DEF Steps
<1>7. ASSUME UNCHANGED task PROVE AreTasks(task') /\ Calm(task, task')
  BY <1>7, Quiet
<1>8. ASSUME NEW c PROVE (Parted(c) => UNCHANGED task) /\ (ModuleTurned(c) => UNCHANGED task)
  BY DEF Parted, ModuleTurned
<1>9. ASSUME NEW x PROVE Turned(x) => UNCHANGED task
  BY DEF Turned
<1>10. (PollBegins => UNCHANGED task) /\ (TimePasses => UNCHANGED task)
  BY DEF PollBegins, TimePasses
<1> QED
  BY <1>1, <1>2, <1>3, <1>4, <1>5, <1>6, <1>7, <1>8, <1>9, <1>10 DEF EventsNext

-----------------------------------------------------------------------------

\* Runs of one trigger begin no closer than its cooldowns, those of the bot's return no closer than a quarter of
\* an hour (MIN_CHANNEL_COOLDOWN_S), for every set of triggers, tasks, slots and lines.
THEOREM CooldownsApart == TriggersSpec => CooledApart
<1> DEFINE Inv == BucketsInv /\ AreTasks(task)
           Apart ==
             \A t \in Task, x \in Index : Starts(t, x) =>
               \A k \in KeysOf(t) :
                 since[k] >= (IF k[3] = "" THEN Reaction[x].hold ELSE Reaction[x].holdUser)
                 /\ (k[3] = "" /\ Reaction[x].type = "bot_online" => since[k] >= LeastHold)
<1>1. TriggersInit => Inv
  <2>1. EventsInit => AreTasks(task)
    BY EndedShaped DEF EventsInit, AreTasks
  <2> QED
    BY <2>1, BucketsInit DEF TriggersInit
<1>2. Inv /\ [TriggersNext]_<<timersVars, eventsVars>> => Inv'
  <2>1. CASE EventsNext
    BY <2>1, BucketsNext, StepBegins
  <2>2. CASE UNCHANGED eventsVars
    <3>1. UNCHANGED <<task, held, since>>
      BY <2>2 DEF eventsVars, runVars
    <3> QED
      BY <3>1, BucketsStay, Quiet
  <2> QED
    BY <2>1, <2>2 DEF TriggersNext
<1>3. Inv /\ [TriggersNext]_<<timersVars, eventsVars>> => [Apart]_eventsVars
  <2> SUFFICES ASSUME Inv, EventsNext PROVE Apart
    BY DEF TriggersNext
  <2> SUFFICES ASSUME NEW t \in Task, NEW x \in Index, Starts(t, x), NEW k \in KeysOf(t)
               PROVE  /\ since[k] >= (IF k[3] = "" THEN Reaction[x].hold ELSE Reaction[x].holdUser)
                      /\ (k[3] = "" /\ Reaction[x].type = "bot_online" => since[k] >= LeastHold)
    OBVIOUS
  <2>1. ~(held[k] > 0)
    BY StepBegins DEF Cooling
  <2>2. k \in Keys /\ k[1] = x
    BY DEF KeysOf, Starts
  <2>3. held[k] \in Nat /\ since[k] \in Nat /\ held[k] + since[k] >= Holds(k) /\ Holds(k) \in Nat
    BY <2>2, HoldsNat DEF BucketsInv
  <2>4. since[k] >= Holds(k)
    BY <2>1, <2>3
  <2>5. Reaction[x].hold \in Nat /\ Reaction[x].holdUser \in Nat /\ LeastHold \in Nat
    BY TriggerRunsAssumption DEF Index
  <2>6. Holds(k) = (IF k[3] = "" THEN HoldOf(x) ELSE Reaction[x].holdUser)
    BY <2>2 DEF Holds
  <2>7. HoldOf(x) >= Reaction[x].hold /\ HoldOf(x) \in Nat /\ (Reaction[x].type = "bot_online" => HoldOf(x) >= LeastHold)
    BY <2>5 DEF HoldOf
  <2>8. CASE k[3] = ""
    <3> DEFINE h == HoldOf(x)  a == Reaction[x].hold  s == since[k]
    <3>1. s \in Nat /\ h \in Nat /\ a \in Nat /\ LeastHold \in Nat
      BY <2>3, <2>5, <2>7
    <3>2. s >= h /\ h >= a /\ (Reaction[x].type = "bot_online" => h >= LeastHold)
      BY <2>4, <2>6, <2>7, <2>8
    <3> HIDE DEF h, a, s
    <3>3. s >= a /\ (Reaction[x].type = "bot_online" => s >= LeastHold)
      BY <3>1, <3>2
    <3> QED
      BY <2>8, <3>3 DEF a, s
  <2>9. CASE k[3] # ""
    BY <2>3, <2>4, <2>5, <2>6, <2>9
  <2> QED
    BY <2>8, <2>9
<1> QED
  BY <1>1, <1>2, <1>3, PTL DEF TriggersSpec, CooledApart

-----------------------------------------------------------------------------
(* The watcher's events of a channel are told one at a time: from the turn *)
(* it gets until it is over, whatever slots are given and taken back in    *)
(* between, the task of an event is the first of its channel's queue.      *)

\* A watcher's event that a task has begun to tell.
Tells(f, t) == f[t].kind = "watch" /\ f[t].at # "fresh"
HasTurn == {"looks", "waits", "in", "running"}

\* The queue of each channel: its tasks, once each, the first of which has its turn.
Locks(f, l) ==
  /\ l \in [Channel -> Seq(Task)]
  /\ \A c \in Channel :
       /\ \A i \in 1..Len(l[c]) :
            /\ Tells(f, l[c][i]) /\ f[l[c][i]].ch = c
            /\ IF i = 1 THEN f[l[c][i]].at \in HasTurn ELSE f[l[c][i]].at = "locked"
       /\ \A i, j \in 1..Len(l[c]) : l[c][i] = l[c][j] => i = j
  /\ \A t \in Task : Tells(f, t) => \E i \in 1..Len(l[f[t].ch]) : l[f[t].ch][i] = t

\* Those of a queue are where it says, once each.
Queues(f, q, v) ==
  /\ q \in Seq(Task)
  /\ \A i \in 1..Len(q) : f[q[i]].at = v
  /\ \A i, j \in 1..Len(q) : q[i] = q[j] => i = j

\* A task that is free is nowhere, and a watcher's event is of a channel.
Known(f) ==
  /\ \A t \in Task : f[t].kind = "none" => f[t].at = "none"
  /\ \A t \in Task : f[t].kind = "watch" => f[t].ch \in Channel

TurnsInv ==
  /\ AreTasks(task) /\ Known(task) /\ joined \subseteq Channel
  /\ Locks(task, lock) /\ Queues(task, waiting, "waits") /\ Queues(task, fresh, "fresh")

-----------------------------------------------------------------------------
(* Queues. *)

LEMMA QueueStays ==
  ASSUME NEW f, NEW g, NEW q, NEW v, Queues(f, q, v), \A t \in Task : f[t].at = v => g[t].at = v
  PROVE  Queues(g, q, v)
<1>1. \A i \in 1..Len(q) : q[i] \in Task
  BY DEF Queues
<1> QED
  BY <1>1 DEF Queues

LEMMA QueueJoins ==
  ASSUME NEW f, NEW g, NEW q, NEW v, Queues(f, q, v), \A t \in Task : f[t].at = v => g[t].at = v,
         NEW ids \in Seq(Task), \A i \in 1..Len(ids) : f[ids[i]].at # v /\ g[ids[i]].at = v,
         \A i, j \in 1..Len(ids) : ids[i] = ids[j] => i = j
  PROVE  Queues(g, q \o ids, v)
<1> DEFINE w == q \o ids
<1>1. q \in Seq(Task) /\ Len(q) \in Nat /\ Len(ids) \in Nat
  BY DEF Queues
<1>2. w \in Seq(Task) /\ Len(w) = Len(q) + Len(ids)
  BY <1>1
<1>3. \A i \in 1..Len(q) : w[i] = q[i]
  BY <1>1
<1>4. ASSUME NEW i \in Len(q) + 1 .. Len(w) PROVE i - Len(q) \in 1..Len(ids) /\ w[i] = ids[i - Len(q)]
  BY <1>1, <1>2
<1> HIDE DEF w
<1>5. \A i \in 1..Len(w) : i \in 1..Len(q) \/ i \in Len(q) + 1 .. Len(w)
  BY <1>1, <1>2
<1>6. \A i \in 1..Len(q) : q[i] \in Task /\ f[q[i]].at = v /\ g[q[i]].at = v
  BY <1>1 DEF Queues
<1>7. ASSUME NEW i \in 1..Len(w) PROVE g[w[i]].at = v
  <2>1. CASE i \in 1..Len(q)
    BY <1>3, <1>6, <2>1
  <2>2. CASE i \in Len(q) + 1 .. Len(w)
    <3>1. i - Len(q) \in 1..Len(ids) /\ w[i] = ids[i - Len(q)]
      BY <1>4, <2>2
    <3> QED
      BY <3>1
  <2> QED
    BY <1>5, <2>1, <2>2
<1>8. ASSUME NEW i \in 1..Len(w), NEW j \in 1..Len(w), w[i] = w[j] PROVE i = j
  <2>1. CASE i \in 1..Len(q) /\ j \in 1..Len(q)
    BY <1>3, <1>8, <2>1 DEF Queues
  <2>2. CASE i \in Len(q) + 1 .. Len(w) /\ j \in Len(q) + 1 .. Len(w)
    <3>1. i - Len(q) = j - Len(q)
      BY <1>4, <1>8, <2>2
    <3> QED
      BY <1>1, <1>2, <3>1
  <2>3. CASE i \in 1..Len(q) /\ j \in Len(q) + 1 .. Len(w)
    BY <1>3, <1>4, <1>6, <1>8, <2>3, SMTT(60)
  <2>4. CASE i \in Len(q) + 1 .. Len(w) /\ j \in 1..Len(q)
    BY <1>3, <1>4, <1>6, <1>8, <2>4
  <2> QED
    BY <1>5, <2>1, <2>2, <2>3, <2>4
<1> QED
  BY <1>2, <1>7, <1>8 DEF Queues, w

LEMMA QueueAppends ==
  ASSUME NEW f, NEW g, NEW q, NEW v, Queues(f, q, v), NEW t \in Task, f[t].at # v, g[t].at = v,
         \A u \in Task : f[u].at = v => g[u].at = v
  PROVE  Queues(g, Append(q, t), v)
<1> DEFINE w == Append(q, t)
<1>1. q \in Seq(Task) /\ Len(q) \in Nat
  BY DEF Queues
<1>2. w \in Seq(Task) /\ Len(w) = Len(q) + 1 /\ w[Len(q) + 1] = t /\ \A i \in 1..Len(q) : w[i] = q[i]
  BY <1>1
<1> HIDE DEF w
<1>3. \A i \in 1..Len(q) : q[i] \in Task /\ f[q[i]].at = v /\ q[i] # t
  BY <1>1 DEF Queues
<1>4. \A i \in 1..Len(w) : i \in 1..Len(q) \/ i = Len(q) + 1
  BY <1>1, <1>2
<1>5. \A i \in 1..Len(w) : g[w[i]].at = v
  BY <1>2, <1>3, <1>4
<1>6. ASSUME NEW i \in 1..Len(w), NEW j \in 1..Len(w), w[i] = w[j] PROVE i = j
  BY <1>2, <1>3, <1>4, <1>6 DEF Queues
<1> QED
  BY <1>2, <1>5, <1>6 DEF Queues, w

\* The first of a queue goes.
LEMMA QueueMoves ==
  ASSUME NEW f, NEW g, NEW q, NEW v, Queues(f, q, v), q # <<>>,
         \A t \in Task \ {Head(q)} : f[t].at = v => g[t].at = v
  PROVE  Head(q) \in Task /\ f[Head(q)].at = v /\ Queues(g, Tail(q), v)
<1>1. q \in Seq(Task) /\ Len(q) \in Nat \ {0} /\ Head(q) = q[1] /\ 1 \in 1..Len(q)
  BY DEF Queues
<1>2. Tail(q) \in Seq(Task) /\ Len(Tail(q)) = Len(q) - 1
  BY <1>1
<1>3. ASSUME NEW i \in 1..Len(Tail(q)) PROVE i + 1 \in 1..Len(q) /\ i + 1 # 1 /\ Tail(q)[i] = q[i + 1]
  BY <1>1, <1>2
<1>4. \A i \in 1..Len(Tail(q)) : q[i + 1] \in Task \ {Head(q)} /\ f[q[i + 1]].at = v
  BY <1>1, <1>3 DEF Queues
<1>5. \A i \in 1..Len(Tail(q)) : g[Tail(q)[i]].at = v
  BY <1>3, <1>4
<1>6. ASSUME NEW i \in 1..Len(Tail(q)), NEW j \in 1..Len(Tail(q)), Tail(q)[i] = Tail(q)[j] PROVE i = j
  <2>1. i + 1 = j + 1
    BY <1>3, <1>6 DEF Queues
  <2> QED
    BY <2>1
<1> QED
  BY <1>1, <1>2, <1>5, <1>6 DEF Queues

-----------------------------------------------------------------------------
(* The locks. *)

\* One that tells or is about to is no other's, and keeps its turn or waits for it.
LEMMA LocksStay ==
  ASSUME NEW f, NEW g, NEW l, Locks(f, l),
         \A t \in Task : Tells(f, t) <=> Tells(g, t),
         \A t \in Task : Tells(f, t) =>
           g[t].ch = f[t].ch /\ (g[t].at = f[t].at \/ (f[t].at \in HasTurn /\ g[t].at \in HasTurn))
  PROVE  Locks(g, l)
<1>1. ASSUME NEW c \in Channel, NEW i \in 1..Len(l[c])
      PROVE  l[c][i] \in Task /\ Tells(f, l[c][i]) /\ f[l[c][i]].ch = c
  BY DEF Locks
<1>2. ASSUME NEW c \in Channel, NEW i \in 1..Len(l[c])
      PROVE  /\ Tells(g, l[c][i]) /\ g[l[c][i]].ch = c
             /\ IF i = 1 THEN g[l[c][i]].at \in HasTurn ELSE g[l[c][i]].at = "locked"
  <2>1. IF i = 1 THEN f[l[c][i]].at \in HasTurn ELSE f[l[c][i]].at = "locked"
    BY DEF Locks
  <2>2. "locked" \notin HasTurn
    BY DEF HasTurn
  <2> QED
    BY <1>1, <2>1, <2>2
<1>3. ASSUME NEW t \in Task, Tells(g, t) PROVE \E i \in 1..Len(l[g[t].ch]) : l[g[t].ch][i] = t
  <2>1. Tells(f, t) /\ g[t].ch = f[t].ch
    BY <1>3
  <2>2. \E i \in 1..Len(l[f[t].ch]) : l[f[t].ch][i] = t
    BY <2>1 DEF Locks
  <2> QED
    BY <2>1, <2>2
<1> QED
  BY <1>2, <1>3 DEF Locks

\* Who comes last waits for its turn, or has it.
LEMMA LocksJoin ==
  ASSUME NEW f, NEW g, NEW l, Locks(f, l), NEW t \in Task, NEW c \in Channel,
         ~Tells(f, t), Tells(g, t), g[t].ch = c,
         IF l[c] = <<>> THEN g[t].at \in HasTurn ELSE g[t].at = "locked",
         \A u \in Task \ {t} : g[u] = f[u]
  PROVE  Locks(g, [l EXCEPT ![c] = Append(@, t)])
<1> DEFINE m == [l EXCEPT ![c] = Append(@, t)]
<1>1. l \in [Channel -> Seq(Task)] /\ l[c] \in Seq(Task) /\ Len(l[c]) \in Nat
  BY DEF Locks
<1>2. /\ m \in [Channel -> Seq(Task)] /\ m[c] = Append(l[c], t) /\ \A d \in Channel \ {c} : m[d] = l[d]
      /\ Len(m[c]) = Len(l[c]) + 1 /\ m[c][Len(l[c]) + 1] = t /\ \A i \in 1..Len(l[c]) : m[c][i] = l[c][i]
  BY <1>1
<1> HIDE DEF m
<1>3. ASSUME NEW d \in Channel, NEW i \in 1..Len(l[d])
      PROVE  /\ l[d][i] \in Task \ {t} /\ Tells(g, l[d][i]) /\ g[l[d][i]].ch = d
             /\ IF i = 1 THEN g[l[d][i]].at \in HasTurn ELSE g[l[d][i]].at = "locked"
  <2>1. /\ l[d][i] \in Task /\ Tells(f, l[d][i]) /\ f[l[d][i]].ch = d
        /\ IF i = 1 THEN f[l[d][i]].at \in HasTurn ELSE f[l[d][i]].at = "locked"
    BY DEF Locks
  <2>2. l[d][i] # t
    BY <2>1
  <2> QED
    BY <2>1, <2>2 DEF Tells
<1>4. \A i \in 1..Len(m[c]) : i \in 1..Len(l[c]) \/ i = Len(l[c]) + 1
  BY <1>1, <1>2
<1>5. ASSUME NEW d \in Channel, NEW i \in 1..Len(m[d])
      PROVE  /\ Tells(g, m[d][i]) /\ g[m[d][i]].ch = d
             /\ IF i = 1 THEN g[m[d][i]].at \in HasTurn ELSE g[m[d][i]].at = "locked"
  <2>1. CASE d # c
    BY <1>2, <1>3, <2>1
  <2>2. CASE d = c /\ i \in 1..Len(l[c])
    BY <1>2, <1>3, <2>2
  <2>3. CASE d = c /\ i = Len(l[c]) + 1
    <3>1. l[c] = <<>> <=> i = 1
      BY <1>1, <2>3
    <3> QED
      BY <1>2, <2>3, <3>1
  <2> QED
    BY <1>4, <2>1, <2>2, <2>3
<1>6. ASSUME NEW d \in Channel, NEW i \in 1..Len(m[d]), NEW j \in 1..Len(m[d]), m[d][i] = m[d][j]
      PROVE  i = j
  <2>1. CASE d # c
    BY <1>2, <1>6, <2>1 DEF Locks
  <2>2. CASE d = c
    <3>1. \A k \in 1..Len(l[c]) : m[c][k] = l[c][k] /\ m[c][k] # t
      BY <1>2, <1>3
    <3>2. CASE i \in 1..Len(l[c]) /\ j \in 1..Len(l[c])
      <4>1. l[c][i] = l[c][j]
        BY <1>6, <2>2, <3>1, <3>2
      <4> QED
        BY <3>2, <4>1 DEF Locks
    <3> QED
      BY <1>2, <1>4, <1>6, <2>2, <3>1, <3>2
  <2> QED
    BY <2>1, <2>2
<1>7. ASSUME NEW u \in Task, Tells(g, u) PROVE \E i \in 1..Len(m[g[u].ch]) : m[g[u].ch][i] = u
  <2>1. CASE u = t
    <3>1. Len(l[c]) + 1 \in 1..Len(m[c])
      BY <1>1, <1>2
    <3> QED
      BY <1>2, <2>1, <3>1
  <2>2. CASE u # t
    <3>1. g[u] = f[u] /\ Tells(f, u)
      BY <1>7, <2>2 DEF Tells
    <3>2. PICK i \in 1..Len(l[f[u].ch]) : l[f[u].ch][i] = u
      BY <3>1 DEF Locks
    <3>3. CASE g[u].ch = c
      <4>1. i \in 1..Len(m[c]) /\ m[c][i] = u
        BY <1>1, <1>2, <3>1, <3>2, <3>3
      <4> QED
        BY <3>3, <4>1
    <3>4. CASE g[u].ch # c
      <4>1. m[g[u].ch] = l[g[u].ch]
        BY <1>1, <3>4 DEF m
      <4> QED
        BY <3>1, <3>2, <4>1
    <3> QED
      BY <3>3, <3>4
  <2> QED
    BY <2>1, <2>2
<1> QED
  BY <1>2, <1>5, <1>6, <1>7 DEF Locks, m

\* Who has its turn is the first of its channel's queue.
LEMMA HasItsTurn ==
  ASSUME NEW f, NEW l, Locks(f, l), NEW t \in Task, Tells(f, t), f[t].at \in HasTurn, f[t].ch \in Channel
  PROVE  l[f[t].ch] # <<>> /\ Len(l[f[t].ch]) \in Nat \ {0} /\ l[f[t].ch][1] = t
<1>1. PICK i \in 1..Len(l[f[t].ch]) : l[f[t].ch][i] = t
  BY DEF Locks
<1>2. i = 1
  BY <1>1 DEF Locks, HasTurn
<1> QED
  BY <1>1, <1>2 DEF Locks

\* Its turn is over, and the next has it.
LEMMA LocksPass ==
  ASSUME NEW f, NEW g, NEW l, Locks(f, l), NEW t \in Task, Tells(f, t), f[t].at \in HasTurn, f[t].ch \in Channel,
         ~Tells(g, t),
         \A u \in Task \ {t} : Tells(f, u) <=> Tells(g, u),
         \A u \in Task \ {t} : Tells(f, u) => g[u].ch = f[u].ch,
         Len(l[f[t].ch]) > 1 => g[l[f[t].ch][2]].at \in HasTurn,
         \A u \in Task \ {t} : (Len(l[f[t].ch]) > 1 => u # l[f[t].ch][2]) =>
           g[u].at = f[u].at \/ (f[u].at \in HasTurn /\ g[u].at \in HasTurn)
  PROVE  Locks(g, [l EXCEPT ![f[t].ch] = Tail(@)])
<1> DEFINE c == f[t].ch
           m == [l EXCEPT ![c] = Tail(@)]
<1>1. l \in [Channel -> Seq(Task)] /\ l[c] \in Seq(Task) /\ Len(l[c]) \in Nat \ {0} /\ l[c][1] = t /\ c \in Channel
  BY HasItsTurn DEF Locks
<1>2. /\ m \in [Channel -> Seq(Task)] /\ m[c] = Tail(l[c]) /\ \A d \in Channel \ {c} : m[d] = l[d]
      /\ Len(m[c]) = Len(l[c]) - 1
  BY <1>1
<1>3. ASSUME NEW i \in 1..Len(m[c]) PROVE i + 1 \in 2..Len(l[c]) /\ m[c][i] = l[c][i + 1]
  BY <1>1, <1>2
<1>4. ASSUME NEW d \in Channel, NEW i \in 1..Len(l[d])
      PROVE  /\ l[d][i] \in Task /\ Tells(f, l[d][i]) /\ f[l[d][i]].ch = d
             /\ IF i = 1 THEN f[l[d][i]].at \in HasTurn ELSE f[l[d][i]].at = "locked"
  BY DEF Locks
<1>5. \A d \in Channel : \A i, j \in 1..Len(l[d]) : l[d][i] = l[d][j] => i = j
  BY DEF Locks
<1> DEFINE second == l[c][2]
<1>6. Len(l[c]) > 1 => g[second].at \in HasTurn
  OBVIOUS
<1>7. \A u \in Task \ {t} : (Len(l[c]) > 1 => u # second) =>
        g[u].at = f[u].at \/ (f[u].at \in HasTurn /\ g[u].at \in HasTurn)
  OBVIOUS
<1>8. \A u \in Task \ {t} : (Tells(f, u) <=> Tells(g, u)) /\ (Tells(f, u) => g[u].ch = f[u].ch)
  OBVIOUS
<1>9. "locked" \notin HasTurn
  BY DEF HasTurn
<1>10. \A u \in Task : Tells(f, u) => \E i \in 1..Len(l[f[u].ch]) : l[f[u].ch][i] = u
  BY DEF Locks
<1>11. Len(l[c]) > 1 => 2 \in 1..Len(l[c]) /\ f[second].ch = c
  BY <1>1, <1>4
<1> HIDE DEF c, m
<1>12. ASSUME NEW d \in Channel \ {c}, NEW i \in 1..Len(l[d])
       PROVE  /\ Tells(g, l[d][i]) /\ g[l[d][i]].ch = d
              /\ IF i = 1 THEN g[l[d][i]].at \in HasTurn ELSE g[l[d][i]].at = "locked"
  <2>1. f[t].ch = c
    BY DEF c
  <2>2. l[d][i] # t /\ (Len(l[c]) > 1 => l[d][i] # second)
    BY <1>4, <1>11, <2>1
  <2>3. l[d][i] \in Task \ {t}
    BY <1>4, <2>2
  <2> HIDE DEF second
  <2>4. Tells(g, l[d][i]) /\ g[l[d][i]].ch = d
    BY <1>4, <1>8, <2>3
  <2>5. g[l[d][i]].at = f[l[d][i]].at \/ (f[l[d][i]].at \in HasTurn /\ g[l[d][i]].at \in HasTurn)
    BY <1>7, <2>2, <2>3
  <2> QED
    BY <1>4, <1>9, <2>4, <2>5
<1>13. ASSUME NEW i \in 2..Len(l[c])
       PROVE  /\ Tells(g, l[c][i]) /\ g[l[c][i]].ch = c
              /\ IF i = 2 THEN g[l[c][i]].at \in HasTurn ELSE g[l[c][i]].at = "locked"
  <2>1. i \in 1..Len(l[c]) /\ i # 1 /\ 1 \in 1..Len(l[c]) /\ 2 \in 1..Len(l[c]) /\ Len(l[c]) > 1
    BY <1>1
  <2>2. l[c][i] \in Task \ {t} /\ Tells(f, l[c][i]) /\ f[l[c][i]].ch = c /\ f[l[c][i]].at = "locked"
    BY <1>1, <1>4, <1>5, <2>1
  <2>3. i # 2 => l[c][i] # second
    BY <1>1, <1>5, <2>1
  <2>4. i = 2 => l[c][i] = second
    OBVIOUS
  <2> HIDE DEF second
  <2>5. i # 2 => g[l[c][i]].at = "locked"
    BY <1>7, <1>9, <2>2, <2>3
  <2>6. i = 2 => g[l[c][i]].at \in HasTurn
    BY <1>6, <2>1, <2>4
  <2>7. Tells(g, l[c][i]) /\ g[l[c][i]].ch = c
    BY <1>8, <2>2
  <2> QED
    BY <2>5, <2>6, <2>7
<1>14. ASSUME NEW d \in Channel, NEW i \in 1..Len(m[d])
       PROVE  /\ Tells(g, m[d][i]) /\ g[m[d][i]].ch = d
              /\ IF i = 1 THEN g[m[d][i]].at \in HasTurn ELSE g[m[d][i]].at = "locked"
  <2>1. CASE d # c
    BY <1>2, <1>12, <2>1
  <2>2. CASE d = c
    <3>1. i + 1 \in 2..Len(l[c]) /\ m[c][i] = l[c][i + 1] /\ (i + 1 = 2 <=> i = 1)
      BY <1>3, <2>2
    <3> QED
      BY <1>13, <2>2, <3>1
  <2> QED
    BY <2>1, <2>2
<1>15. ASSUME NEW d \in Channel, NEW i \in 1..Len(m[d]), NEW j \in 1..Len(m[d]), m[d][i] = m[d][j]
       PROVE  i = j
  <2>1. CASE d # c
    BY <1>2, <1>5, <1>15, <2>1
  <2>2. CASE d = c
    <3>1. i + 1 \in 1..Len(l[c]) /\ j + 1 \in 1..Len(l[c]) /\ l[c][i + 1] = l[c][j + 1]
      BY <1>3, <1>15, <2>2
    <3>2. i + 1 = j + 1
      BY <1>1, <1>5, <3>1
    <3> QED
      BY <3>2
  <2> QED
    BY <2>1, <2>2
<1>16. ASSUME NEW u \in Task, Tells(g, u) PROVE \E i \in 1..Len(m[g[u].ch]) : m[g[u].ch][i] = u
  <2>1. u # t
    BY <1>16
  <2>2. Tells(f, u) /\ g[u].ch = f[u].ch
    BY <1>8, <1>16, <2>1
  <2>3. PICK i \in 1..Len(l[f[u].ch]) : l[f[u].ch][i] = u
    BY <1>10, <2>2
  <2>4. CASE f[u].ch = c
    <3>1. i # 1
      BY <1>1, <2>1, <2>3, <2>4
    <3>2. i - 1 \in 1..Len(m[c]) /\ (i - 1) + 1 = i
      BY <1>1, <1>2, <2>3, <2>4, <3>1
    <3>3. m[c][i - 1] = u
      BY <1>3, <2>3, <2>4, <3>2
    <3> QED
      BY <2>2, <2>4, <3>2, <3>3
  <2>5. CASE f[u].ch # c
    <3>1. m[f[u].ch] = l[f[u].ch]
      BY <1>1, <2>5 DEF m
    <3> QED
      BY <2>2, <2>3, <3>1
  <2> QED
    BY <2>4, <2>5
<1> QED
  BY <1>2, <1>14, <1>15, <1>16 DEF Locks, m, c

-----------------------------------------------------------------------------
(* The tasks again: what a step leaves of them. *)

\* One task is at v now, and of the same kind and channel.
Moves(f, g, t, v) ==
  /\ AreTasks(g) /\ \A u \in Task \ {t} : g[u] = f[u]
  /\ g[t].kind = f[t].kind /\ (f[t].kind = "watch" => g[t].ch = f[t].ch) /\ g[t].at = v

\* Of the same kind, and of the same channel if it matters.
Alike(r, q) == q.kind = r.kind /\ (r.kind = "watch" => q.ch = r.ch)

LEMMA AtKeeps ==
  ASSUME NEW r, Shaped(r), NEW v
  PROVE  [r EXCEPT !.at = v].kind = r.kind /\ [r EXCEPT !.at = v].ch = r.ch
<1> DEFINE w == [r EXCEPT !.at = v]
           k == r.kind  c == r.ch  y == r.type  e == r.ev  s == r.size  f == r.found  o == r.todo  a == r.at
<1>1. r = [kind |-> k, at |-> a, ch |-> c, type |-> y, ev |-> e, size |-> s, found |-> f, todo |-> o]
  BY DEF Shaped
<1> HIDE DEF k, c, y, e, s, f, o, a
<1>2. w = [kind |-> k, at |-> v, ch |-> c, type |-> y, ev |-> e, size |-> s, found |-> f, todo |-> o]
  BY <1>1
<1> HIDE DEF w
<1>3. w.kind = k /\ w.ch = c
  BY <1>2
<1> QED
  BY <1>3 DEF w, k, c

LEMMA FoundKeeps ==
  ASSUME NEW r, Shaped(r), NEW v
  PROVE  [r EXCEPT !.found = v].kind = r.kind /\ [r EXCEPT !.found = v].ch = r.ch
<1> DEFINE w == [r EXCEPT !.found = v]
           k == r.kind  c == r.ch  y == r.type  e == r.ev  s == r.size  f == r.found  o == r.todo  a == r.at
<1>1. r = [kind |-> k, at |-> a, ch |-> c, type |-> y, ev |-> e, size |-> s, found |-> f, todo |-> o]
  BY DEF Shaped
<1> HIDE DEF k, c, y, e, s, f, o, a
<1>2. w = [kind |-> k, at |-> a, ch |-> c, type |-> y, ev |-> e, size |-> s, found |-> v, todo |-> o]
  BY <1>1
<1> HIDE DEF w
<1>3. w.kind = k /\ w.ch = c
  BY <1>2
<1> QED
  BY <1>3 DEF w, k, c

\* What a bot's event sets of its task leaves its kind alone.
LEMMA EventKeeps ==
  ASSUME NEW r, Shaped(r), NEW v
  PROVE  [r EXCEPT !.todo = v].kind = r.kind /\ [r EXCEPT !.ch = v].kind = r.kind /\ [r EXCEPT !.type = v].kind = r.kind
<1> DEFINE k == r.kind  c == r.ch  y == r.type  e == r.ev  s == r.size  f == r.found  o == r.todo  a == r.at
<1>1. r = [kind |-> k, at |-> a, ch |-> c, type |-> y, ev |-> e, size |-> s, found |-> f, todo |-> o]
  BY DEF Shaped
<1> HIDE DEF k, c, y, e, s, f, o, a
<1>2. [r EXCEPT !.todo = v].kind = k
  BY <1>1
<1>3. [r EXCEPT !.ch = v].kind = k
  BY <1>1
<1>4. [r EXCEPT !.type = v].kind = k
  BY <1>1
<1> QED
  BY <1>2, <1>3, <1>4 DEF k

LEMMA RowMoves ==
  ASSUME NEW f, AreTasks(f), NEW t \in Task, NEW r, Shaped(r), Alike(f[t], r)
  PROVE  Moves(f, [f EXCEPT ![t] = r], t, r.at)
<1>1. [f EXCEPT ![t] = r][t] = r
  BY DEF AreTasks
<1> QED
  BY <1>1, OneMoved DEF Moves, Alike

LEMMA AtMoves ==
  ASSUME NEW f, AreTasks(f), NEW t \in Task, NEW v
  PROVE  /\ Moves(f, [f EXCEPT ![t].at = v], t, v)
         /\ [f EXCEPT ![t].at = v][t].ch = f[t].ch
<1> DEFINE r == [f[t] EXCEPT !.at = v]
           g == [f EXCEPT ![t].at = v]
<1>1. Shaped(f[t])
  BY DEF AreTasks
<1>2. Shaped(r) /\ r.at = v /\ r.kind = f[t].kind /\ r.ch = f[t].ch
  BY <1>1, AtMoved, AtKeeps
<1>3. g = [f EXCEPT ![t] = r] /\ g[t] = r
  BY DEF AreTasks
<1> HIDE DEF r, g
<1>4. Moves(f, g, t, v)
  BY <1>2, <1>3, RowMoves DEF Alike
<1>5. g[t].ch = f[t].ch
  BY <1>2, <1>3
<1> QED
  BY <1>4, <1>5 DEF g

\* A task that moves on its turn, or is no watcher's.
LEMMA MovesKeeps ==
  ASSUME NEW f, NEW g, NEW t \in Task, NEW v, NEW l, Moves(f, g, t, v), Known(f), f[t].at # "none", Locks(f, l),
         f[t].kind # "watch" \/ (f[t].at \in HasTurn /\ v \in HasTurn)
  PROVE  Known(g) /\ Locks(g, l)
<1>1. Known(g)
  BY DEF Moves, Known
<1>2. \A u \in Task : Tells(f, u) <=> Tells(g, u)
  BY DEF Moves, Tells, HasTurn
<1>3. \A u \in Task : Tells(f, u) =>
        g[u].ch = f[u].ch /\ (g[u].at = f[u].at \/ (f[u].at \in HasTurn /\ g[u].at \in HasTurn))
  BY DEF Moves, Tells
<1> QED
  BY <1>1, <1>2, <1>3, LocksStay

\* A task that is none of a watcher's ends.
LEMMA EndsKeeps ==
  ASSUME NEW f, AreTasks(f), NEW t \in Task, NEW l, Known(f), Locks(f, l), f[t].kind # "watch"
  PROVE  /\ AreTasks([f EXCEPT ![t] = Ended]) /\ Known([f EXCEPT ![t] = Ended]) /\ Locks([f EXCEPT ![t] = Ended], l)
         /\ \A u \in Task \ {t} : [f EXCEPT ![t] = Ended][u] = f[u]
<1> DEFINE g == [f EXCEPT ![t] = Ended]
<1>1. AreTasks(g) /\ \A u \in Task \ {t} : g[u] = f[u]
  BY EndedShaped, OneMoved
<1>2. g[t] = Ended /\ Ended.kind = "none" /\ Ended.at = "none"
  BY DEF AreTasks, Ended
<1> HIDE DEF g
<1>3. Known(g)
  BY <1>1, <1>2 DEF Known
<1>4. \A u \in Task : Tells(f, u) <=> Tells(g, u)
  BY <1>1, <1>2 DEF Tells
<1>5. \A u \in Task : Tells(f, u) => g[u] = f[u]
  BY <1>1 DEF Tells
<1>6. Locks(g, l)
  BY <1>4, <1>5, LocksStay
<1> QED
  BY <1>1, <1>3, <1>6 DEF g

\* What the steps of a task t keep, but for the queue of those that have not begun.
StepKeeps(t) ==
  /\ AreTasks(task') /\ Known(task') /\ Locks(task', lock') /\ Queues(task', waiting', "waits")
  /\ \A u \in Task \ {t} : task[u].at = "fresh" => task'[u].at = "fresh"

LEMMA AskKeeps ==
  ASSUME TurnsInv, NEW t \in Task, NEW to, Shaped(to), Alike(task[t], to), AskSlot(t, to),
         task[t].at \notin {"none", "waits"}, task[t].kind # "watch" \/ task[t].at \in HasTurn
  PROVE  StepKeeps(t)
<1> DEFINE in == [to EXCEPT !.at = "in"]
           waits == [to EXCEPT !.at = "waits"]
<1>1. Shaped(in) /\ in.at = "in" /\ Shaped(waits) /\ waits.at = "waits" /\ Alike(task[t], in) /\ Alike(task[t], waits)
  BY AtMoved, AtKeeps DEF Alike
<1>2. \/ task' = [task EXCEPT ![t] = in] /\ waiting' = waiting
      \/ task' = [task EXCEPT ![t] = waits] /\ waiting' = Append(waiting, t)
  BY DEF AskSlot
<1>3. lock' = lock
  BY DEF AskSlot
<1> HIDE DEF in, waits
<1>4. (Moves(task, task', t, "in") /\ waiting' = waiting) \/ (Moves(task, task', t, "waits") /\ waiting' = Append(waiting, t))
  BY <1>1, <1>2, RowMoves DEF TurnsInv
<1>5. AreTasks(task') /\ Known(task') /\ Locks(task', lock)
  BY <1>4, MovesKeeps DEF TurnsInv, Moves, HasTurn
<1>6. \A u \in Task \ {t} : task'[u] = task[u]
  BY <1>4 DEF Moves
<1>7. Queues(task', waiting', "waits")
  <2>1. CASE Moves(task, task', t, "in") /\ waiting' = waiting
    BY <1>6, <2>1, QueueStays DEF TurnsInv
  <2>2. CASE Moves(task, task', t, "waits") /\ waiting' = Append(waiting, t)
    <3>1. task'[t].at = "waits"
      BY <2>2 DEF Moves
    <3> QED
      BY <1>6, <2>2, <3>1, QueueAppends DEF TurnsInv
  <2> QED
    BY <1>4, <2>1, <2>2
<1> QED
  BY <1>3, <1>5, <1>6, <1>7 DEF StepKeeps

\* The slot is given back and asked for again, with the turn kept.
LEMMA RegainKeeps ==
  ASSUME TurnsInv, NEW t \in Task, NEW to, Shaped(to), Alike(task[t], to), RegainSlot(t, to),
         task[t].at \in {"in", "running"}
  PROVE  StepKeeps(t)
<1> DEFINE in == [to EXCEPT !.at = "in"]
           waits == [to EXCEPT !.at = "waits"]
           now == [task EXCEPT ![t] = waits]
           next == [now EXCEPT ![Head(waiting)].at = "in"]
<1>1. Shaped(in) /\ in.at = "in" /\ Shaped(waits) /\ waits.at = "waits" /\ Alike(task[t], in) /\ Alike(task[t], waits)
  BY AtMoved, AtKeeps DEF Alike
<1>2. \/ waiting = <<>> /\ task' = [task EXCEPT ![t] = in] /\ waiting' = waiting
      \/ waiting # <<>> /\ task' = next /\ waiting' = Append(Tail(waiting), t)
  BY DEF RegainSlot
<1>3. lock' = lock
  BY DEF RegainSlot
<1> HIDE DEF in, waits
<1>4. CASE waiting = <<>> /\ task' = [task EXCEPT ![t] = in] /\ waiting' = waiting
  <2>1. Moves(task, task', t, "in")
    BY <1>1, <1>4, RowMoves DEF TurnsInv
  <2>2. AreTasks(task') /\ Known(task') /\ Locks(task', lock)
    BY <2>1, MovesKeeps DEF TurnsInv, Moves, HasTurn
  <2>3. \A u \in Task \ {t} : task'[u] = task[u]
    BY <2>1 DEF Moves
  <2>4. \A u \in Task : task[u].at = "waits" => task'[u].at = "waits"
    BY <2>3
  <2>5. Queues(task', waiting, "waits")
    BY <2>4, QueueStays DEF TurnsInv
  <2> QED
    BY <1>3, <1>4, <2>2, <2>3, <2>5 DEF StepKeeps
<1>5. CASE waiting # <<>> /\ task' = next /\ waiting' = Append(Tail(waiting), t)
  <2> DEFINE h == Head(waiting)
  <2>1. h \in Task /\ task[h].at = "waits"
    BY <1>5, QueueMoves DEF TurnsInv
  <2>2. h # t
    BY <2>1
  <2>3. Moves(task, now, t, "waits")
    BY <1>1, RowMoves DEF TurnsInv
  <2>4. Known(now) /\ Locks(now, lock) /\ AreTasks(now)
    BY <2>3, MovesKeeps DEF TurnsInv, Moves, HasTurn
  <2>5. now[h] = task[h]
    BY <2>1, <2>2, <2>3 DEF Moves
  <2> HIDE DEF now
  <2>6. Moves(now, next, h, "in")
    BY <2>1, <2>4, AtMoves
  <2> HIDE DEF next
  <2>7. AreTasks(next) /\ Known(next) /\ Locks(next, lock)
    BY <2>1, <2>4, <2>5, <2>6, MovesKeeps DEF Moves, HasTurn
  <2>8. next[t].at = "waits" /\ \A u \in Task \ {t, h} : next[u] = task[u]
    BY <2>2, <2>3, <2>6 DEF Moves
  <2>9. \A u \in Task \ {h} : task[u].at = "waits" => next[u].at = "waits"
    BY <2>8
  <2> HIDE DEF h
  <2>10. Queues(task, Tail(waiting), "waits") /\ Queues(next, Tail(waiting), "waits")
    BY <1>5, <2>9, QueueMoves DEF TurnsInv, h
  <2> DEFINE less == [u \in Task |-> IF u = h THEN [at |-> "in"] ELSE [at |-> task[u].at]]
  <2>11. \A u \in Task \ {h} : less[u].at = task[u].at
    OBVIOUS
  <2>12. less[h].at = "in"
    BY <2>1
  <2> HIDE DEF less
  <2>13. Queues(less, Tail(waiting), "waits")
    BY <1>5, <2>11, QueueMoves DEF TurnsInv, h
  <2>14. \A u \in Task : less[u].at = "waits" => next[u].at = "waits"
    BY <2>8, <2>11, <2>12
  <2>15. less[t].at # "waits" /\ t \in Task
    BY <2>2, <2>11
  <2>16. Queues(next, Append(Tail(waiting), t), "waits")
    BY <2>8, <2>13, <2>14, <2>15, QueueAppends
  <2>17. \A u \in Task \ {t} : task[u].at = "fresh" => next[u].at = "fresh"
    BY <2>1, <2>8
  <2> QED
    BY <1>3, <1>5, <2>7, <2>16, <2>17 DEF StepKeeps
<1> QED
  BY <1>2, <1>4, <1>5

\* What a task t that is told of is over, and the lock goes to the next of its channel, where another task may
\* just have been given the slot.
LEMMA UnlockKeeps ==
  ASSUME TurnsInv, NEW t \in Task, task[t].at \in HasTurn, NEW g, AreTasks(g), Unlocked(t, g),
         g[t].kind # "watch", g[t].kind = "none" => g[t].at = "none",
         \A u \in Task \ {t} : g[u].kind = task[u].kind /\ g[u].ch = task[u].ch,
         \A u \in Task \ {t} : g[u].at = task[u].at \/ (task[u].at = "waits" /\ g[u].at = "in")
  PROVE  /\ AreTasks(task') /\ Known(task') /\ Locks(task', lock')
         /\ \A u \in Task \ {t} : task'[u].at = g[u].at \/ (task[u].at = "locked" /\ task'[u].at = "looks")
<1>1. AreTasks(task) /\ Known(task) /\ Locks(task, lock)
  BY DEF TurnsInv
<1>2. CASE task[t].kind # "watch"
  <2>1. lock' = lock /\ task' = g
    BY <1>2 DEF Unlocked
  <2>2. \A u \in Task : Tells(task, u) <=> Tells(g, u)
    BY <1>2 DEF Tells
  <2>3. \A u \in Task : Tells(task, u) =>
          g[u].ch = task[u].ch /\ (g[u].at = task[u].at \/ (task[u].at \in HasTurn /\ g[u].at \in HasTurn))
    BY <1>2 DEF Tells, HasTurn
  <2>4. Locks(g, lock)
    BY <1>1, <2>2, <2>3, LocksStay
  <2>5. Known(g)
    BY <1>1 DEF Known
  <2> QED
    BY <2>1, <2>4, <2>5
<1>3. CASE task[t].kind = "watch"
  <2> DEFINE c == task[t].ch
             s == lock[c][2]
             next == [g EXCEPT ![s].at = "looks"]
  <2>1. c \in Channel /\ Tells(task, t)
    BY <1>1, <1>3 DEF Known, Tells, HasTurn
  <2>2. lock[c] # <<>> /\ Len(lock[c]) \in Nat \ {0} /\ lock[c][1] = t
    BY <1>1, <2>1, HasItsTurn
  <2>3. lock' = [lock EXCEPT ![c] = Tail(@)] /\ task' = IF Len(lock[c]) > 1 THEN next ELSE g
    BY <1>3, <2>2 DEF Unlocked
  <2>4. ASSUME Len(lock[c]) > 1 PROVE s \in Task \ {t} /\ task[s].at = "locked"
    <3>1. 2 \in 1..Len(lock[c]) /\ 1 \in 1..Len(lock[c])
      BY <2>2, <2>4
    <3>2. s \in Task /\ task[s].at = "locked"
      BY <1>1, <2>1, <3>1 DEF Locks
    <3> QED
      BY <3>2 DEF HasTurn
  <2> HIDE DEF s
  <2>5. ASSUME Len(lock[c]) > 1 PROVE Moves(g, next, s, "looks") /\ next[s].ch = g[s].ch
    BY <2>4, <2>5, AtMoves
  <2> HIDE DEF c, next
  <2>6. CASE Len(lock[c]) > 1
    <3>1. /\ task' = next /\ AreTasks(next) /\ next[t] = g[t] /\ next[s].at = "looks" /\ next[s].kind = g[s].kind
          /\ next[s].ch = g[s].ch /\ \A u \in Task \ {s} : next[u] = g[u]
      BY <2>3, <2>4, <2>5, <2>6 DEF Moves
    <3>2. g[s].at = "locked" /\ s \in Task \ {t} /\ task[s].at = "locked"
      BY <2>4, <2>6
    <3>3. Known(next)
      BY <1>1, <3>1, <3>2 DEF Known
    <3>4. \A u \in Task \ {t} : Tells(task, u) <=> Tells(next, u)
      BY <3>1, <3>2 DEF Tells
    <3>5. \A u \in Task \ {t} : next[u].ch = task[u].ch
      BY <3>1, <3>2
    <3>6. next[s].at \in HasTurn /\ \A u \in Task \ {t, s} :
            next[u].at = task[u].at \/ (task[u].at \in HasTurn /\ next[u].at \in HasTurn)
      BY <3>1 DEF HasTurn
    <3>7. ~Tells(next, t)
      BY <3>1 DEF Tells
    <3>8. Locks(next, [lock EXCEPT ![c] = Tail(@)])
      <4>1. next[lock[c][2]].at \in HasTurn /\ \A u \in Task \ {t} : (Len(lock[c]) > 1 => u # lock[c][2]) =>
              next[u].at = task[u].at \/ (task[u].at \in HasTurn /\ next[u].at \in HasTurn)
        BY <2>6, <3>6 DEF s
      <4> QED
        BY <1>1, <2>1, <3>4, <3>5, <3>7, <4>1, LocksPass DEF c
    <3>9. \A u \in Task \ {t} : next[u].at = g[u].at \/ (task[u].at = "locked" /\ next[u].at = "looks")
      BY <3>1, <3>2
    <3> QED
      BY <2>3, <3>1, <3>3, <3>8, <3>9
  <2>7. CASE ~(Len(lock[c]) > 1)
    <3>1. task' = g
      BY <2>3, <2>7
    <3>2. Known(g)
      BY <1>1 DEF Known
    <3>3. \A u \in Task \ {t} : Tells(task, u) <=> Tells(g, u)
      BY DEF Tells
    <3>4. \A u \in Task \ {t} : g[u].at = task[u].at \/ (task[u].at \in HasTurn /\ g[u].at \in HasTurn)
      BY DEF HasTurn
    <3>5. ~Tells(g, t)
      BY DEF Tells
    <3>6. Locks(g, [lock EXCEPT ![c] = Tail(@)])
      BY <1>1, <2>1, <2>7, <3>3, <3>4, <3>5, LocksPass DEF c
    <3> QED
      BY <2>3, <3>1, <3>2, <3>6
  <2> QED
    BY <2>6, <2>7
<1> QED
  BY <1>2, <1>3

\* Where a task goes when it has none to run any more, it tells nothing.
LEMMA AfterTells ==
  ASSUME NEW t, Shaped(task[t])
  PROVE  After(t).kind # "watch" /\ (After(t).kind = "none" => After(t).at = "none")
<1> DEFINE r == [task[t] EXCEPT !.at = "next"]
<1>1. Shaped(r) /\ r.at = "next" /\ r.kind = task[t].kind
  BY AtMoved, AtKeeps
<1>2. After(t) = IF task[t].kind = "bot" THEN [r EXCEPT !.found = <<>>] ELSE Ended
  BY DEF After
<1> HIDE DEF r
<1>3. [r EXCEPT !.found = <<>>].kind = task[t].kind
  BY <1>1, FoundKeeps
<1>4. Ended.kind = "none" /\ Ended.at = "none"
  BY DEF Ended
<1>5. CASE task[t].kind = "bot"
  <2>1. After(t).kind = "bot"
    BY <1>2, <1>3, <1>5
  <2> QED
    BY <2>1
<1>6. CASE task[t].kind # "bot"
  <2>1. After(t) = Ended
    BY <1>2, <1>6
  <2> QED
    BY <1>4, <2>1
<1> QED
  BY <1>5, <1>6

LEMMA GiveKeeps ==
  ASSUME TurnsInv, NEW t \in Task, GiveSlot(t, After(t)), task[t].at \in {"in", "running"}
  PROVE  StepKeeps(t)
<1> DEFINE to == After(t)
           h == Head(waiting)
           now == [task EXCEPT ![t] = to]
           next == [now EXCEPT ![h].at = "in"]
           g == IF waiting = <<>> THEN now ELSE next
<1>1. AreTasks(task) /\ Shaped(to) /\ to.kind # "watch" /\ (to.kind = "none" => to.at = "none")
  BY AfterShaped, AfterTells DEF TurnsInv, AreTasks
<1>2. Unlocked(t, g) /\ waiting' = IF waiting = <<>> THEN waiting ELSE Tail(waiting)
  BY DEF GiveSlot
<1> HIDE DEF to
<1>3. AreTasks(now) /\ now[t] = to /\ \A u \in Task \ {t} : now[u] = task[u]
  BY <1>1, OneMoved DEF AreTasks
<1> HIDE DEF now
<1>4. ASSUME waiting # <<>> PROVE h \in Task \ {t} /\ task[h].at = "waits"
  <2>1. h \in Task /\ task[h].at = "waits"
    BY <1>4, QueueMoves DEF TurnsInv
  <2> QED
    BY <2>1
<1>5. ASSUME waiting # <<>> PROVE Moves(now, next, h, "in") /\ next[h].ch = now[h].ch
  BY <1>3, <1>4, <1>5, AtMoves
<1> HIDE DEF next, h
<1>6. /\ AreTasks(g) /\ g[t] = to
      /\ \A u \in Task \ {t} : g[u].kind = task[u].kind /\ g[u].ch = task[u].ch
      /\ \A u \in Task \ {t} : g[u].at = task[u].at \/ (waiting # <<>> /\ u = h /\ task[u].at = "waits" /\ g[u].at = "in")
  BY <1>3, <1>4, <1>5 DEF Moves
<1> HIDE DEF g
<1>7. task[t].at \in HasTurn
  BY DEF HasTurn
<1>8. /\ AreTasks(task') /\ Known(task') /\ Locks(task', lock')
      /\ \A u \in Task \ {t} : task'[u].at = g[u].at \/ (task[u].at = "locked" /\ task'[u].at = "looks")
  BY <1>1, <1>2, <1>6, <1>7, UnlockKeeps
<1>9. Queues(task', waiting', "waits")
  <2>1. CASE waiting = <<>>
    <3>1. \A u \in Task : task[u].at = "waits" => task'[u].at = "waits"
      BY <1>6, <1>8, <2>1
    <3> QED
      BY <1>2, <2>1, <3>1, QueueStays DEF TurnsInv
  <2>2. CASE waiting # <<>>
    <3>1. \A u \in Task \ {Head(waiting)} : task[u].at = "waits" => task'[u].at = "waits"
      BY <1>6, <1>8 DEF h
    <3> QED
      BY <1>2, <2>2, <3>1, QueueMoves DEF TurnsInv
  <2> QED
    BY <2>1, <2>2
<1>10. \A u \in Task \ {t} : task[u].at = "fresh" => task'[u].at = "fresh"
  BY <1>6, <1>8
<1> QED
  BY <1>8, <1>9, <1>10 DEF StepKeeps

LEMMA OnwardKeeps ==
  ASSUME TurnsInv, NEW t \in Task, Onward(t), task[t].at \in {"in", "running"}
  PROVE  StepKeeps(t)
<1> DEFINE rest == IF task[t].found = <<>> THEN <<>> ELSE Tail(task[t].found)
           to == [task[t] EXCEPT !.found = rest]
           row == [to EXCEPT !.at = "in"]
<1>0. AreTasks(task) /\ Shaped(task[t])
  BY DEF TurnsInv, AreTasks
<1>1. \/ GiveSlot(t, After(t)) \/ RegainSlot(t, to)
      \/ task[t].kind # "watch" /\ task' = [task EXCEPT ![t].found = rest, ![t].at = "in"] /\ UNCHANGED <<lock, waiting>>
  BY DEF Onward
<1> HIDE DEF rest
<1>2. Shaped(to) /\ Alike(task[t], to)
  BY <1>0, FieldKept, FoundKeeps DEF Alike
<1>3. [task EXCEPT ![t].found = rest, ![t].at = "in"] = [task EXCEPT ![t] = row]
  BY <1>0 DEF AreTasks
<1> HIDE DEF to
<1>4. CASE GiveSlot(t, After(t))
  BY <1>4, GiveKeeps
<1>5. CASE RegainSlot(t, to)
  BY <1>2, <1>5, RegainKeeps
<1>6. CASE task[t].kind # "watch" /\ task' = [task EXCEPT ![t].found = rest, ![t].at = "in"] /\ UNCHANGED <<lock, waiting>>
  <2>1. Shaped(row) /\ row.at = "in" /\ Alike(task[t], row)
    BY <1>2, AtMoved, AtKeeps DEF Alike
  <2> HIDE DEF row
  <2>6. task' = [task EXCEPT ![t] = row] /\ task[t].kind # "watch"
    BY <1>3, <1>6
  <2>2. Moves(task, task', t, "in")
    BY <1>0, <2>1, <2>6, RowMoves
  <2>3. AreTasks(task') /\ Known(task') /\ Locks(task', lock) /\ \A u \in Task \ {t} : task'[u] = task[u]
    BY <2>2, <2>6, MovesKeeps DEF TurnsInv, Moves
  <2>4. \A u \in Task : task[u].at = "waits" => task'[u].at = "waits"
    BY <2>3
  <2>5. Queues(task', waiting, "waits")
    BY <2>4, QueueStays DEF TurnsInv
  <2> QED
    BY <1>6, <2>3, <2>5 DEF StepKeeps
<1> QED
  BY <1>1, <1>4, <1>5, <1>6

\* A task that is not one of those that have not begun leaves their queue alone.
LEMMA FreshStays ==
  ASSUME TurnsInv, NEW t \in Task, StepKeeps(t), task[t].at # "fresh", UNCHANGED <<fresh, joined>>
  PROVE  TurnsInv'
<1>1. \A u \in Task : task[u].at = "fresh" => task'[u].at = "fresh"
  BY DEF StepKeeps
<1>2. Queues(task', fresh, "fresh")
  BY <1>1, QueueStays DEF TurnsInv
<1> QED
  BY <1>2 DEF TurnsInv, StepKeeps

LEMMA BeginKeeps == ASSUME TurnsInv, NEW t \in Task, Begin(t), UNCHANGED joined PROVE TurnsInv'
<1> DEFINE to == [task[t] EXCEPT !.found = Found(t)]
<1>1. fresh # <<>> /\ t = Head(fresh) /\ fresh' = Tail(fresh)
  BY DEF Begin
<1>2. task[t].at = "fresh" /\ AreTasks(task) /\ Shaped(task[t])
  BY <1>1, QueueMoves DEF TurnsInv, AreTasks
<1>3. Shaped(to) /\ Alike(task[t], to)
  BY <1>2, FieldKept, FoundKeeps DEF Alike
<1>4. \/ task[t].kind = "watch" /\ UnderLock(t) /\ waiting' = waiting
      \/ task[t].kind # "watch" /\ AskSlot(t, to)
      \/ task[t].kind # "watch" /\ task' = [task EXCEPT ![t] = Ended] /\ UNCHANGED <<lock, waiting>>
  BY DEF Begin
<1> HIDE DEF to
<1>5. CASE task[t].kind = "watch" /\ UnderLock(t) /\ waiting' = waiting
  <2> DEFINE c == task[t].ch
             v == IF lock[c] = <<>> THEN "looks" ELSE "locked"
             g == [task EXCEPT ![t].at = v]
  <2>1. c \in Channel
    BY <1>5 DEF TurnsInv, Known
  <2>2. lock' = [lock EXCEPT ![c] = Append(@, t)] /\ task' = g
    BY <1>5 DEF UnderLock
  <2> HIDE DEF v
  <2>3. Moves(task, g, t, v) /\ g[t].ch = c
    BY <1>2, AtMoves
  <2> HIDE DEF g
  <2>4. AreTasks(g) /\ g[t].kind = "watch" /\ g[t].at = v /\ \A u \in Task \ {t} : g[u] = task[u]
    BY <1>5, <2>3 DEF Moves
  <2>5. IF lock[c] = <<>> THEN v \in HasTurn ELSE v = "locked"
    BY DEF v, HasTurn
  <2>6. ~Tells(task, t) /\ Tells(g, t)
    BY <1>2, <2>4, <2>5 DEF Tells, HasTurn
  <2> HIDE DEF c
  <2>7. Locks(g, [lock EXCEPT ![c] = Append(@, t)])
    BY <2>1, <2>3, <2>4, <2>5, <2>6, LocksJoin DEF TurnsInv
  <2>8. Known(g)
    BY <2>1, <2>3, <2>4 DEF TurnsInv, Known
  <2>9. \A u \in Task : task[u].at = "waits" => g[u].at = "waits"
    BY <1>2, <2>4
  <2>10. Queues(g, waiting, "waits")
    BY <2>9, QueueStays DEF TurnsInv
  <2>11. Queues(g, Tail(fresh), "fresh")
    BY <1>1, <2>4, QueueMoves DEF TurnsInv
  <2> QED
    BY <1>1, <1>5, <2>2, <2>4, <2>7, <2>8, <2>10, <2>11 DEF TurnsInv
<1>6. ASSUME StepKeeps(t) PROVE TurnsInv'
  <2>1. \A u \in Task \ {Head(fresh)} : task[u].at = "fresh" => task'[u].at = "fresh"
    BY <1>1, <1>6 DEF StepKeeps
  <2>2. Queues(task', Tail(fresh), "fresh")
    BY <1>1, <2>1, QueueMoves DEF TurnsInv
  <2> QED
    BY <1>1, <1>6, <2>2 DEF TurnsInv, StepKeeps
<1>7. CASE task[t].kind # "watch" /\ AskSlot(t, to)
  BY <1>2, <1>3, <1>6, <1>7, AskKeeps
<1>8. CASE task[t].kind # "watch" /\ task' = [task EXCEPT ![t] = Ended] /\ UNCHANGED <<lock, waiting>>
  <2>1. AreTasks(task') /\ Known(task') /\ Locks(task', lock) /\ \A u \in Task \ {t} : task'[u] = task[u]
    BY <1>2, <1>8, EndsKeeps DEF TurnsInv
  <2>2. \A u \in Task : task[u].at = "waits" => task'[u].at = "waits"
    BY <1>2, <2>1
  <2>3. Queues(task', waiting, "waits")
    BY <2>2, QueueStays DEF TurnsInv
  <2> QED
    BY <1>6, <1>8, <2>1, <2>3 DEF StepKeeps
<1> QED
  BY <1>4, <1>5, <1>7, <1>8

LEMMA LookKeeps == ASSUME TurnsInv, NEW t \in Task, Look(t), UNCHANGED joined PROVE TurnsInv'
<1> DEFINE to == [task[t] EXCEPT !.found = Found(t)]
           gone == [task EXCEPT ![t] = Ended]
<1>1. task[t].at = "looks" /\ fresh' = fresh /\ AreTasks(task) /\ Shaped(task[t])
  BY DEF Look, TurnsInv, AreTasks
<1>2. Shaped(to) /\ Alike(task[t], to)
  BY <1>1, FieldKept, FoundKeeps DEF Alike
<1>3. AskSlot(t, to) \/ (Unlocked(t, gone) /\ waiting' = waiting)
  BY DEF Look
<1>4. AreTasks(gone) /\ gone[t] = Ended /\ \A u \in Task \ {t} : gone[u] = task[u]
  BY <1>1, EndedShaped, OneMoved DEF AreTasks
<1> HIDE DEF to, gone
<1>5. task[t].at \in HasTurn
  BY <1>1 DEF HasTurn
<1>6. CASE AskSlot(t, to)
  BY <1>1, <1>2, <1>5, <1>6, AskKeeps, FreshStays
<1>7. CASE Unlocked(t, gone) /\ waiting' = waiting
  <2>1. gone[t].kind = "none" /\ gone[t].at = "none"
    <3>1. Ended.kind = "none" /\ Ended.at = "none"
      BY DEF Ended
    <3> QED
      BY <1>4, <3>1
  <2>2. /\ AreTasks(task') /\ Known(task') /\ Locks(task', lock')
        /\ \A u \in Task \ {t} : task'[u].at = gone[u].at \/ (task[u].at = "locked" /\ task'[u].at = "looks")
    BY <1>4, <1>5, <1>7, <2>1, UnlockKeeps
  <2>3. \A u \in Task : task[u].at = "waits" => task'[u].at = "waits"
    BY <1>1, <1>4, <2>2
  <2>4. Queues(task', waiting, "waits")
    BY <2>3, QueueStays DEF TurnsInv
  <2>5. StepKeeps(t)
    BY <1>4, <1>7, <2>2, <2>4 DEF StepKeeps
  <2> QED
    BY <1>1, <2>5, FreshStays
<1> QED
  BY <1>3, <1>6, <1>7

LEMMA NextEventKeeps == ASSUME TurnsInv, NEW t \in Task, NextEvent(t), UNCHANGED joined PROVE TurnsInv'
<1> DEFINE todo == task[t].todo
           found == Finds(todo[1][1], todo[1][2], 0)
           r1 == [task[t] EXCEPT !.todo = Tail(todo)]
           r2 == [r1 EXCEPT !.ch = todo[1][1]]
           r3 == [r2 EXCEPT !.type = todo[1][2]]
           to == [r3 EXCEPT !.found = found]
<1>1. task[t].at = "next" /\ fresh' = fresh /\ AreTasks(task) /\ Shaped(task[t])
  BY DEF NextEvent, TurnsInv, AreTasks
<1>2. task[t].kind # "watch"
  <2>1. SUFFICES ASSUME task[t].kind = "watch" PROVE FALSE
    OBVIOUS
  <2>2. Tells(task, t) /\ task[t].ch \in Channel
    BY <1>1, <2>1 DEF Tells, TurnsInv, Known
  <2>3. PICK i \in 1..Len(lock[task[t].ch]) : lock[task[t].ch][i] = t
    BY <2>2 DEF TurnsInv, Locks
  <2>4. task[t].at \in HasTurn \/ task[t].at = "locked"
    BY <2>2, <2>3 DEF TurnsInv, Locks
  <2> QED
    BY <1>1, <2>4 DEF HasTurn
<1>3. \/ task' = [task EXCEPT ![t] = Ended] /\ UNCHANGED <<lock, waiting>>
      \/ AskSlot(t, to)
      \/ task' = [task EXCEPT ![t] = to] /\ UNCHANGED <<lock, waiting>>
  BY DEF NextEvent
<1> HIDE DEF found, todo
<1>4. Shaped(r1) /\ r1.at = "next" /\ r1.kind = task[t].kind
  BY <1>1, FieldKept, EventKeeps
<1> HIDE DEF r1
<1>5. Shaped(r2) /\ r2.at = "next" /\ r2.kind = r1.kind
  BY <1>4, FieldKept, EventKeeps
<1> HIDE DEF r2
<1>6. Shaped(r3) /\ r3.at = "next" /\ r3.kind = r2.kind
  BY <1>5, FieldKept, EventKeeps
<1> HIDE DEF r3
<1>7. Shaped(to) /\ to.at = "next" /\ to.kind = r3.kind
  BY <1>6, FieldKept, FoundKeeps
<1> HIDE DEF to
<1>8. Alike(task[t], to)
  BY <1>2, <1>4, <1>5, <1>6, <1>7 DEF Alike
<1>9. ASSUME AreTasks(task'), Known(task'), Locks(task', lock), \A u \in Task \ {t} : task'[u] = task[u],
             UNCHANGED <<lock, waiting>>
      PROVE  TurnsInv'
  <2>1. \A u \in Task : task[u].at = "waits" => task'[u].at = "waits"
    BY <1>1, <1>9
  <2>2. Queues(task', waiting, "waits")
    BY <2>1, QueueStays DEF TurnsInv
  <2>3. StepKeeps(t)
    BY <1>9, <2>2 DEF StepKeeps
  <2> QED
    BY <1>1, <2>3, FreshStays
<1>10. CASE task' = [task EXCEPT ![t] = Ended] /\ UNCHANGED <<lock, waiting>>
  BY <1>1, <1>2, <1>9, <1>10, EndsKeeps DEF TurnsInv
<1>11. CASE AskSlot(t, to)
  BY <1>1, <1>2, <1>8, <1>11, <1>7, AskKeeps, FreshStays
<1>12. CASE task' = [task EXCEPT ![t] = to] /\ UNCHANGED <<lock, waiting>>
  <2>1. Moves(task, task', t, "next")
    BY <1>1, <1>8, <1>12, <1>7, RowMoves
  <2>2. AreTasks(task') /\ Known(task') /\ Locks(task', lock) /\ \A u \in Task \ {t} : task'[u] = task[u]
    BY <1>1, <1>2, <2>1, MovesKeeps DEF TurnsInv, Moves
  <2> QED
    BY <1>9, <1>12, <2>2
<1> QED
  BY <1>3, <1>10, <1>11, <1>12

LEMMA TurnKeeps == ASSUME TurnsInv, NEW t \in Task, Turn(t), UNCHANGED joined PROVE TurnsInv'
<1>1. task[t].at = "in" /\ fresh' = fresh /\ AreTasks(task)
  BY DEF Turn, TurnsInv
<1>2. Onward(t) \/ (task' = [task EXCEPT ![t].at = "running"] /\ UNCHANGED <<lock, waiting>>)
  BY DEF Turn
<1>3. CASE Onward(t)
  BY <1>1, <1>3, OnwardKeeps, FreshStays
<1>4. CASE task' = [task EXCEPT ![t].at = "running"] /\ UNCHANGED <<lock, waiting>>
  <2>1. Moves(task, task', t, "running")
    BY <1>1, <1>4, AtMoves
  <2>2. AreTasks(task') /\ Known(task') /\ Locks(task', lock) /\ \A u \in Task \ {t} : task'[u] = task[u]
    BY <1>1, <2>1, MovesKeeps DEF TurnsInv, Moves, HasTurn
  <2>3. \A u \in Task : task[u].at = "waits" => task'[u].at = "waits"
    BY <1>1, <2>2
  <2>4. Queues(task', waiting, "waits")
    BY <2>3, QueueStays DEF TurnsInv
  <2>5. StepKeeps(t)
    BY <1>4, <2>2, <2>4 DEF StepKeeps
  <2> QED
    BY <1>1, <2>5, FreshStays
<1> QED
  BY <1>2, <1>3, <1>4

LEMMA OverKeeps == ASSUME TurnsInv, NEW t \in Task, NEW raised, Over(t, raised), UNCHANGED joined PROVE TurnsInv'
<1>1. task[t].at = "running" /\ fresh' = fresh /\ (GiveSlot(t, After(t)) \/ Onward(t))
  BY DEF Over
<1>2. StepKeeps(t)
  BY <1>1, GiveKeeps, OnwardKeeps
<1> QED
  BY <1>1, <1>2, FreshStays

-----------------------------------------------------------------------------
(* New tasks. *)

LEMMA FreeCounted == IsFiniteSet(Free) /\ Cardinality(Free) \in Nat /\ (Free # {} => Cardinality(Free) >= 1)
<1>1. Free \in SUBSET Task /\ IsFiniteSet(Task)
  BY TriggerRunsAssumption DEF Free
<1>2. IsFiniteSet(Free)
  BY <1>1, FS_Subset
<1>3. Cardinality(Free) \in Nat /\ (Cardinality(Free) = 0 <=> Free = {})
  BY <1>2, FS_CardinalityType, FS_EmptySet
<1> QED
  BY <1>2, <1>3

\* With tasks enough that are free, each of the works gets one of its own.
LEMMA FreeEnough ==
  ASSUME NEW n \in Nat, n <= Cardinality(Free)
  PROVE  \E f \in [1..n -> Free] : \A i, j \in 1..n : f[i] = f[j] => i = j
<1> DEFINE m == Cardinality(Free)
<1>1. m \in Nat /\ ExistsBijection(1..m, Free)
  BY FreeCounted, FS_CardinalityType
<1>2. PICK g \in [1..m -> Free] : \A i, j \in 1..m : g[i] = g[j] => i = j
  BY <1>1 DEF ExistsBijection, Bijection, Injection, IsInjective
<1> HIDE DEF m
<1>3. \A i \in 1..n : i \in 1..m
  BY <1>1 DEF m
<1> DEFINE f == [i \in 1..n |-> g[i]]
<1>4. f \in [1..n -> Free] /\ \A i, j \in 1..n : f[i] = f[j] => i = j
  BY <1>2, <1>3
<1> QED
  BY <1>4

LEMMA SpawnKeeps ==
  ASSUME TurnsInv, joined' \subseteq Channel, NEW works, NEW n \in Nat, n <= Cardinality(Free), DOMAIN works = 1..n,
         \A i \in 1..n : Shaped(works[i]) /\ works[i].at = "fresh" /\ works[i].kind # "none"
                         /\ (works[i].kind = "watch" => works[i].ch \in Channel),
         Spawned(works)
  PROVE  TurnsInv'
<1> DEFINE ids == CHOOSE f \in [DOMAIN works -> Free] : \A i, j \in DOMAIN works : f[i] = f[j] => i = j
           its(t) == CHOOSE i \in DOMAIN works : ids[i] = t
<1>1. /\ task' = [t \in Task |-> IF \E i \in DOMAIN works : ids[i] = t THEN works[its(t)] ELSE task[t]]
      /\ fresh' = fresh \o ids /\ UNCHANGED <<lock, waiting>>
  BY DEF Spawned
<1>2. ids \in [1..n -> Free] /\ \A i, j \in 1..n : ids[i] = ids[j] => i = j
  <2>1. \E f \in [DOMAIN works -> Free] : \A i, j \in DOMAIN works : f[i] = f[j] => i = j
    BY FreeEnough
  <2>2. ids \in [DOMAIN works -> Free] /\ \A i, j \in DOMAIN works : ids[i] = ids[j] => i = j
    BY <2>1, Zenon
  <2> QED
    BY <2>2
<1>3. \A t : (\E i \in DOMAIN works : ids[i] = t) => its(t) \in 1..n /\ ids[its(t)] = t
  OBVIOUS
<1> HIDE DEF ids, its
<1>4. \A i \in 1..n : ids[i] \in Task /\ task[ids[i]].kind = "none" /\ task[ids[i]].at = "none"
  BY <1>2 DEF Free, TurnsInv, Known
<1>5. ASSUME NEW t \in Task, \A i \in 1..n : ids[i] # t PROVE task'[t] = task[t]
  BY <1>1, <1>5
<1>6. ASSUME NEW t \in Task, NEW i \in 1..n, ids[i] = t
      PROVE  /\ Shaped(task'[t]) /\ task'[t].at = "fresh" /\ task'[t].kind # "none"
             /\ task'[t].kind = "watch" => task'[t].ch \in Channel
             /\ task[t].kind = "none" /\ task[t].at = "none"
  <2>1. task'[t] = works[its(t)] /\ its(t) \in 1..n
    BY <1>1, <1>3, <1>6
  <2> QED
    BY <1>4, <1>6, <2>1
<1>7. AreTasks(task')
  <2>1. \A t \in Task : Shaped(task'[t])
    BY <1>5, <1>6 DEF TurnsInv, AreTasks
  <2> QED
    BY <1>1, <2>1 DEF AreTasks
<1>8. Known(task')
  BY <1>5, <1>6 DEF TurnsInv, Known
<1>9. \A t \in Task : (Tells(task, t) <=> Tells(task', t)) /\ (Tells(task, t) => task'[t] = task[t])
  BY <1>5, <1>6 DEF Tells
<1>10. Locks(task', lock)
  BY <1>9, LocksStay DEF TurnsInv
<1>11. \A t \in Task : (task[t].at = "waits" => task'[t].at = "waits") /\ (task[t].at = "fresh" => task'[t].at = "fresh")
  BY <1>5, <1>6
<1>12. Queues(task', waiting, "waits")
  BY <1>11, QueueStays DEF TurnsInv
<1>13. ids \in Seq(Task) /\ Len(ids) = n
  BY <1>2, <1>4
<1>14. \A i \in 1..Len(ids) : task[ids[i]].at # "fresh" /\ task'[ids[i]].at = "fresh"
  BY <1>4, <1>6, <1>13
<1>15. Queues(task', fresh \o ids, "fresh")
  <2>1. Queues(task, fresh, "fresh") /\ \A t \in Task : task[t].at = "fresh" => task'[t].at = "fresh"
    BY <1>11 DEF TurnsInv
  <2>2. \A i, j \in 1..Len(ids) : ids[i] = ids[j] => i = j
    BY <1>2, <1>13
  <2> QED
    BY <1>13, <1>14, <2>1, <2>2, QueueJoins
<1> QED
  BY <1>1, <1>7, <1>8, <1>10, <1>12, <1>15 DEF TurnsInv

-----------------------------------------------------------------------------
(* What happens. *)

LEMMA WorkIs ==
  ASSUME NEW kind, NEW c, NEW type, NEW ev, NEW size
  PROVE  Work(kind, c, type, ev, size).kind = kind /\ Work(kind, c, type, ev, size).ch = c
  BY DEF Work

LEMMA LineKeeps == ASSUME TurnsInv, NEW l, ChatLine(l) PROVE TurnsInv'
<1> DEFINE Fits(w) == Shaped(w) /\ w.at = "fresh" /\ w.kind # "none" /\ (w.kind = "watch" => w.ch \in Channel)
<1>1. PICK e : Spawned((IF e = NoEvent THEN <<>> ELSE <<Work("watch", l.ch, "pyramid", e, 0)>>) \o OfLine(l))
  BY DEF ChatLine
<1> DEFINE event == IF e = NoEvent THEN <<>> ELSE <<Work("watch", l.ch, "pyramid", e, 0)>>
           line == OfLine(l)
           works == event \o line
<1>2. l.ch \in Channel /\ Cardinality(Free) >= 2 /\ joined' \subseteq Channel
  BY DEF ChatLine, TurnsInv, settingVars
<1>3. line = <<>> \/ \E w : line = <<w>> /\ Fits(w)
  <2>1. Fits(Work("command", l.ch, "command", NoEvent, 0))
    BY WorkShaped, WorkIs
  <2>2. Fits(Work("listen", l.ch, "listener", [NoEvent EXCEPT !.user = l.who], l.width))
    BY WorkShaped, WorkIs
  <2> HIDE DEF Fits
  <2> QED
    BY <2>1, <2>2 DEF OfLine
<1>4. event = <<>> \/ \E w : event = <<w>> /\ Fits(w)
  <2>1. Fits(Work("watch", l.ch, "pyramid", e, 0))
    BY <1>2, WorkShaped, WorkIs
  <2> HIDE DEF Fits
  <2> QED
    BY <2>1
<1> HIDE DEF event, line, Fits
<1>5. \E n \in 0..2 : DOMAIN works = 1..n /\ \A i \in 1..n : Fits(works[i])
  <2>1. CASE event = <<>> /\ line = <<>>
    <3>1. works = <<>>
      BY <2>1
    <3>2. DOMAIN works = 1..0
      BY <3>1
    <3> QED
      BY <3>2
  <2>2. CASE event = <<>> /\ line # <<>>
    <3>1. PICK w : line = <<w>> /\ Fits(w)
      BY <1>3, <2>2
    <3>2. works = <<w>>
      BY <2>2, <3>1
    <3>3. DOMAIN works = 1..1 /\ works[1] = w
      BY <3>2
    <3> QED
      BY <3>1, <3>3
  <2>3. CASE event # <<>> /\ line = <<>>
    <3>1. PICK w : event = <<w>> /\ Fits(w)
      BY <1>4, <2>3
    <3>2. works = <<w>>
      BY <2>3, <3>1
    <3>3. DOMAIN works = 1..1 /\ works[1] = w
      BY <3>2
    <3> QED
      BY <3>1, <3>3
  <2>4. CASE event # <<>> /\ line # <<>>
    <3>1. PICK w, v : event = <<w>> /\ line = <<v>> /\ Fits(w) /\ Fits(v)
      BY <1>3, <1>4, <2>4
    <3>2. works = <<w>> \o <<v>>
      BY <3>1
    <3>3. DOMAIN (<<w>> \o <<v>>) = 1..2
      OBVIOUS
    <3>4. (<<w>> \o <<v>>)[1] = w
      OBVIOUS
    <3>5. (<<w>> \o <<v>>)[2] = v
      OBVIOUS
    <3> HIDE DEF works
    <3>6. DOMAIN works = 1..2 /\ works[1] = w /\ works[2] = v
      BY <3>2, <3>3, <3>4, <3>5
    <3> QED
      BY <3>1, <3>6
  <2> QED
    BY <2>1, <2>2, <2>3, <2>4
<1>6. PICK n \in 0..2 : DOMAIN works = 1..n /\ \A i \in 1..n : Fits(works[i])
  BY <1>5
<1>7. n \in Nat /\ n <= Cardinality(Free)
  BY <1>2, FreeCounted
<1>8. Spawned(works)
  BY <1>1 DEF event, line
<1> HIDE DEF works
<1> QED
  BY <1>2, <1>6, <1>7, <1>8, SpawnKeeps DEF Fits

LEMMA NoticeKeeps == ASSUME TurnsInv, NEW c, NEW size, Notification(c, size) PROVE TurnsInv'
<1> DEFINE w == Work("notice", c, "raid", [NoEvent EXCEPT !.user = "raider"], size)
<1>1. Spawned(<<w>>) /\ Free # {} /\ joined' \subseteq Channel
  BY DEF Notification, TurnsInv, settingVars
<1>2. Shaped(w) /\ w.at = "fresh" /\ w.kind = "notice"
  BY WorkShaped, WorkIs
<1> HIDE DEF w
<1>3. 1 <= Cardinality(Free)
  BY <1>1, FreeCounted
<1>4. DOMAIN <<w>> = 1..1 /\ \A i \in 1..1 : <<w>>[i] = w
  OBVIOUS
<1> QED
  BY <1>1, <1>2, <1>3, <1>4, SpawnKeeps

\* Nothing but what the invariant does not speak of.
LEMMA TurnsStay == ASSUME TurnsInv, joined' \subseteq Channel, UNCHANGED <<task, queueVars>> PROVE TurnsInv'
  BY DEF TurnsInv, queueVars

LEMMA PollKeeps == ASSUME TurnsInv, NEW live, NEW failed, PollEnds(live, failed) PROVE TurnsInv'
<1> DEFINE heard == Changed(live) \cap joined
           works == {Work("stream", c, IF c \in live THEN "stream_online" ELSE "stream_offline", NoEvent, 0) : c \in heard}
           n == Cardinality(heard)
<1>1. joined' \subseteq Channel
  BY DEF PollEnds, TurnsInv, settingVars
<1>2. \/ UNCHANGED <<task, queueVars>>
      \/ Cardinality(Free) >= n /\ \E order \in [1..n -> works] : Spawned(order)
  BY DEF PollEnds
<1>3. CASE UNCHANGED <<task, queueVars>>
  BY <1>1, <1>3, TurnsStay
<1>4. CASE Cardinality(Free) >= n /\ \E order \in [1..n -> works] : Spawned(order)
  <2>1. PICK order \in [1..n -> works] : Spawned(order)
    BY <1>4
  <2>2. \A w \in works : Shaped(w) /\ w.at = "fresh" /\ w.kind = "stream"
    BY WorkShaped, WorkIs
  <2>3. n \in Nat
    <3>1. heard \in SUBSET Channel /\ IsFiniteSet(Channel)
      BY TriggerRunsAssumption DEF TurnsInv
    <3> HIDE DEF heard
    <3> QED
      BY <3>1, FS_Subset, FS_CardinalityType
  <2> HIDE DEF works, n
  <2>4. DOMAIN order = 1..n /\ n <= Cardinality(Free)
    BY <1>4, <2>3, FreeCounted
  <2>5. \A i \in 1..n : Shaped(order[i]) /\ order[i].at = "fresh" /\ order[i].kind # "none" /\ order[i].kind # "watch"
    BY <2>2
  <2> QED
    BY <1>1, <2>1, <2>3, <2>4, <2>5, SpawnKeeps
<1> QED
  BY <1>2, <1>3, <1>4

LEMMA BotKeeps == ASSUME TurnsInv, joined' \subseteq Channel, NEW todo, BotCall(todo) PROVE TurnsInv'
<1> DEFINE w == Work("bot", "", "", NoEvent, 0)
           r == [w EXCEPT !.at = "next"]
           q == [r EXCEPT !.todo = todo]
<1>1. PICK t \in Free : task' = [task EXCEPT ![t] = q]
  BY DEF BotCall
<1>2. UNCHANGED <<fresh, lock, waiting>>
  BY DEF BotCall, queueVars
<1>3. Shaped(r) /\ r.at = "next" /\ r.kind = "bot"
  <2>1. Shaped(w)
    BY WorkShaped
  <2>2. w.kind = "bot"
    BY DEF Work
  <2> HIDE DEF w
  <2> QED
    BY <2>1, <2>2, AtMoved, AtKeeps
<1> HIDE DEF r
<1>4. Shaped(q) /\ q.at = "next" /\ q.kind = "bot"
  BY <1>3, FieldKept, EventKeeps
<1> HIDE DEF q
<1>5. t \in Task /\ task[t].kind = "none" /\ task[t].at = "none"
  BY DEF Free, TurnsInv, Known
<1>6. AreTasks(task') /\ task'[t] = q /\ \A u \in Task \ {t} : task'[u] = task[u]
  BY <1>1, <1>4, <1>5, OneMoved DEF TurnsInv, AreTasks
<1>7. Known(task')
  BY <1>4, <1>6 DEF TurnsInv, Known
<1>8. \A u \in Task : (Tells(task, u) <=> Tells(task', u)) /\ (Tells(task, u) => task'[u] = task[u])
  BY <1>4, <1>5, <1>6 DEF Tells
<1>9. Locks(task', lock)
  BY <1>8, LocksStay DEF TurnsInv
<1>10. \A u \in Task : (task[u].at = "waits" => task'[u].at = "waits") /\ (task[u].at = "fresh" => task'[u].at = "fresh")
  BY <1>5, <1>6
<1>11. Queues(task', waiting, "waits")
  BY <1>10, QueueStays DEF TurnsInv
<1>12. Queues(task', fresh, "fresh")
  BY <1>10, QueueStays DEF TurnsInv
<1> QED
  BY <1>2, <1>6, <1>7, <1>9, <1>11, <1>12 DEF TurnsInv

-----------------------------------------------------------------------------

LEMMA TurnsInit == EventsInit => TurnsInv
<1> SUFFICES ASSUME EventsInit PROVE TurnsInv
  OBVIOUS
<1>1. /\ task = [t \in Task |-> Ended] /\ lock = [c \in Channel |-> <<>>] /\ joined = Channel
      /\ waiting = <<>> /\ fresh = <<>>
  BY DEF EventsInit
<1>2. \A t \in Task : task[t] = Ended /\ ~Tells(task, t)
  BY <1>1 DEF Tells, Ended
<1>3. AreTasks(task) /\ Known(task)
  BY <1>1, <1>2, EndedShaped DEF AreTasks, Known, Ended
<1>4. Locks(task, lock)
  <2>1. lock \in [Channel -> Seq(Task)] /\ \A c \in Channel : Len(lock[c]) = 0
    BY <1>1
  <2> QED
    BY <1>2, <2>1 DEF Locks
<1>5. Queues(task, waiting, "waits") /\ Queues(task, fresh, "fresh")
  BY <1>1 DEF Queues
<1> QED
  BY <1>1, <1>3, <1>4, <1>5 DEF TurnsInv

LEMMA TurnsNext == ASSUME TurnsInv, EventsNext PROVE TurnsInv'
<1>1. ASSUME NEW l, ChatLine(l) PROVE TurnsInv'
  BY <1>1, LineKeeps
<1>2. ASSUME NEW c, NEW size, Notification(c, size) PROVE TurnsInv'
  BY <1>2, NoticeKeeps
<1>3. ASSUME NEW live, NEW failed, PollEnds(live, failed) PROVE TurnsInv'
  BY <1>3, PollKeeps
<1>4. ASSUME NEW updated, Online(updated) PROVE TurnsInv'
  <2>1. joined' = joined /\ \E todo : BotCall(todo)
    BY <1>4 DEF Online, settingVars
  <2>2. joined' \subseteq Channel
    BY <2>1 DEF TurnsInv
  <2> QED
    BY <2>1, <2>2, BotKeeps
<1>5. ASSUME NEW c \in Channel, NEW type, OneEvent(c, type) PROVE TurnsInv'
  <2>1. joined' = joined \cup {c} /\ \E todo : BotCall(todo)
    BY <1>5 DEF OneEvent
  <2>2. joined' \subseteq Channel
    BY <2>1 DEF TurnsInv
  <2> QED
    BY <2>1, <2>2, BotKeeps
<1>6. ASSUME NEW t \in Task, Steps(t), UNCHANGED joined PROVE TurnsInv'
  BY <1>6, BeginKeeps, LookKeeps, NextEventKeeps, TurnKeeps, OverKeeps DEF Steps
<1>7. ASSUME NEW c, Parted(c) PROVE TurnsInv'
  BY <1>7, TurnsStay DEF Parted, TurnsInv
<1>8. ASSUME NEW c, ModuleTurned(c) PROVE TurnsInv'
  BY <1>8, TurnsStay DEF ModuleTurned, TurnsInv
<1>9. ASSUME NEW x, Turned(x) PROVE TurnsInv'
  BY <1>9, TurnsStay DEF Turned, TurnsInv
<1>10. ASSUME PollBegins \/ TimePasses PROVE TurnsInv'
  BY <1>10, TurnsStay DEF PollBegins, TimePasses, TurnsInv, settingVars
<1>11. ASSUME NEW t \in Task, Steps(t) /\ UNCHANGED <<settingVars, open, streamVars, greeted, seen>> PROVE TurnsInv'
  BY <1>6, <1>11 DEF settingVars
<1> QED
  BY <1>1, <1>2, <1>3, <1>4, <1>5, <1>7, <1>8, <1>9, <1>10, <1>11 DEF EventsNext

\* Who tells has the turn.
LEMMA OneTells == TurnsInv => \A c \in Channel : OneAtATime(c)
<1> SUFFICES ASSUME TurnsInv, NEW c \in Channel, NEW t \in TalesToTell(c), NEW u \in TalesToTell(c),
                    task[t].at = "running", task[u].at = "running"
             PROVE  t = u
  BY DEF OneAtATime
<1>1. /\ t \in Task /\ Tells(task, t) /\ task[t].ch = c /\ task[t].at \in HasTurn
      /\ u \in Task /\ Tells(task, u) /\ task[u].ch = c /\ task[u].at \in HasTurn
  BY DEF TalesToTell, Tells, HasTurn
<1>2. lock[c][1] = t
  BY <1>1, HasItsTurn DEF TurnsInv
<1>3. lock[c][1] = u
  BY <1>1, HasItsTurn DEF TurnsInv
<1> QED
  BY <1>2, <1>3

\* No two runs for the events of one channel's watcher go on at once (_watch_triggers holds the channel's lock
\* from its lookup to its last run), for every number of channels, tasks and slots and every set of triggers.
THEOREM WatchersInTurn == TriggersSpec => [](\A c \in Channel : OneAtATime(c))
<1>1. TriggersInit => TurnsInv
  BY TurnsInit DEF TriggersInit
<1>2. TurnsInv /\ [TriggersNext]_<<timersVars, eventsVars>> => TurnsInv'
  <2> SUFFICES ASSUME TurnsInv, [TriggersNext]_<<timersVars, eventsVars>> PROVE TurnsInv'
    OBVIOUS
  <2>1. CASE EventsNext
    BY <2>1, TurnsNext
  <2>2. CASE UNCHANGED eventsVars
    BY <2>2, TurnsStay DEF eventsVars, settingVars, TurnsInv
  <2> QED
    BY <2>1, <2>2 DEF TriggersNext
<1>3. TurnsInv => \A c \in Channel : OneAtATime(c)
  BY OneTells
<1> QED
  BY <1>1, <1>2, <1>3, PTL DEF TriggersSpec

-----------------------------------------------------------------------------
(* What a channel's lines have to tell, and what its watcher makes of them *)
(* one line at a time. The lines at which pyramids begin are fixed by the  *)
(* lines, so one line more adds at most one to them; the one pyramid that  *)
(* is not over is what the watcher holds (Follows).                        *)

\* A channel's lines, and the same with one more.
AreLines(s) == Len(s) \in Nat /\ \A i \in 1..Len(s) : s[i].width \in Nat
Longer(s, z) == Len(z) = Len(s) + 1 /\ \A i \in 1..Len(s) : z[i] = s[i]

\* A set of numbers has a least one.
LEMMA Least == ASSUME NEW T, T \subseteq Nat, T # {} PROVE \E n \in T : \A k \in T : n <= k
<1> DEFINE R == OpToRel(<, Nat)
<1>1. IsWellFoundedOn(R, Nat)
  BY NatLessThanWellFounded
<1>2. \A x, y \in Nat : x < y => <<x, y>> \in R
  BY DEF OpToRel
<1> HIDE DEF R
<1>3. PICK n \in T : \A k \in T : ~(<<k, n>> \in R)
  BY <1>1, WFMin
<1>4. ASSUME NEW k \in T PROVE n <= k
  <2>1. k \in Nat /\ n \in Nat /\ ~(k < n)
    BY <1>2, <1>3
  <2> QED
    BY <2>1
<1> QED
  BY <1>4

\* Which lines are firsts follows from the lines.
LEMMA OneFirsts ==
  ASSUME NEW s, Len(s) \in Nat, NEW a \in SUBSET (1..Len(s)), NEW b \in SUBSET (1..Len(s)), AreFirsts(s, a), AreFirsts(s, b)
  PROVE  a = b
<1> DEFINE d == {j \in 1..Len(s) : (j \in a) # (j \in b)}
<1>1. SUFFICES ASSUME d # {} PROVE FALSE
  OBVIOUS
<1>2. d \subseteq Nat
  OBVIOUS
<1> HIDE DEF d
<1>3. PICK j \in d : \A k \in d : j <= k
  BY <1>1, <1>2, Least
<1>4. j \in 1..Len(s) /\ (j \in a) # (j \in b)
  BY DEF d
<1>5. \A k \in 1..Len(s) : k < j => (k \in a <=> k \in b)
  BY <1>3, <1>4 DEF d
<1>6. (\A k \in a : k < j => ~Rows(s, k, j)) <=> (\A k \in b : k < j => ~Rows(s, k, j))
  BY <1>5
<1>7. j \in a <=> j \in b
  BY <1>4, <1>6 DEF AreFirsts
<1> QED
  BY <1>4, <1>7

LEMMA FirstsAre ==
  ASSUME NEW s, Len(s) \in Nat, NEW a \in SUBSET (1..Len(s)), AreFirsts(s, a)
  PROVE  Firsts(s) = a
<1>1. Firsts(s) \in SUBSET (1..Len(s)) /\ AreFirsts(s, Firsts(s))
  BY DEF Firsts
<1> QED
  BY <1>1, OneFirsts

\* What stands up to a line stood up to each line before it, where it was not over.
LEMMA RowsBefore ==
  ASSUME NEW s, NEW j \in Nat, NEW k \in Nat, NEW n \in Nat, j <= k, k < n, Rows(s, j, n)
  PROVE  Unfinished(s, j, k)
<1>1. PICK peak \in j..n : Stands(s, j, peak, n)
  BY DEF Rows
<1>2. CASE peak <= k
  <2>1. Stands(s, j, peak, k)
    BY <1>1, <1>2 DEF Stands
  <2>2. s[k].width = peak - j + 1 - (k - peak) /\ s[k + 1].width = peak - j + 1 - (k + 1 - peak) /\ s[k + 1].width > 0
    BY <1>1, <1>2 DEF Stands
  <2> QED
    BY <1>2, <2>1, <2>2 DEF Rows, Unfinished
<1>3. CASE peak > k
  <2>1. Stands(s, j, k, k)
    BY <1>1, <1>3 DEF Stands
  <2>2. s[k].width = k - j + 1
    BY <1>1, <1>3 DEF Stands
  <2> QED
    BY <2>1, <2>2 DEF Rows, Unfinished
<1> QED
  BY <1>2, <1>3

\* What stood of the lines there were stands still.
LEMMA RowsSame ==
  ASSUME NEW s, NEW z, Len(s) \in Nat, Longer(s, z), NEW j \in 1..Len(s), NEW i \in 1..Len(s)
  PROVE  (Rows(z, j, i) <=> Rows(s, j, i)) /\ (Unfinished(z, j, i) <=> Unfinished(s, j, i))
<1>1. \A k \in j..i : z[k] = s[k]
  BY DEF Longer
<1>2. z[i] = s[i] /\ z[j] = s[j]
  BY DEF Longer
<1>3. \A peak \in j..i : Stands(z, j, peak, i) <=> Stands(s, j, peak, i)
  BY <1>1, <1>2 DEF Stands
<1>4. Rows(z, j, i) <=> Rows(s, j, i)
  BY <1>3 DEF Rows
<1> QED
  BY <1>2, <1>4 DEF Unfinished

\* A line more begins a pyramid or none, and leaves those that were.
LEMMA FirstsGrow ==
  ASSUME NEW s, NEW z, Len(s) \in Nat, Longer(s, z), NEW a \in SUBSET (1..Len(s)), AreFirsts(s, a),
         NEW b \in SUBSET (1..Len(z)), b \cap (1..Len(s)) = a,
         Len(z) \in b <=> /\ z[Len(z)].width = 1 /\ z[Len(z)].who # Bot
                          /\ \A k \in a : ~Rows(z, k, Len(z))
  PROVE  AreFirsts(z, b) /\ Firsts(z) = b
<1>1. Len(z) \in Nat /\ Len(z) = Len(s) + 1
  BY DEF Longer
<1>2. ASSUME NEW j \in 1..Len(s)
      PROVE  j \in b <=> z[j].width = 1 /\ z[j].who # Bot /\ \A k \in b : k < j => ~Rows(z, k, j)
  <2>1. z[j] = s[j] /\ (j \in b <=> j \in a)
    BY DEF Longer
  <2>2. \A k \in b : k < j => k \in a
    BY <1>1
  <2>3. \A k \in a : k < j => (Rows(z, k, j) <=> Rows(s, k, j))
    BY RowsSame
  <2>4. (\A k \in b : k < j => ~Rows(z, k, j)) <=> (\A k \in a : k < j => ~Rows(s, k, j))
    BY <2>2, <2>3
  <2> QED
    BY <2>1, <2>4 DEF AreFirsts
<1>3. \A k \in b : k < Len(z) <=> k \in a
  BY <1>1
<1>4. AreFirsts(z, b)
  <2>1. (\A k \in b : k < Len(z) => ~Rows(z, k, Len(z))) <=> (\A k \in a : ~Rows(z, k, Len(z)))
    BY <1>1, <1>3
  <2>2. \A j \in 1..Len(z) : j \in 1..Len(s) \/ j = Len(z)
    BY <1>1
  <2> QED
    BY <1>2, <2>1, <2>2 DEF AreFirsts
<1> QED
  BY <1>1, <1>4, FirstsAre

\* The pyramid that the lines s leave standing, as its watcher has it.
Standing(p, s) ==
  LET n == Len(s)  top == p.id + p.peak - 1 IN
  /\ p.id \in Firsts(s) /\ p.peak \in Nat \ {0} /\ top <= n /\ Stands(s, p.id, top, n)
  /\ p = [id |-> p.id, builder |-> s[p.id].who, token |-> s[p.id].token, width |-> s[n].width, peak |-> p.peak,
          falling |-> top < n]
  /\ p.id = n \/ s[n].width > 1

\* What the watcher holds is the one pyramid that is not over.
Follows(p, s) ==
  /\ Firsts(s) \in SUBSET (1..Len(s)) /\ AreFirsts(s, Firsts(s))
  /\ \A j \in Firsts(s) : Unfinished(s, j, Len(s)) => p.id = j
  /\ p = NoPyramid \/ Standing(p, s)

Same(p, l) == p # NoPyramid /\ l.who = p.builder /\ l.width > 0 /\ l.token = p.token
Rises(p, l) == Same(p, l) /\ ~p.falling /\ l.width = p.width + 1
Falls(p, l) == Same(p, l) /\ p.peak >= 2 /\ l.width = p.width - 1

LEMMA NoneIs == NoPyramid.id = 0 /\ NoPyramid.width = 0 /\ NoPyramid.peak = 0
  BY DEF NoPyramid

\* The watcher's record of what stands has its rows.
LEMMA StandingIs ==
  ASSUME NEW p, NEW s, AreLines(s), Firsts(s) \in SUBSET (1..Len(s)), Standing(p, s)
  PROVE  /\ Len(s) \in Nat \ {0} /\ p.id \in 1..Len(s) /\ p # NoPyramid
         /\ p.peak \in Nat \ {0} /\ p.id + p.peak - 1 <= Len(s) /\ Stands(s, p.id, p.id + p.peak - 1, Len(s))
         /\ p.width = s[Len(s)].width /\ p.width \in Nat \ {0}
         /\ p.builder = s[p.id].who /\ p.token = s[p.id].token
         /\ p.falling <=> p.id + p.peak - 1 < Len(s)
         /\ p.peak >= 2 <=> p.id < Len(s)
<1> DEFINE n == Len(s)
           j == p.id
           k == p.peak
<1>1. j \in 1..n /\ n \in Nat \ {0} /\ k \in Nat \ {0} /\ j + k - 1 <= n /\ Stands(s, j, j + k - 1, n)
  BY DEF Standing, AreLines
<1>2. p = [id |-> j, builder |-> s[j].who, token |-> s[j].token, width |-> s[n].width, peak |-> k, falling |-> j + k - 1 < n]
  BY DEF Standing
<1> HIDE DEF n, j, k
<1>3. p.width = s[n].width /\ p.builder = s[j].who /\ p.token = s[j].token /\ p.falling = (j + k - 1 < n)
  BY <1>2
<1>7. p.falling <=> j + k - 1 < n
  BY <1>3
<1>4. p # NoPyramid
  BY <1>1, NoneIs DEF j
<1>5. s[n].width > 0 /\ s[n].width \in Nat
  <2>1. n \in j..n /\ n \in 1..n
    BY <1>1
  <2>2. s[n].width > 0
    BY <1>1, <2>1 DEF Stands
  <2>3. s[n].width \in Nat
    BY <2>1 DEF AreLines, n
  <2> QED
    BY <2>2, <2>3
<1>6. k >= 2 <=> j < n
  BY <1>1 DEF Stands
<1> QED
  BY <1>1, <1>3, <1>4, <1>5, <1>6, <1>7 DEF n, j, k

\* A line more carries it on in one of two ways, or in none.
LEMMA Carries ==
  ASSUME NEW p, NEW s, NEW z, AreLines(s), AreLines(z), Longer(s, z), Firsts(s) \in SUBSET (1..Len(s)), Standing(p, s)
  PROVE  /\ Rises(p, z[Len(z)]) => Stands(z, p.id, Len(z), Len(z))
         /\ Falls(p, z[Len(z)]) => Stands(z, p.id, p.id + p.peak - 1, Len(z))
         /\ Rows(z, p.id, Len(z)) <=> Rises(p, z[Len(z)]) \/ Falls(p, z[Len(z)])
<1> DEFINE n == Len(s)
           m == Len(z)
           l == z[Len(z)]
           j == p.id
           top == p.id + p.peak - 1
           w == p.width
<1>0. /\ n \in Nat \ {0} /\ j \in 1..n /\ p # NoPyramid
      /\ p.peak \in Nat \ {0} /\ top <= n /\ Stands(s, j, top, n)
      /\ w = s[n].width /\ w \in Nat \ {0} /\ p.builder = s[j].who /\ p.token = s[j].token
      /\ p.falling <=> top < n
  BY StandingIs
<1>1. m = n + 1 /\ top \in j..n /\ p.peak = top - j + 1
  BY <1>0 DEF Longer
<1>2. \A k \in j..n : /\ z[k] = s[k] /\ s[k].who = s[j].who /\ s[k].token = s[j].token /\ s[k].width > 0
                      /\ s[k].width = IF k <= top THEN k - j + 1 ELSE top - j + 1 - (k - top)
                      /\ k > top => top > j
  BY <1>0, <1>1 DEF Stands, Longer
<1>3. s[j] = z[j] /\ z[m] = l /\ l.width \in Nat
  <2>0. n \in Nat \ {0} /\ m = n + 1
    BY <1>0, <1>1
  <2> HIDE DEF n, m
  <2>1. m \in 1..m
    BY <2>0
  <2> USE DEF n, m
  <2>2. s[j] = z[j]
    BY <1>0 DEF Longer
  <2>3. l.width \in Nat
    BY <2>1 DEF AreLines
  <2> QED
    BY <2>2, <2>3
<1>4. w = IF n <= top THEN n - j + 1 ELSE top - j + 1 - (n - top)
  BY <1>0, <1>1, <1>2
<1> HIDE DEF n, m, l, j, top, w
<1>5. ASSUME Rises(p, l) PROVE Stands(z, j, m, m)
  <2>1. l.who = z[j].who /\ l.token = z[j].token /\ l.width > 0 /\ n = top /\ l.width = m - j + 1
    <3>1. l.who = p.builder /\ l.token = p.token /\ l.width > 0 /\ ~p.falling /\ l.width = w + 1
      BY <1>5 DEF Rises, Same, w
    <3> QED
      BY <1>0, <1>1, <1>3, <1>4, <3>1
  <2>2. \A k \in j..m : k \in j..n \/ k = m
    BY <1>0, <1>1
  <2>3. ASSUME NEW k \in j..m
        PROVE  z[k].who = z[j].who /\ z[k].token = z[j].token /\ z[k].width > 0 /\ z[k].width = k - j + 1 /\ k <= m
    <3>1. CASE k \in j..n
      <4>1. z[k] = s[k] /\ s[k].who = s[j].who /\ s[k].token = s[j].token /\ s[k].width > 0 /\ (k <= top => s[k].width = k - j + 1)
        BY <1>2, <3>1
      <4>2. k <= top /\ k <= m
        BY <1>0, <1>1, <2>1, <3>1
      <4> QED
        BY <1>3, <4>1, <4>2
    <3>2. CASE k = m
      BY <1>0, <1>1, <1>3, <2>1, <3>2
    <3> QED
      BY <2>2, <3>1, <3>2
  <2> QED
    BY <1>0, <1>1, <2>3 DEF Stands
<1>6. ASSUME Falls(p, l) PROVE Stands(z, j, top, m)
  <2>1. l.who = z[j].who /\ l.token = z[j].token /\ l.width > 0 /\ top > j /\ l.width = w - 1
    BY <1>0, <1>1, <1>3, <1>6 DEF Falls, Same, w
  <2>2. \A k \in j..m : k \in j..n \/ k = m
    BY <1>0, <1>1
  <2>3. l.width = top - j + 1 - (m - top)
    BY <1>0, <1>1, <1>4, <2>1
  <2>4. ASSUME NEW k \in j..m
        PROVE  /\ z[k].who = z[j].who /\ z[k].token = z[j].token /\ z[k].width > 0
               /\ z[k].width = IF k <= top THEN k - j + 1 ELSE top - j + 1 - (k - top)
               /\ k > top => top > j
    <3>1. CASE k \in j..n
      <4>1. z[k] = s[k] /\ s[k].who = s[j].who /\ s[k].token = s[j].token /\ s[k].width > 0
            /\ s[k].width = IF k <= top THEN k - j + 1 ELSE top - j + 1 - (k - top)
        BY <1>2, <3>1
      <4> QED
        BY <1>3, <2>1, <4>1
    <3>2. CASE k = m
      <4>1. m > top
        BY <1>0, <1>1
      <4> QED
        <5>1. z[k] = l /\ k > top /\ l.width = top - j + 1 - (k - top)
          BY <1>3, <2>3, <3>2, <4>1
        <5>2. ~(k <= top)
          BY <1>0, <1>1, <3>2
        <5> QED
          BY <2>1, <5>1, <5>2
    <3> QED
      BY <2>2, <3>1, <3>2
  <2> QED
    BY <2>4 DEF Stands
<1>7. ASSUME Rows(z, j, m) PROVE Rises(p, l) \/ Falls(p, l)
  <2>1. PICK q \in j..m : Stands(z, j, q, m)
    BY <1>7 DEF Rows
  <2>2. l.who = p.builder /\ l.token = p.token /\ l.width > 0
        /\ l.width = IF m <= q THEN m - j + 1 ELSE q - j + 1 - (m - q)
    BY <1>0, <1>1, <1>3, <2>1 DEF Stands
  <2>3. s[n].width = IF n <= q THEN n - j + 1 ELSE q - j + 1 - (n - q)
    BY <1>0, <1>1, <1>2, <2>1 DEF Stands
  <2>4. m > q => q > j
    <3>1. n \in j..m
      BY <1>0, <1>1
    <3> QED
      BY <1>0, <1>1, <1>2, <2>1, <3>1 DEF Stands
  <2>5. ASSUME top < n PROVE top < q => FALSE
    <3>1. top + 1 \in j..n /\ top + 1 > top
      BY <1>0, <1>1, <2>5
    <3>2. s[top + 1].width = top - j
      BY <1>0, <1>1, <1>2, <3>1
    <3>3. top < q => z[top + 1].width = top + 1 - j + 1
      <4>1. top + 1 \in j..m
        BY <1>0, <1>1, <3>1
      <4> QED
        BY <1>0, <1>1, <2>1, <4>1 DEF Stands
    <3> QED
      BY <1>0, <1>1, <1>2, <3>1, <3>2, <3>3
  <2>6. CASE q = m
    <3>1. top = n
      BY <1>0, <1>1, <2>5, <2>6
    <3>2. l.width = w + 1
      BY <1>0, <1>1, <1>4, <2>2, <2>6, <3>1
    <3> QED
      BY <1>0, <1>1, <1>3, <2>2, <3>1, <3>2 DEF Rises, Same, w
  <2>7. CASE q # m
    <3>1. l.width = w - 1
      BY <1>0, <1>1, <1>3, <2>1, <2>2, <2>3, <2>7
    <3>2. top > j
      BY <1>0, <1>1, <1>2, <2>1, <2>4, <2>7
    <3> QED
      BY <1>0, <1>1, <1>3, <2>2, <3>1, <3>2 DEF Falls, Same, w
  <2> QED
    BY <2>6, <2>7
<1>8. Rises(p, l) \/ Falls(p, l) => Rows(z, j, m)
  <2>1. m \in j..m /\ top \in j..m
    BY <1>0, <1>1
  <2> QED
    BY <1>5, <1>6, <2>1 DEF Rows
<1> QED
  BY <1>5, <1>6, <1>7, <1>8 DEF l, j, m, top

Raised(p, l) == [p EXCEPT !.width = l.width, !.peak = l.width]
Lowered(p, l) == [p EXCEPT !.width = l.width, !.falling = TRUE]

\* The pyramid with a row more, up or down.
LEMMA RaisedIs ==
  ASSUME NEW p, NEW l, p = [id |-> p.id, builder |-> p.builder, token |-> p.token, width |-> p.width, peak |-> p.peak,
                            falling |-> p.falling]
  PROVE  /\ Raised(p, l) = [id |-> p.id, builder |-> p.builder, token |-> p.token, width |-> l.width, peak |-> l.width,
                             falling |-> p.falling]
         /\ Lowered(p, l) = [id |-> p.id, builder |-> p.builder, token |-> p.token, width |-> l.width, peak |-> p.peak,
                              falling |-> TRUE]
<1> DEFINE i == p.id  b == p.builder  t == p.token  k == p.peak  f == p.falling  w == l.width  v == p.width  y == TRUE
           u == [p EXCEPT !.width = w]
<1>1. p = [id |-> i, builder |-> b, token |-> t, width |-> v, peak |-> k, falling |-> f]
  OBVIOUS
<1>2. Raised(p, l) = [u EXCEPT !.peak = w] /\ Lowered(p, l) = [u EXCEPT !.falling = y]
  BY DEF Raised, Lowered
<1> HIDE DEF i, b, t, k, f, w, v, y
<1>3. u = [id |-> i, builder |-> b, token |-> t, width |-> w, peak |-> k, falling |-> f]
  BY <1>1
<1> HIDE DEF u
<1>4. [u EXCEPT !.peak = w] = [id |-> i, builder |-> b, token |-> t, width |-> w, peak |-> w, falling |-> f]
  BY <1>3
<1>5. [u EXCEPT !.falling = y] = [id |-> i, builder |-> b, token |-> t, width |-> w, peak |-> k, falling |-> y]
  BY <1>3
<1> QED
  BY <1>2, <1>4, <1>5 DEF i, b, t, k, f, w, y

\* The four things a line can be to the pyramid that stands.
LEMMA ObserveIs ==
  ASSUME NEW p, NEW n, NEW l, l.width \in Nat, p.width \in Nat
  PROVE  LET o == Observe(p, n, l) IN
         /\ Rises(p, l) => /\ o.open = Raised(p, l)
                           /\ o.event = Event(p, n, "up", l.width, p.builder)
         /\ Falls(p, l) /\ l.width = 1 => /\ o.open = NoPyramid
                                          /\ o.event = Event(p, n, "complete", 1, p.builder)
         /\ Falls(p, l) /\ l.width # 1 => /\ o.open = Lowered(p, l)
                                          /\ o.event = Event(p, n, "down", l.width, p.builder)
         /\ ~Rises(p, l) /\ ~Falls(p, l) =>
              /\ o.open = Started(n, l)
              /\ o.event = IF p.peak >= 2 THEN Event(p, n, "broken", p.width, l.who) ELSE NoEvent
<1> DEFINE rises == Rises(p, l)
           falls == Falls(p, l)
           up == Raised(p, l)
           down == Lowered(p, l)
           o == Observe(p, n, l)
           r1 == [open |-> up, event |-> Event(p, n, "up", l.width, p.builder)]
           r2 == [open |-> NoPyramid, event |-> Event(p, n, "complete", 1, p.builder)]
           r3 == [open |-> down, event |-> Event(p, n, "down", l.width, p.builder)]
           r4 == [open |-> Started(n, l), event |-> IF p.peak >= 2 THEN Event(p, n, "broken", p.width, l.who) ELSE NoEvent]
<1>1. o = CASE rises -> r1 [] falls /\ l.width = 1 -> r2 [] falls /\ l.width > 1 -> r3 [] OTHER -> r4
  BY DEF Observe, Rises, Falls, Same, Raised, Lowered
<1>2. /\ rises => ~falls
      /\ falls /\ l.width # 1 => l.width > 1
  BY DEF Rises, Falls, Same
<1> HIDE DEF rises, falls, r1, r2, r3, r4, o
<1>3. (rises => o = r1) /\ (falls /\ l.width = 1 => o = r2) /\ (falls /\ l.width # 1 => o = r3) /\ (~rises /\ ~falls => o = r4)
  BY <1>1, <1>2
<1> QED
  BY <1>3 DEF rises, falls, r1, r2, r3, r4, o

\* What there is to tell of a line, of the pyramids it is a row of and of those it is none of.
Part(s, i) == {j \in Firsts(s) : j < i /\ Rows(s, j, i)}
Ruined(s, i) == {j \in Firsts(s) : j < i - 1 /\ Unfinished(s, j, i - 1) /\ ~Rows(s, j, i)}
RowTale(s, i, j) ==
  [line |-> i, id |-> j,
   phase |-> IF s[i].width = 1 THEN "complete" ELSE IF s[i].width > s[i - 1].width THEN "up" ELSE "down",
   width |-> s[i].width, user |-> s[j].who]
EndTale(s, i, j) == [line |-> i, id |-> j, phase |-> "broken", width |-> s[i - 1].width, user |-> s[i].who]

LEMMA TaleIs ==
  ASSUME NEW s, NEW i
  PROVE  Tale(s, i) = {RowTale(s, i, j) : j \in Part(s, i)} \cup {EndTale(s, i, j) : j \in Ruined(s, i)}
  BY DEF Tale, Part, Ruined, RowTale, EndTale

LEMMA TaleKept ==
  ASSUME NEW s, NEW z, Len(s) \in Nat, Longer(s, z), Firsts(s) \in SUBSET (1..Len(s)), Firsts(z) \in SUBSET (1..Len(z)),
         Firsts(z) \cap (1..Len(s)) = Firsts(s), NEW i \in 1..Len(s)
  PROVE  Tale(z, i) = Tale(s, i)
<1>1. Len(z) = Len(s) + 1 /\ \A k \in 1..Len(s) : z[k] = s[k]
  BY DEF Longer
<1>2. \A j : j < i => (j \in Firsts(z) <=> j \in Firsts(s))
  BY <1>1
<1>3. \A j \in 1..Len(s) : Rows(z, j, i) <=> Rows(s, j, i)
  BY RowsSame
<1>4. \A j \in 1..Len(s) : j < i - 1 => (Unfinished(z, j, i - 1) <=> Unfinished(s, j, i - 1))
  <2> SUFFICES ASSUME NEW j \in 1..Len(s), j < i - 1 PROVE Unfinished(z, j, i - 1) <=> Unfinished(s, j, i - 1)
    OBVIOUS
  <2>1. i - 1 \in 1..Len(s)
    OBVIOUS
  <2> QED
    BY <2>1, RowsSame
<1>5. Part(z, i) = Part(s, i)
  BY <1>2, <1>3 DEF Part
<1>6. Ruined(z, i) = Ruined(s, i)
  BY <1>2, <1>3, <1>4 DEF Ruined
<1>7. \A j \in Part(s, i) \cup Ruined(s, i) : j \in 1..Len(s) /\ i - 1 \in 1..Len(s) /\ i \in 1..Len(s)
  BY DEF Part, Ruined
<1>8. \A j \in Part(s, i) \cup Ruined(s, i) : z[i] = s[i] /\ z[i - 1] = s[i - 1] /\ z[j] = s[j]
  BY <1>1, <1>7
<1>9. \A j \in Part(s, i) : RowTale(z, i, j) = RowTale(s, i, j)
  BY <1>8 DEF RowTale
<1>10. \A j \in Ruined(s, i) : EndTale(z, i, j) = EndTale(s, i, j)
  BY <1>8 DEF EndTale
<1>11. {RowTale(z, i, j) : j \in Part(z, i)} = {RowTale(s, i, j) : j \in Part(s, i)}
  BY <1>5, <1>9
<1>12. {EndTale(z, i, j) : j \in Ruined(z, i)} = {EndTale(s, i, j) : j \in Ruined(s, i)}
  BY <1>6, <1>10
<1> QED
  BY <1>11, <1>12, TaleIs

\* The pyramids of the lines with one line more.
LEMMA NextFirsts ==
  ASSUME NEW s, NEW z, Len(s) \in Nat, Longer(s, z), Firsts(s) \in SUBSET (1..Len(s)), AreFirsts(s, Firsts(s))
  PROVE  /\ Firsts(z) \in SUBSET (1..Len(z)) /\ AreFirsts(z, Firsts(z)) /\ Firsts(z) \cap (1..Len(s)) = Firsts(s)
         /\ Len(z) \in Firsts(z) <=> /\ z[Len(z)].width = 1 /\ z[Len(z)].who # Bot
                                     /\ \A k \in Firsts(s) : ~Rows(z, k, Len(z))
<1> DEFINE a == Firsts(s)
           begins == z[Len(z)].width = 1 /\ z[Len(z)].who # Bot /\ \A k \in a : ~Rows(z, k, Len(z))
           b == a \cup (IF begins THEN {Len(z)} ELSE {})
<1>1. Len(z) = Len(s) + 1
  BY DEF Longer
<1>2. a \in SUBSET (1..Len(s)) /\ AreFirsts(s, a)
  OBVIOUS
<1> HIDE DEF a, begins
<1>3. (Len(z) \in b <=> begins) /\ b \in SUBSET (1..Len(z)) /\ b \cap (1..Len(s)) = a
  <2> DEFINE n == Len(s)
             m == Len(z)
  <2>1. n \in Nat /\ m = n + 1 /\ a \in SUBSET (1..n)
    BY <1>1, <1>2
  <2> HIDE DEF n, m
  <2>2. m \notin a /\ m \in 1..m /\ a \in SUBSET (1..m) /\ m \notin 1..n
    BY <2>1
  <2>3. b = IF begins THEN a \cup {m} ELSE a
    BY DEF m
  <2> HIDE DEF b
  <2> QED
    BY <2>1, <2>2, <2>3 DEF n, m
<1> HIDE DEF b
<1>4. AreFirsts(z, b) /\ Firsts(z) = b
  <2>1. Len(z) \in b <=> z[Len(z)].width = 1 /\ z[Len(z)].who # Bot /\ \A k \in a : ~Rows(z, k, Len(z))
    BY <1>3 DEF begins
  <2> QED
    BY <1>2, <1>3, <2>1, FirstsGrow
<1> QED
  BY <1>3, <1>4 DEF a, begins

\* Which pyramids the next line is a row of, and which it ruins, follows from the one that stands.
LEMMA NextPart ==
  ASSUME NEW p, NEW s, NEW z, AreLines(s), AreLines(z), Longer(s, z), Follows(p, s)
  PROVE  /\ \A k \in Firsts(s) : Rows(z, k, Len(z)) => k = p.id
         /\ Part(z, Len(z)) = {k \in Firsts(s) : k = p.id /\ Rows(z, k, Len(z))}
         /\ Ruined(z, Len(z)) = {k \in Firsts(s) : k = p.id /\ k < Len(s) /\ Unfinished(s, k, Len(s)) /\ ~Rows(z, k, Len(z))}
<1>1. /\ Len(s) \in Nat /\ Len(z) = Len(s) + 1 /\ Firsts(s) \in SUBSET (1..Len(s)) /\ AreFirsts(s, Firsts(s))
      /\ \A j \in Firsts(s) : Unfinished(s, j, Len(s)) => p.id = j
  BY DEF AreLines, Longer, Follows
<1>2. Firsts(z) \in SUBSET (1..Len(z)) /\ Firsts(z) \cap (1..Len(s)) = Firsts(s)
  BY <1>1, NextFirsts
<1>3. ASSUME NEW k \in Firsts(s) PROVE (Rows(z, k, Len(z)) => k = p.id) /\ (Unfinished(z, k, Len(s)) <=> Unfinished(s, k, Len(s)))
  <2>1. k \in 1..Len(s) /\ Len(s) \in 1..Len(s)
    BY <1>1
  <2>2. Unfinished(z, k, Len(s)) <=> Unfinished(s, k, Len(s))
    BY <1>1, <2>1, RowsSame
  <2>3. ASSUME Rows(z, k, Len(z)) PROVE k = p.id
    <3>1. Unfinished(z, k, Len(s))
      BY <1>1, <2>1, <2>3, RowsBefore
    <3> QED
      BY <1>1, <2>2, <3>1
  <2> QED
    BY <2>2, <2>3
<1>4. \A k : k < Len(z) => (k \in Firsts(z) <=> k \in Firsts(s))
  BY <1>1, <1>2
<1>5. Part(z, Len(z)) = {k \in Firsts(s) : k = p.id /\ Rows(z, k, Len(z))}
  <2>1. \A k \in Firsts(s) : k < Len(z)
    BY <1>1
  <2> QED
    BY <1>3, <1>4, <2>1 DEF Part
<1>6. Ruined(z, Len(z)) = {k \in Firsts(s) : k = p.id /\ k < Len(s) /\ Unfinished(s, k, Len(s)) /\ ~Rows(z, k, Len(z))}
  <2>1. Len(z) - 1 = Len(s) /\ Len(s) < Len(z)
    BY <1>1
  <2>2. \A k \in Firsts(z) : k < Len(s) <=> k \in Firsts(s) /\ k < Len(s)
    BY <1>1, <1>2, <1>4
  <2> QED
    BY <1>1, <1>3, <1>4, <2>1, <2>2 DEF Ruined
<1> QED
  BY <1>3, <1>5, <1>6

\* A pyramid that begins with the last line, or none does.
LEMMA Begins ==
  ASSUME NEW z, AreLines(z), Len(z) > 0, Firsts(z) \in SUBSET (1..Len(z)), AreFirsts(z, Firsts(z)),
         Len(z) \in Firsts(z) <=> z[Len(z)].width = 1 /\ z[Len(z)].who # Bot,
         \A j \in Firsts(z) : j < Len(z) => ~Rows(z, j, Len(z))
  PROVE  Follows(Started(Len(z), z[Len(z)]), z)
<1> DEFINE m == Len(z)
           l == z[Len(z)]
           q == [id |-> m, builder |-> l.who, token |-> l.token, width |-> 1, peak |-> 1, falling |-> FALSE]
<1>0. m \in Nat \ {0}
  BY DEF AreLines
<1>1. \A j \in Firsts(z) : Unfinished(z, j, m) => j = m
  BY <1>0 DEF Unfinished
<1>2. CASE l.width = 1 /\ l.who # Bot
  <2>1. Started(m, l) = q
    BY <1>2 DEF Started
  <2>2. q.id = m /\ q.peak = 1
    OBVIOUS
  <2>3. m \in Firsts(z)
    BY <1>2
  <2>4. Stands(z, m, m, m)
    BY <1>0, <1>2 DEF Stands
  <2>5. q = [id |-> m, builder |-> z[m].who, token |-> z[m].token, width |-> z[m].width, peak |-> 1, falling |-> m < m]
    <3>1. (m < m) = FALSE
      BY <1>0
    <3> QED
      BY <1>2, <3>1
  <2> HIDE DEF q
  <2>6. Standing(q, z)
    <3>1. q.id + q.peak - 1 = m
      BY <1>0, <2>2
    <3>2. q.id + q.peak - 1 <= Len(z)
      BY <1>0, <3>1
    <3>3. q.peak \in Nat \ {0}
      BY <2>2
    <3> QED
      BY <2>2, <2>3, <2>4, <2>5, <3>1, <3>2, <3>3 DEF Standing
  <2> QED
    BY <1>1, <2>1, <2>2, <2>6 DEF Follows
<1>3. CASE ~(l.width = 1 /\ l.who # Bot)
  <2>1. Started(m, l) = NoPyramid
    BY <1>3 DEF Started
  <2>2. \A j \in Firsts(z) : ~Unfinished(z, j, m)
    BY <1>1, <1>3
  <2> QED
    BY <2>1, <2>2 DEF Follows
<1> QED
  BY <1>2, <1>3

\* A line the watcher does not see ends what stood.
LEMMA Forgotten ==
  ASSUME NEW p, NEW s, NEW z, AreLines(s), AreLines(z), Longer(s, z), Follows(p, s), z[Len(z)].width = 0
  PROVE  Follows(NoPyramid, z) /\ \A i \in 1..Len(s) : Tale(z, i) = Tale(s, i)
<1>1. Len(z) = Len(s) + 1 /\ Len(s) \in Nat /\ Firsts(s) \in SUBSET (1..Len(s)) /\ AreFirsts(s, Firsts(s))
  BY DEF AreLines, Longer, Follows
<1>2. Firsts(z) \in SUBSET (1..Len(z)) /\ AreFirsts(z, Firsts(z)) /\ Firsts(z) \cap (1..Len(s)) = Firsts(s)
  BY <1>1, NextFirsts
<1>3. ASSUME NEW j \in Firsts(z) PROVE ~Rows(z, j, Len(z))
  <2>1. j \in 1..Len(z) /\ Len(z) \in j..Len(z)
    BY <1>1, <1>2
  <2> QED
    <3>1. SUFFICES ASSUME Rows(z, j, Len(z)) PROVE FALSE
      OBVIOUS
    <3>2. PICK peak \in j..Len(z) : Stands(z, j, peak, Len(z))
      BY <3>1 DEF Rows
    <3>3. z[Len(z)].width > 0
      BY <2>1, <3>2 DEF Stands
    <3> QED
      BY <3>3
<1>4. Follows(NoPyramid, z)
  BY <1>2, <1>3 DEF Follows, Unfinished
<1> QED
  BY <1>1, <1>2, <1>4, TaleKept

\* The pyramid that stands, with a row more.
LEMMA CarriedOn ==
  ASSUME NEW p, NEW s, NEW z, AreLines(s), AreLines(z), Longer(s, z), Follows(p, s), Standing(p, s),
         NEW q, NEW top \in Nat, q = [id |-> p.id, builder |-> p.builder, token |-> p.token, width |-> z[Len(z)].width,
                            peak |-> top - p.id + 1, falling |-> top < Len(z)],
         top >= p.id, top <= Len(z), Stands(z, p.id, top, Len(z)), z[Len(z)].width > 1
  PROVE  Follows(q, z)
<1>1. /\ Len(s) \in Nat \ {0} /\ p.id \in 1..Len(s) /\ p.builder = s[p.id].who /\ p.token = s[p.id].token
  BY StandingIs DEF Follows
<1>2. Len(z) = Len(s) + 1 /\ z[p.id] = s[p.id] /\ Firsts(s) \in SUBSET (1..Len(s)) /\ AreFirsts(s, Firsts(s)) /\ p.id \in Firsts(s)
  BY <1>1 DEF Longer, Follows, Standing
<1>3. /\ Firsts(z) \in SUBSET (1..Len(z)) /\ AreFirsts(z, Firsts(z)) /\ Firsts(z) \cap (1..Len(s)) = Firsts(s)
      /\ Len(z) \in Firsts(z) => z[Len(z)].width = 1
  BY <1>1, <1>2, NextFirsts
<1>4. \A j \in Firsts(z) : j \in Firsts(s)
  BY <1>1, <1>2, <1>3
<1>5. \A j \in Firsts(z) : Unfinished(z, j, Len(z)) => p.id = j
  BY <1>4, NextPart DEF Unfinished
<1>6. q.id = p.id /\ q.peak = top - p.id + 1
  OBVIOUS
<1>7. q.id + q.peak - 1 = top /\ q.peak \in Nat \ {0}
  BY <1>1, <1>6
<1>8. q = [id |-> q.id, builder |-> z[q.id].who, token |-> z[q.id].token, width |-> z[Len(z)].width, peak |-> q.peak,
           falling |-> top < Len(z)]
  BY <1>1, <1>2, <1>6
<1>9. q.id \in Firsts(z)
  BY <1>1, <1>2, <1>3, <1>6
<1>10. Standing(q, z)
  BY <1>6, <1>7, <1>8, <1>9 DEF Standing
<1> QED
  BY <1>3, <1>5, <1>6, <1>10 DEF Follows

\* PyramidWatcher.observe, line by line, makes of a channel's lines what there is to tell of them.
LEMMA Observed ==
  ASSUME NEW p, NEW s, NEW z, AreLines(s), AreLines(z), Longer(s, z), Follows(p, s)
  PROVE  /\ Follows(Observe(p, Len(z), z[Len(z)]).open, z)
         /\ \A i \in 1..Len(s) : Tale(z, i) = Tale(s, i)
         /\ Tale(z, Len(z)) = IF Observe(p, Len(z), z[Len(z)]).event = NoEvent THEN {}
                              ELSE {Observe(p, Len(z), z[Len(z)]).event}
<1> DEFINE n == Len(s)
           m == Len(z)
           l == z[Len(z)]
           j == p.id
           top == p.id + p.peak - 1
           o == Observe(p, m, l)
<1>1. m = n + 1 /\ n \in Nat /\ Firsts(s) \in SUBSET (1..n) /\ AreFirsts(s, Firsts(s)) /\ l.width \in Nat
  <2>1. Len(z) = Len(s) + 1 /\ Len(s) \in Nat /\ Firsts(s) \in SUBSET (1..n) /\ AreFirsts(s, Firsts(s))
    BY DEF AreLines, Longer, Follows
  <2>2. Len(z) \in 1..Len(z)
    BY <2>1
  <2> QED
    BY <2>1, <2>2 DEF AreLines
<1>2. /\ Firsts(z) \in SUBSET (1..m) /\ AreFirsts(z, Firsts(z)) /\ Firsts(z) \cap (1..n) = Firsts(s)
      /\ m \in Firsts(z) <=> l.width = 1 /\ l.who # Bot /\ \A k \in Firsts(s) : ~Rows(z, k, m)
  BY <1>1, NextFirsts
<1>3. \A i \in 1..n : Tale(z, i) = Tale(s, i)
  BY <1>1, <1>2, TaleKept
<1>4. /\ \A k \in Firsts(s) : Rows(z, k, m) => k = j
      /\ Part(z, m) = {k \in Firsts(s) : k = j /\ Rows(z, k, m)}
      /\ Ruined(z, m) = {k \in Firsts(s) : k = j /\ k < n /\ Unfinished(s, k, n) /\ ~Rows(z, k, m)}
  BY NextPart
<1>5. Tale(z, m) = {RowTale(z, m, k) : k \in Part(z, m)} \cup {EndTale(z, m, k) : k \in Ruined(z, m)}
  BY TaleIs
<1>6. \A k : k \in Firsts(z) /\ k < m => k \in Firsts(s)
  BY <1>1, <1>2
<1> HIDE DEF n, m, l, j, top, o
<1>7. ASSUME \A k \in Firsts(s) : ~Rows(z, k, m) PROVE Follows(Started(m, l), z)
  <2>1. m \in Firsts(z) <=> l.width = 1 /\ l.who # Bot
    BY <1>2, <1>7
  <2>2. \A k \in Firsts(z) : k < m => ~Rows(z, k, m)
    BY <1>6, <1>7
  <2>3. m > 0
    BY <1>1
  <2> QED
    BY <1>2, <2>1, <2>2, <2>3, Begins DEF m, l
<1>8. CASE p = NoPyramid
  <2>1. j = 0 /\ p.width = 0 /\ p.peak = 0
    BY <1>8, NoneIs DEF j
  <2>2. \A k \in Firsts(s) : k # j
    BY <1>1, <2>1
  <2>3. ~Rises(p, l) /\ ~Falls(p, l)
    BY <1>8 DEF Rises, Falls, Same
  <2>4. p.width \in Nat /\ ~(p.peak >= 2)
    BY <2>1
  <2>5. o.open = Started(m, l) /\ o.event = NoEvent
    BY <1>1, <2>3, <2>4, ObserveIs DEF o
  <2>6. Tale(z, m) = {}
    BY <1>4, <1>5, <2>2
  <2>7. Follows(o.open, z)
    BY <1>4, <1>7, <2>2, <2>5
  <2> QED
    BY <1>3, <2>5, <2>6, <2>7 DEF o, m, n, l
<1>9. CASE p # NoPyramid
  <2>1. Standing(p, s)
    BY <1>9 DEF Follows
  <2>2. /\ n \in Nat \ {0} /\ j \in 1..n /\ top <= n /\ p.peak \in Nat \ {0} /\ p.width \in Nat \ {0}
        /\ p.builder = s[j].who /\ p.width = s[n].width /\ (p.falling <=> top < n)
        /\ (p.peak >= 2 <=> j < n) /\ j \in Firsts(s) /\ s[j] = z[j] /\ s[n] = z[n]
        /\ Stands(s, j, top, n) /\ (j = n \/ s[n].width > 1)
    <3>1. n \in Nat \ {0} /\ j \in 1..n
      BY <1>1, <2>1, StandingIs DEF n, j
    <3>2. s[j] = z[j] /\ s[n] = z[n]
      BY <3>1 DEF Longer, n
    <3>3. j \in Firsts(s) /\ (j = n \/ s[n].width > 1)
      BY <2>1 DEF Standing, j, n
    <3> QED
      BY <1>1, <2>1, <3>1, <3>2, <3>3, StandingIs DEF n, j, top
  <2>3. top \in j..n /\ p.peak = top - j + 1 /\ top \in Nat
    BY <2>2 DEF top, j
  <2>4. Unfinished(s, j, n)
    BY <2>2, <2>3 DEF Unfinished, Rows
  <2>5. /\ Rises(p, l) => Stands(z, j, m, m)
        /\ Falls(p, l) => Stands(z, j, top, m)
        /\ Rows(z, j, m) <=> Rises(p, l) \/ Falls(p, l)
    BY <1>1, <2>1, Carries DEF j, m, l, top, n
  <2>6. p.width \in Nat /\ l.width \in Nat
    BY <1>1, <2>2
  <2>7. CASE Rises(p, l) \/ Falls(p, l)
    <3>1. Part(z, m) = {j} /\ Ruined(z, m) = {}
      BY <1>4, <2>2, <2>5, <2>7
    <3>2. Tale(z, m) = {RowTale(z, m, j)}
      BY <1>5, <3>1
    <3>3. m - 1 = n /\ z[m] = l /\ s[n].width = p.width /\ z[n] = s[n] /\ s[j].who = p.builder
      BY <1>1, <2>2 DEF m, l
    <3>4. RowTale(z, m, j) = Event(p, m, IF l.width = 1 THEN "complete" ELSE IF l.width > p.width THEN "up" ELSE "down",
                                   l.width, p.builder)
      BY <2>2, <3>3 DEF RowTale, Event, j
    <3>5. \A phase, width, user : Event(p, m, phase, width, user) # NoEvent
      <4>1. \A phase, width, user : Event(p, m, phase, width, user).line = m
        BY DEF Event
      <4>2. NoEvent.line = 0
        BY DEF NoEvent
      <4> QED
        BY <1>1, <4>1, <4>2
    <3>6. p = [id |-> j, builder |-> p.builder, token |-> p.token, width |-> p.width, peak |-> p.peak, falling |-> p.falling]
      BY <2>1 DEF Standing, j
    <3>7. CASE Rises(p, l)
      <4>1. o.open = Raised(p, l) /\ o.event = Event(p, m, "up", l.width, p.builder)
        BY <2>6, <3>7, ObserveIs DEF o
      <4>2. l.width = p.width + 1 /\ ~p.falling
        BY <3>7 DEF Rises
      <4>3. l.width > p.width /\ l.width > 1 /\ top = n
        BY <2>2, <2>3, <4>2
      <4>4. o.event = RowTale(z, m, j)
        BY <3>4, <4>1, <4>3
      <4>5. l.width = m - j + 1
        <5>1. z[m].width = m - j + 1
          <6>1. m \in j..m
            BY <1>1, <2>2
          <6> QED
            BY <1>1, <2>5, <3>7, <6>1 DEF Stands
        <5> QED
          BY <3>3, <5>1
      <4>6. (m < m) = FALSE /\ p.falling = FALSE
        <5>1. (m < m) = FALSE
          BY <1>1
        <5>2. p.falling = (top < n)
          BY <2>1 DEF Standing, top, n
        <5>3. (top < n) = FALSE
          BY <1>1, <4>3
        <5> QED
          BY <5>1, <5>2, <5>3
      <4>7. o.open = [id |-> j, builder |-> p.builder, token |-> p.token, width |-> l.width, peak |-> m - j + 1, falling |-> m < m]
        <5>1. Raised(p, l) = [id |-> j, builder |-> p.builder, token |-> p.token, width |-> l.width, peak |-> l.width,
                              falling |-> p.falling]
          BY <3>6, RaisedIs DEF j
        <5> QED
          BY <4>1, <4>5, <4>6, <5>1
      <4>8. Follows(o.open, z)
        <5>1. m \in Nat /\ m >= j /\ m <= m
          BY <1>1, <2>2
        <5> QED
          BY <2>1, <2>5, <3>7, <4>3, <4>7, <5>1, CarriedOn DEF j, m, l
      <4> QED
        BY <1>3, <3>2, <3>5, <4>1, <4>4, <4>8 DEF o, m, n, l
    <3>8. CASE Falls(p, l) /\ l.width # 1
      <4>1. o.open = Lowered(p, l) /\ o.event = Event(p, m, "down", l.width, p.builder)
        BY <2>6, <3>8, ObserveIs DEF o
      <4>2. l.width = p.width - 1 /\ l.width > 1
        BY <2>6, <3>8 DEF Falls, Same
      <4>3. ~(l.width > p.width)
        BY <2>2, <4>2
      <4>4. o.event = RowTale(z, m, j)
        BY <3>4, <3>8, <4>1, <4>3
      <4>5. (top < m) = TRUE
        BY <1>1, <2>2, <2>3
      <4>6. o.open = [id |-> j, builder |-> p.builder, token |-> p.token, width |-> l.width, peak |-> top - j + 1, falling |-> top < m]
        <5>1. Lowered(p, l) = [id |-> j, builder |-> p.builder, token |-> p.token, width |-> l.width, peak |-> p.peak,
                               falling |-> TRUE]
          BY <3>6, RaisedIs DEF j
        <5> QED
          BY <2>3, <4>1, <4>5, <5>1
      <4>7. Follows(o.open, z)
        <5>1. top >= j /\ top <= m
          BY <1>1, <2>2, <2>3
        <5> QED
          BY <2>1, <2>3, <2>5, <3>8, <4>2, <4>6, <5>1, CarriedOn DEF j, m, l
      <4> QED
        BY <1>3, <3>2, <3>5, <4>1, <4>4, <4>7 DEF o, m, n, l
    <3>9. CASE Falls(p, l) /\ l.width = 1
      <4>1. o.open = NoPyramid /\ o.event = Event(p, m, "complete", 1, p.builder)
        BY <2>6, <3>9, ObserveIs DEF o
      <4>2. o.event = RowTale(z, m, j)
        BY <3>4, <3>9, <4>1
      <4>3. m \notin Firsts(z)
        BY <1>2, <2>2, <2>5, <2>7
      <4>4. \A k \in Firsts(z) : ~Unfinished(z, k, m)
        <5> SUFFICES ASSUME NEW k \in Firsts(z), Unfinished(z, k, m) PROVE FALSE
          OBVIOUS
        <5>1. k # m
          BY <4>3
        <5> QED
          BY <3>3, <3>9, <5>1 DEF Unfinished
      <4>5. Follows(NoPyramid, z)
        BY <1>2, <4>4 DEF Follows, m
      <4> QED
        BY <1>3, <3>2, <3>5, <4>1, <4>2, <4>5 DEF o, m, n, l
    <3> QED
      BY <2>7, <3>7, <3>8, <3>9
  <2>8. CASE ~Rises(p, l) /\ ~Falls(p, l)
    <3>1. o.open = Started(m, l) /\ o.event = IF p.peak >= 2 THEN Event(p, m, "broken", p.width, l.who) ELSE NoEvent
      BY <2>6, <2>8, ObserveIs DEF o
    <3>2. Follows(o.open, z)
      BY <1>4, <1>7, <2>5, <2>8, <3>1
    <3>3. Part(z, m) = {}
      BY <1>4, <2>5, <2>8
    <3>4. Ruined(z, m) = IF j < n THEN {j} ELSE {}
      BY <1>4, <2>2, <2>4, <2>5, <2>8
    <3>5. EndTale(z, m, j) = Event(p, m, "broken", p.width, l.who)
      <4>1. m - 1 = n /\ z[m] = l /\ z[n] = s[n]
        BY <1>1, <2>2 DEF m, l
      <4> QED
        BY <2>2, <4>1 DEF EndTale, Event, j
    <3>6. Event(p, m, "broken", p.width, l.who) # NoEvent
      BY <1>1 DEF Event, NoEvent
    <3>7. CASE j < n
      <4>1. Tale(z, m) = {EndTale(z, m, j)}
        BY <1>5, <3>3, <3>4, <3>7
      <4> QED
        BY <1>3, <2>2, <3>1, <3>2, <3>5, <3>6, <3>7, <4>1 DEF o, m, n, l
    <3>8. CASE ~(j < n)
      <4>1. Tale(z, m) = {}
        BY <1>5, <3>3, <3>4, <3>8
      <4> QED
        BY <1>3, <2>2, <3>1, <3>2, <3>8, <4>1 DEF o, m, n, l
    <3> QED
      BY <3>7, <3>8
  <2> QED
    BY <2>7, <2>8
<1> QED
  BY <1>8, <1>9

-----------------------------------------------------------------------------
(* The triggers an event finds: those of its type, by their ids, each      *)
(* once.                                                                   *)

\* s is the members of S, in their order.
Enumerates(s, S) ==
  /\ s \in [1 .. Cardinality(S) -> S]
  /\ \A x \in S : \E i \in DOMAIN s : s[i] = x
  /\ \A i, j \in DOMAIN s : i < j => s[i] < s[j]

\* By induction, as the least number up to which a set of numbers has no enumeration.
LEMMA Enumerable ==
  ASSUME NEW n \in Nat, NEW S \in SUBSET (1..n)
  PROVE  \E s : Enumerates(s, S)
<1> DEFINE Upto(m) == S \cap (1..m)
           T == {m \in 0..n : ~ \E s : Enumerates(s, Upto(m))}
<1>1. SUFFICES ASSUME T # {} PROVE FALSE
  <2>1. \A x \in S : x \in 1..n
    OBVIOUS
  <2>2. Upto(n) = S
    BY <2>1, Zenon
  <2>3. n \in 0..n
    OBVIOUS
  <2> QED
    BY <2>2, <2>3
<1>2. T \subseteq Nat
  OBVIOUS
<1> HIDE DEF T
<1>3. PICK m \in T : \A k \in T : m <= k
  BY <1>1, <1>2, Least
<1>4. m \in 0..n /\ ~ \E s : Enumerates(s, Upto(m))
  BY <1>3 DEF T
<1>5. m # 0
  <2> SUFFICES ASSUME m = 0 PROVE FALSE
    OBVIOUS
  <2>1. Upto(0) = {} /\ Cardinality({}) = 0
    BY FS_EmptySet
  <2>2. Enumerates([i \in 1..0 |-> 0], {})
    BY <2>1 DEF Enumerates
  <2> QED
    BY <1>4, <2>1, <2>2
<1>6. m - 1 \in 0..n /\ m - 1 < m /\ m \in 1..n
  BY <1>4, <1>5
<1>7. m - 1 \notin T
  BY <1>2, <1>3, <1>6
<1>8. PICK s : Enumerates(s, Upto(m - 1))
  BY <1>6, <1>7 DEF T
<1> DEFINE U == Upto(m - 1)
           k == Cardinality(U)
<1>9. IsFiniteSet(U) /\ k \in Nat /\ \A x \in U : x \in 1..n /\ x < m
  <2>1. U \in SUBSET (1..n) /\ IsFiniteSet(1..n)
    BY FS_Interval
  <2>2. IsFiniteSet(U)
    BY <2>1, FS_Subset
  <2>3. \A x \in U : x \in 1..n /\ x < m
    BY <1>6
  <2> QED
    BY <2>2, <2>3, FS_CardinalityType
<1>10. CASE m \notin S
  <2>1. Upto(m) = U
    BY <1>6, <1>10
  <2> QED
    BY <1>4, <1>8, <2>1
<1>11. CASE m \in S
  <2>1. Upto(m) = U \cup {m}
    BY <1>6, <1>11
  <2>2. m \notin U
    BY <1>9
  <2> HIDE DEF U, Upto
  <2>3. Cardinality(U \cup {m}) = k + 1
    BY <1>9, <2>2, FS_AddElement
  <2> HIDE DEF k
  <2> DEFINE z == [i \in 1..k + 1 |-> IF i <= k THEN s[i] ELSE m]
  <2>4. s \in [1..k -> U] /\ (\A x \in U : \E i \in 1..k : s[i] = x) /\ \A i, j \in 1..k : i < j => s[i] < s[j]
    BY <1>8 DEF Enumerates, U, k
  <2>5. z \in [1..k + 1 -> U \cup {m}] /\ DOMAIN z = 1..k + 1
    BY <1>9, <2>4
  <2>6. (\A i \in 1..k : z[i] = s[i]) /\ z[k + 1] = m
    BY <1>9
  <2> HIDE DEF z
  <2>7. \A x \in U \cup {m} : \E i \in 1..k + 1 : z[i] = x
    BY <1>9, <2>4, <2>6
  <2>8. ASSUME NEW i \in 1..k + 1, NEW j \in 1..k + 1, i < j PROVE z[i] < z[j]
    <3>1. i \in 1..k /\ z[i] = s[i] /\ s[i] \in U
      BY <1>9, <2>4, <2>6, <2>8
    <3>2. CASE j \in 1..k
      BY <2>4, <2>6, <2>8, <3>1, <3>2
    <3>3. CASE j = k + 1
      BY <1>9, <2>6, <3>1, <3>3
    <3> QED
      BY <1>9, <3>2, <3>3
  <2>9. Enumerates(z, U \cup {m})
    BY <2>3, <2>5, <2>7, <2>8 DEF Enumerates
  <2> QED
    BY <1>4, <2>1, <2>9
<1> QED
  BY <1>10, <1>11

\* The order by id is one, of the triggers there are.
LEMMA ByIdIs ==
  ASSUME NEW S \in SUBSET Index
  PROVE  Enumerates(ById(S), S) /\ ById(S) \in Seq(S) /\ S \in SUBSET Nat /\ Len(ById(S)) \in Nat
<1>1. Len(Reaction) \in Nat /\ S \in SUBSET (1..Len(Reaction))
  BY TriggerRunsAssumption DEF Index
<1>2. \E s : Enumerates(s, S)
  BY <1>1, Enumerable
<1>3. Enumerates(ById(S), S)
  <2>1. PICK s \in [1 .. Cardinality(S) -> S] : /\ \A x \in S : \E i \in DOMAIN s : s[i] = x
                                                /\ \A i, j \in DOMAIN s : i < j => s[i] < s[j]
    BY <1>2 DEF Enumerates
  <2> QED
    BY <2>1, Zenon DEF ById, Enumerates
<1>4. IsFiniteSet(S) /\ Cardinality(S) \in Nat
  <2>1. IsFiniteSet(1..Len(Reaction))
    BY <1>1, FS_Interval
  <2> QED
    BY <1>1, <2>1, FS_Subset, FS_CardinalityType
<1>5. ById(S) \in Seq(S) /\ Len(ById(S)) = Cardinality(S)
  BY <1>3, <1>4 DEF Enumerates
<1> QED
  BY <1>1, <1>3, <1>4, <1>5

LEMMA ByIdOnce ==
  ASSUME NEW S \in SUBSET Index, NEW i \in 1..Len(ById(S)), NEW j \in 1..Len(ById(S)), ById(S)[i] = ById(S)[j]
  PROVE  i = j
<1> DEFINE s == ById(S)
<1>1. /\ s \in Seq(S) /\ S \in SUBSET Nat /\ Len(s) \in Nat
      /\ \A k, m \in DOMAIN s : k < m => s[k] < s[m]
  BY ByIdIs DEF Enumerates
<1>3. i \in 1..Len(s) /\ j \in 1..Len(s) /\ s[i] = s[j]
  OBVIOUS
<1> HIDE DEF s
<1>2. DOMAIN s = 1..Len(s) /\ s[i] \in Nat /\ s[j] \in Nat
  <2>1. s \in Seq(S) /\ S \in SUBSET Nat
    BY <1>1
  <2>2. DOMAIN s = 1..Len(s) /\ s[i] \in S /\ s[j] \in S
    BY <1>3, <2>1
  <2> QED
    BY <2>1, <2>2
<1> QED
  BY <1>1, <1>2, <1>3

\* What a channel finds for a type, each once.
LEMMA FindsIs ==
  ASSUME armed \subseteq Index, NEW c \in Channel, NEW type, NEW size
  PROVE  LET f == Finds(c, type, size) IN
         /\ f \in Seq(Index)
         /\ \A i, j \in 1..Len(f) : f[i] = f[j] => i = j
<1> DEFINE A == Matching(c, type, size)
           B == Matching("*", type, size)
           a == ById(A)
           b == IF c \in packOn THEN ById(B) ELSE <<>>
           f == a \o b
<1>1. /\ A \in SUBSET Index /\ \A x \in A : Reaction[x].home = c
      /\ B \in SUBSET Index /\ \A x \in B : Reaction[x].home = "*"
  BY DEF Matching, OfType
<1>2. c # "*"
  BY TriggerRunsAssumption
<1>3. A \cap B = {}
  BY <1>1, <1>2
<1> HIDE DEF A, B
<1>4. a \in Seq(A) /\ Len(a) \in Nat /\ \A i, j \in 1..Len(a) : a[i] = a[j] => i = j
  BY <1>1, ByIdIs, ByIdOnce
<1>5. b \in Seq(B) /\ Len(b) \in Nat /\ \A i, j \in 1..Len(b) : b[i] = b[j] => i = j
  <2>1. CASE c \in packOn
    <3>1. b = ById(B)
      BY <2>1
    <3> HIDE DEF b
    <3> QED
      BY <1>1, <3>1, ByIdIs, ByIdOnce
  <2>2. CASE c \notin packOn
    BY <2>2
  <2> QED
    BY <2>1, <2>2
<1> HIDE DEF a, b
<1>6. f \in Seq(Index) /\ Len(f) = Len(a) + Len(b)
  <2>1. a \in Seq(Index) /\ b \in Seq(Index)
    BY <1>1, <1>4, <1>5
  <2> QED
    BY <2>1
<1>7. \A i \in 1..Len(a) : f[i] = a[i] /\ a[i] \in A
  BY <1>4, <1>5
<1>8. ASSUME NEW i \in Len(a) + 1 .. Len(f) PROVE i - Len(a) \in 1..Len(b) /\ f[i] = b[i - Len(a)] /\ f[i] \in B
  BY <1>4, <1>5, <1>6
<1> HIDE DEF f
<1>9. \A i \in 1..Len(f) : i \in 1..Len(a) \/ i \in Len(a) + 1 .. Len(f)
  BY <1>4, <1>5, <1>6
<1>10. ASSUME NEW i \in 1..Len(f), NEW j \in 1..Len(f), f[i] = f[j] PROVE i = j
  <2>1. CASE i \in 1..Len(a) /\ j \in 1..Len(a)
    BY <1>4, <1>7, <1>10, <2>1
  <2>2. CASE i \in Len(a) + 1 .. Len(f) /\ j \in Len(a) + 1 .. Len(f)
    <3>1. i - Len(a) = j - Len(a)
      BY <1>5, <1>8, <1>10, <2>2
    <3> QED
      BY <1>4, <1>6, <3>1
  <2>3. CASE i \in 1..Len(a) /\ j \in Len(a) + 1 .. Len(f)
    BY <1>3, <1>7, <1>8, <1>10, <2>3
  <2>4. CASE i \in Len(a) + 1 .. Len(f) /\ j \in 1..Len(a)
    BY <1>3, <1>7, <1>8, <1>10, <2>4
  <2> QED
    BY <1>9, <2>1, <2>2, <2>3, <2>4
<1>11. Finds(c, type, size) = f
  BY DEF Finds, A, B, a, b, f
<1> QED
  BY <1>6, <1>10, <1>11

\* What nothing comes before, and nothing holds, is found first.
LEMMA FindsFirst ==
  ASSUME armed \subseteq Index, NEW c \in Channel, NEW x \in armed, Unhindered(c, x)
  PROVE  Finds(c, "pyramid", 0) # <<>> /\ Head(Finds(c, "pyramid", 0)) = x
<1> DEFINE A == Matching(c, "pyramid", 0)
           b == IF c \in packOn THEN ById(Matching("*", "pyramid", 0)) ELSE <<>>
           a == ById(A)
<1>1. x \in A /\ \A y \in 1..x - 1 : Reaction[y].type # "pyramid"
  <2>1. Reaction[x].home = c /\ Reaction[x].type = "pyramid" /\ Reaction[x].least = 0
    BY DEF Unhindered
  <2>2. x \in A
    BY <2>1 DEF Matching, OfType
  <2>3. \A y \in 1..x - 1 : Reaction[y].type # "pyramid"
    BY DEF Unhindered
  <2> QED
    BY <2>2, <2>3
<1>2. A \in SUBSET Index /\ \A y \in A : Reaction[y].type = "pyramid"
  BY DEF Matching, OfType
<1>3. \A y \in A : y \in Nat \ {0}
  <2>1. Index = 1..Len(Reaction) /\ Len(Reaction) \in Nat
    BY TriggerRunsAssumption DEF Index
  <2> QED
    BY <1>2, <2>1
<1>4. b = <<>> \/ b \in Seq(Index)
  <2>1. Matching("*", "pyramid", 0) \in SUBSET Index
    BY DEF Matching, OfType
  <2>2. ById(Matching("*", "pyramid", 0)) \in Seq(Matching("*", "pyramid", 0))
    BY <2>1, ByIdIs
  <2> QED
    BY <2>1, <2>2
<1> HIDE DEF A
<1>5. /\ a \in Seq(A) /\ Len(a) \in Nat
      /\ \A y \in A : \E i \in DOMAIN a : a[i] = y
      /\ \A k, m \in DOMAIN a : k < m => a[k] < a[m]
  BY <1>2, ByIdIs DEF Enumerates
<1> HIDE DEF a, b
<1>6. PICK i \in 1..Len(a) : a[i] = x
  BY <1>1, <1>5
<1>7. 1 \in 1..Len(a) /\ a[1] \in A
  BY <1>5, <1>6
<1>8. a[1] = x
  <2>1. SUFFICES ASSUME a[1] # x PROVE FALSE
    OBVIOUS
  <2>2. 1 < i
    BY <1>6, <2>1
  <2>3. a[1] < x
    BY <1>5, <1>6, <1>7, <2>2
  <2>4. a[1] \in 1..x - 1
    BY <1>1, <1>3, <1>7, <2>3
  <2> QED
    BY <1>1, <1>2, <1>7, <2>4
<1>9. a \o b # <<>> /\ Head(a \o b) = x
  <2>1. a \in Seq(Index) /\ b \in Seq(Index)
    <3>1. <<>> \in Seq(Index)
      OBVIOUS
    <3>2. a \in Seq(Index)
      BY <1>2, <1>5
    <3> QED
      BY <1>4, <3>1, <3>2
  <2>2. (a \o b)[1] = a[1] /\ Len(a \o b) = Len(a) + Len(b) /\ Len(b) \in Nat /\ a \o b \in Seq(Index)
    BY <1>7, <2>1
  <2>3. Len(a \o b) > 0
    BY <1>5, <1>7, <2>2
  <2> QED
    BY <1>8, <2>2, <2>3
<1>10. Finds(c, "pyramid", 0) = a \o b
  BY DEF Finds, A, a, b
<1> QED
  BY <1>9, <1>10

-----------------------------------------------------------------------------
(* What one step of a task is to all the tasks: its own row, and another's *)
(* only in that it is given a slot or the lock.                            *)

\* A row of a task that differs in where the task is.
SameRow(r, q) ==
  q.kind = r.kind /\ q.ch = r.ch /\ q.type = r.type /\ q.ev = r.ev /\ q.size = r.size /\ q.found = r.found

\* Where a task is put by another's step: it is given a slot, or the lock.
Handed(r, q) == q.at = r.at \/ (r.at = "waits" /\ q.at = "in") \/ (r.at = "locked" /\ q.at = "looks")

Others(t) == \A u \in Task \ {t} : SameRow(task[u], task'[u]) /\ Handed(task[u], task'[u])

LEMMA AtSets ==
  ASSUME NEW r, Shaped(r), NEW v
  PROVE  Shaped([r EXCEPT !.at = v]) /\ SameRow(r, [r EXCEPT !.at = v]) /\ [r EXCEPT !.at = v].at = v
<1> DEFINE w == [r EXCEPT !.at = v]
           k == r.kind  c == r.ch  y == r.type  e == r.ev  s == r.size  f == r.found  o == r.todo  a == r.at
<1>1. r = [kind |-> k, at |-> a, ch |-> c, type |-> y, ev |-> e, size |-> s, found |-> f, todo |-> o]
  BY DEF Shaped
<1> HIDE DEF k, c, y, e, s, f, o, a
<1>2. w = [kind |-> k, at |-> v, ch |-> c, type |-> y, ev |-> e, size |-> s, found |-> f, todo |-> o]
  BY <1>1
<1> HIDE DEF w
<1>3. Shaped(w) /\ w.at = v /\ w.kind = k /\ w.ch = c /\ w.type = y /\ w.ev = e /\ w.size = s /\ w.found = f
  BY <1>2 DEF Shaped
<1> QED
  BY <1>3 DEF w, k, c, y, e, s, f, SameRow

LEMMA FoundSets ==
  ASSUME NEW r, Shaped(r), NEW v
  PROVE  /\ Shaped([r EXCEPT !.found = v]) /\ [r EXCEPT !.found = v].at = r.at /\ [r EXCEPT !.found = v].found = v
         /\ [r EXCEPT !.found = v].kind = r.kind /\ [r EXCEPT !.found = v].ch = r.ch
         /\ [r EXCEPT !.found = v].type = r.type /\ [r EXCEPT !.found = v].ev = r.ev /\ [r EXCEPT !.found = v].size = r.size
<1> DEFINE w == [r EXCEPT !.found = v]
           k == r.kind  c == r.ch  y == r.type  e == r.ev  s == r.size  f == r.found  o == r.todo  a == r.at
<1>1. r = [kind |-> k, at |-> a, ch |-> c, type |-> y, ev |-> e, size |-> s, found |-> f, todo |-> o]
  BY DEF Shaped
<1> HIDE DEF k, c, y, e, s, f, o, a
<1>2. w = [kind |-> k, at |-> a, ch |-> c, type |-> y, ev |-> e, size |-> s, found |-> v, todo |-> o]
  BY <1>1
<1> HIDE DEF w
<1>3. Shaped(w) /\ w.at = a /\ w.kind = k /\ w.ch = c /\ w.type = y /\ w.ev = e /\ w.size = s /\ w.found = v
  BY <1>2 DEF Shaped
<1> QED
  BY <1>3 DEF w, k, c, y, e, s, a

LEMMA SameIsSame == \A r : SameRow(r, r) /\ Handed(r, r)
  BY DEF SameRow, Handed

\* One task is put at v.
PutAt(f, g, h, v) ==
  /\ AreTasks(g) /\ \A u \in Task : SameRow(f[u], g[u])
  /\ \A u \in Task \ {h} : g[u] = f[u]
  /\ h \in Task => g[h].at = v

LEMMA AtSame ==
  ASSUME NEW f, AreTasks(f), NEW h, NEW v
  PROVE  PutAt(f, [f EXCEPT ![h].at = v], h, v)
<1> DEFINE g == [f EXCEPT ![h].at = v]
<1>1. g = [u \in Task |-> IF u = h THEN [f[u] EXCEPT !.at = v] ELSE f[u]]
  BY DEF AreTasks
<1>2. \A u \in Task : Shaped(f[u])
  BY DEF AreTasks
<1>3. \A u \in Task : SameRow(f[u], [f[u] EXCEPT !.at = v]) /\ [f[u] EXCEPT !.at = v].at = v
  BY <1>2, AtSets
<1>4. AreTasks(g)
  BY OneAt
<1> HIDE DEF g
<1> QED
  BY <1>1, <1>3, <1>4, SameIsSame DEF g, PutAt

\* One task's row is another now.
LEMMA OneRow ==
  ASSUME AreTasks(task), NEW t \in Task, NEW r, Shaped(r), task' = [task EXCEPT ![t] = r]
  PROVE  AreTasks(task') /\ Others(t) /\ task'[t] = r
<1>1. AreTasks([task EXCEPT ![t] = r]) /\ \A u \in Task \ {t} : [task EXCEPT ![t] = r][u] = task[u]
  BY OneMoved, ZenonT(60)
<1>2. task'[t] = r
  BY DEF AreTasks
<1> QED
  BY <1>1, <1>2, SameIsSame DEF Others

\* Who asks for a slot changes nobody else.
LEMMA AskRows ==
  ASSUME AreTasks(task), NEW t \in Task, NEW to, Shaped(to), AskSlot(t, to)
  PROVE  Others(t) /\ SameRow(to, task'[t]) /\ task'[t].at \in {"in", "waits"} /\ lock' = lock
<1> DEFINE in == [to EXCEPT !.at = "in"]
           waits == [to EXCEPT !.at = "waits"]
<1>1. (task' = [task EXCEPT ![t] = in] \/ task' = [task EXCEPT ![t] = waits]) /\ lock' = lock
  BY DEF AskSlot
<1>2. Shaped(in) /\ in.at = "in" /\ Shaped(waits) /\ waits.at = "waits" /\ SameRow(to, in) /\ SameRow(to, waits)
  BY AtSets
<1> HIDE DEF in, waits
<1>3. Others(t) /\ task'[t] \in {in, waits}
  BY <1>1, <1>2, OneRow
<1> QED
  BY <1>1, <1>2, <1>3

\* Who gives its slot back and asks again hands it on.
LEMMA RegainRows ==
  ASSUME TurnsInv, NEW t \in Task, NEW to, Shaped(to), RegainSlot(t, to), task[t].at \in {"in", "running"}
  PROVE  Others(t) /\ SameRow(to, task'[t]) /\ task'[t].at \in {"in", "waits"} /\ lock' = lock
<1> DEFINE in == [to EXCEPT !.at = "in"]
           waits == [to EXCEPT !.at = "waits"]
           now == [task EXCEPT ![t] = waits]
           h == Head(waiting)
           next == [now EXCEPT ![h].at = "in"]
<1>0. AreTasks(task)
  BY DEF TurnsInv
<1>1. Shaped(in) /\ in.at = "in" /\ Shaped(waits) /\ waits.at = "waits" /\ SameRow(to, in) /\ SameRow(to, waits)
  BY AtSets
<1>2. task' = [task EXCEPT ![t] = in] \/ (waiting # <<>> /\ task' = next)
  BY DEF RegainSlot
<1>3. lock' = lock
  BY DEF RegainSlot
<1> HIDE DEF in, waits
<1>4. CASE task' = [task EXCEPT ![t] = in]
  BY <1>0, <1>1, <1>3, <1>4, OneRow
<1>5. CASE waiting # <<>> /\ task' = next
  <2>1. h \in Task /\ task[h].at = "waits" /\ h # t
    <3>1. h \in Task /\ task[h].at = "waits"
      BY <1>5, QueueMoves DEF TurnsInv
    <3> QED
      BY <3>1
  <2>2. AreTasks(now) /\ now[t] = waits /\ \A u \in Task \ {t} : now[u] = task[u]
    BY <1>0, <1>1, OneMoved DEF AreTasks
  <2> HIDE DEF now, h
  <2>3. (\A u \in Task : SameRow(now[u], next[u])) /\ (\A u \in Task \ {h} : next[u] = now[u]) /\ next[h].at = "in"
    <3>1. PutAt(now, next, h, "in")
      BY <2>2, AtSame
    <3> HIDE DEF next
    <3> QED
      BY <2>1, <3>1 DEF PutAt
  <2> HIDE DEF next
  <2>4. task'[t] = waits
    BY <1>5, <2>1, <2>2, <2>3
  <2>5. ASSUME NEW u \in Task \ {t} PROVE SameRow(task[u], task'[u]) /\ Handed(task[u], task'[u])
    BY <1>5, <2>1, <2>2, <2>3 DEF Handed
  <2> QED
    BY <1>1, <1>3, <2>4, <2>5 DEF Others
<1> QED
  BY <1>2, <1>4, <1>5

\* Its turn is over, and so is the task's.
LEMMA UnlockRows ==
  ASSUME TurnsInv, NEW t \in Task, task[t].at \in HasTurn, NEW g, AreTasks(g), Unlocked(t, g),
         \A u \in Task \ {t} : SameRow(task[u], g[u]) /\ (g[u].at = task[u].at \/ (task[u].at = "waits" /\ g[u].at = "in"))
  PROVE  /\ Others(t) /\ SameRow(g[t], task'[t])
         /\ task[t].kind # "watch" => lock' = lock
         /\ task[t].kind = "watch" => lock' = [lock EXCEPT ![task[t].ch] = Tail(@)]
<1>1. CASE task[t].kind # "watch"
  <2>1. lock' = lock /\ task' = g
    BY <1>1 DEF Unlocked
  <2> QED
    BY <1>1, <2>1, SameIsSame DEF Others, Handed
<1>2. CASE task[t].kind = "watch"
  <2> DEFINE c == task[t].ch
             h == lock[c][2]
             next == [g EXCEPT ![h].at = "looks"]
  <2>1. c \in Channel /\ Tells(task, t)
    BY <1>2 DEF TurnsInv, Known, Tells, HasTurn
  <2>2. lock[c] # <<>> /\ Len(lock[c]) \in Nat \ {0}
    BY <2>1, HasItsTurn DEF TurnsInv
  <2>3. lock' = [lock EXCEPT ![c] = Tail(@)] /\ task' = IF Len(lock[c]) > 1 THEN next ELSE g
    BY <1>2, <2>2 DEF Unlocked
  <2>4. CASE ~(Len(lock[c]) > 1)
    <3>1. task' = g
      BY <2>3, <2>4
    <3> QED
      BY <1>2, <2>3, <3>1, SameIsSame DEF Others, Handed
  <2>5. CASE Len(lock[c]) > 1
    <3>1. 2 \in 1..Len(lock[c])
      BY <2>2, <2>5
    <3>2. task[h].at = "locked"
      BY <2>1, <3>1 DEF TurnsInv, Locks
    <3>3. h \in Task
      BY <2>1, <3>1 DEF TurnsInv, Locks
    <3> HIDE DEF h
    <3>4. (\A u \in Task : SameRow(g[u], next[u])) /\ (\A u \in Task \ {h} : next[u] = g[u]) /\ next[h].at = "looks"
      <4>1. PutAt(g, next, h, "looks")
        BY AtSame
      <4> HIDE DEF next
      <4> QED
        BY <3>3, <4>1 DEF PutAt
    <3>5. task' = next
      BY <2>3, <2>5
    <3> HIDE DEF next, c
    <3>6. ASSUME NEW u \in Task \ {t} PROVE SameRow(task[u], task'[u]) /\ Handed(task[u], task'[u])
      <4>1. SameRow(task[u], task'[u])
        BY <3>4, <3>5 DEF SameRow
      <4>2. CASE u = h
        <5>1. task'[h].at = "looks"
          BY <3>4, <3>5
        <5>2. task[u].at = "locked" /\ task'[u].at = "looks"
          BY <3>2, <4>2, <5>1
        <5> QED
          BY <4>1, <5>2 DEF Handed
      <4>3. CASE u # h
        BY <3>4, <3>5, <4>3 DEF Handed
      <4> QED
        BY <4>1, <4>2, <4>3
    <3>7. SameRow(g[t], task'[t])
      BY <3>4, <3>5
    <3> QED
      BY <1>2, <2>3, <3>6, <3>7 DEF Others, c
  <2> QED
    BY <2>4, <2>5
<1> QED
  BY <1>1, <1>2

\* A task is over: its slot is handed on, and its channel's lock.
LEMMA GiveRows ==
  ASSUME TurnsInv, NEW t \in Task, GiveSlot(t, After(t)), task[t].at \in {"in", "running"}
  PROVE  /\ Others(t) /\ task'[t].kind # "watch"
         /\ task[t].kind # "watch" => lock' = lock
         /\ task[t].kind = "watch" => lock' = [lock EXCEPT ![task[t].ch] = Tail(@)]
<1> DEFINE to == After(t)
           h == Head(waiting)
           now == [task EXCEPT ![t] = to]
           next == [now EXCEPT ![h].at = "in"]
           g == IF waiting = <<>> THEN now ELSE next
<1>1. AreTasks(task) /\ Shaped(to) /\ to.kind # "watch"
  BY AfterShaped, AfterTells DEF TurnsInv, AreTasks
<1>2. Unlocked(t, g)
  BY DEF GiveSlot
<1> HIDE DEF to
<1>3. AreTasks(now) /\ now[t] = to /\ \A u \in Task \ {t} : now[u] = task[u]
  BY <1>1, OneMoved DEF AreTasks
<1> HIDE DEF now
<1>4. ASSUME waiting # <<>> PROVE h \in Task /\ task[h].at = "waits" /\ h # t
  <2>1. h \in Task /\ task[h].at = "waits"
    BY <1>4, QueueMoves DEF TurnsInv
  <2> QED
    BY <2>1
<1>5. ASSUME waiting # <<>>
      PROVE  AreTasks(next) /\ (\A u \in Task : SameRow(now[u], next[u])) /\ (\A u \in Task \ {h} : next[u] = now[u]) /\ next[h].at = "in"
  <2>1. PutAt(now, next, h, "in")
    BY <1>3, AtSame
  <2> HIDE DEF next
  <2> QED
    BY <1>4, <1>5, <2>1 DEF PutAt
<1> HIDE DEF next, h
<1>6. /\ AreTasks(g) /\ SameRow(to, g[t])
      /\ \A u \in Task \ {t} : SameRow(task[u], g[u]) /\ (g[u].at = task[u].at \/ (task[u].at = "waits" /\ g[u].at = "in"))
  <2>1. CASE waiting = <<>>
    BY <1>3, <2>1, SameIsSame
  <2>2. CASE waiting # <<>>
    BY <1>3, <1>4, <1>5, <2>2
  <2> QED
    BY <2>1, <2>2
<1> HIDE DEF g
<1>7. task[t].at \in HasTurn
  BY DEF HasTurn
<1>8. /\ Others(t) /\ SameRow(g[t], task'[t])
      /\ task[t].kind # "watch" => lock' = lock
      /\ task[t].kind = "watch" => lock' = [lock EXCEPT ![task[t].ch] = Tail(@)]
  BY <1>2, <1>6, <1>7, UnlockRows
<1> QED
  BY <1>1, <1>6, <1>8 DEF SameRow

-----------------------------------------------------------------------------
(* What the step of a task is to the events its channel's watcher has      *)
(* raised.                                                                 *)

SameTale(r, q) == q.kind = r.kind /\ q.ch = r.ch /\ q.type = r.type /\ q.ev = r.ev /\ q.size = r.size

\* What the step of a task is to the watchers' events: of a task that tells none, or one of five of those that do.
Aside(t) ==
  /\ task[t].kind # "watch" /\ task'[t].kind # "watch" /\ UNCHANGED <<lock, told>>
  /\ fresh' = fresh \/ (fresh # <<>> /\ t = Head(fresh) /\ fresh' = Tail(fresh))
Queued(t) ==
  /\ task[t].at = "fresh" /\ fresh # <<>> /\ t = Head(fresh) /\ fresh' = Tail(fresh)
  /\ lock' = [lock EXCEPT ![task[t].ch] = Append(@, t)] /\ UNCHANGED told
  /\ SameTale(task[t], task'[t]) /\ task'[t].at \in {"looks", "locked"}
Looked(t) ==
  /\ task[t].at = "looks" /\ Found(t) # <<>> /\ UNCHANGED <<fresh, lock, told>>
  /\ SameTale(task[t], task'[t]) /\ task'[t].found = Found(t) /\ task'[t].at \in {"waits", "in"}
PassedOver(t) ==
  /\ task[t].at = "running" \/ (task[t].at = "in" /\ (task[t].found = <<>> \/ Cooling(t)))
  /\ UNCHANGED <<fresh, lock, told>> /\ SameTale(task[t], task'[t])
  /\ task[t].found # <<>> /\ Tail(task[t].found) # <<>>
  /\ task'[t].found = Tail(task[t].found) /\ task'[t].at \in {"waits", "in"}
Ran(t) ==
  /\ task[t].at = "in" /\ task[t].found # <<>> /\ UNCHANGED <<fresh, lock>>
  /\ SameRow(task[t], task'[t]) /\ task'[t].at = "running"
  /\ told' = [told EXCEPT ![task[t].ch] = Append(@, <<Head(task[t].found), task[t].ev>>)]
Done(t) ==
  /\ \/ task[t].at = "looks" /\ Found(t) = <<>>
     \/ task[t].at = "in" /\ (task[t].found = <<>> \/ Cooling(t))
     \/ task[t].at = "running"
  /\ UNCHANGED <<fresh, told>> /\ lock' = [lock EXCEPT ![task[t].ch] = Tail(@)] /\ task'[t].kind # "watch"

Outcome(t) ==
  /\ Others(t)
  /\ \/ Aside(t)
     \/ task[t].kind = "watch" /\ (Queued(t) \/ Looked(t) \/ PassedOver(t) \/ Ran(t) \/ Done(t))

LEMMA OnwardIs ==
  ASSUME TurnsInv, NEW t \in Task, Onward(t), UNCHANGED <<fresh, told>>,
         task[t].at = "running" \/ (task[t].at = "in" /\ (task[t].kind = "watch" => task[t].found = <<>> \/ Cooling(t)))
  PROVE  Outcome(t)
<1> DEFINE rest == IF task[t].found = <<>> THEN <<>> ELSE Tail(task[t].found)
           to == [task[t] EXCEPT !.found = rest]
           row == [to EXCEPT !.at = "in"]
<1>0. AreTasks(task) /\ Shaped(task[t]) /\ task[t].at \in {"in", "running"}
  BY DEF TurnsInv, AreTasks
<1>1. \/ GiveSlot(t, After(t))
      \/ rest # <<>> /\ task[t].kind = "watch" /\ RegainSlot(t, to)
      \/ task[t].kind # "watch" /\ task' = [task EXCEPT ![t].found = rest, ![t].at = "in"] /\ UNCHANGED <<lock, waiting>>
  BY DEF Onward
<1>2. rest # <<>> => task[t].found # <<>> /\ rest = Tail(task[t].found)
  OBVIOUS
<1> HIDE DEF rest
<1>3. Shaped(to) /\ SameTale(task[t], to) /\ to.found = rest
  BY <1>0, FoundSets DEF SameTale
<1>4. [task EXCEPT ![t].found = rest, ![t].at = "in"] = [task EXCEPT ![t] = row]
  BY <1>0 DEF AreTasks
<1> HIDE DEF to
<1>5. CASE GiveSlot(t, After(t))
  BY <1>0, <1>5, GiveRows DEF Outcome, Aside, Done
<1>6. CASE rest # <<>> /\ task[t].kind = "watch" /\ RegainSlot(t, to)
  <2>1. Others(t) /\ SameRow(to, task'[t]) /\ task'[t].at \in {"in", "waits"} /\ lock' = lock
    BY <1>0, <1>3, <1>6, RegainRows
  <2>2. SameTale(task[t], task'[t]) /\ task'[t].found = rest
    BY <1>3, <2>1 DEF SameTale, SameRow
  <2>3. PassedOver(t)
    BY <1>2, <1>6, <2>1, <2>2 DEF PassedOver
  <2> QED
    BY <1>6, <2>1, <2>3 DEF Outcome
<1>7. CASE task[t].kind # "watch" /\ task' = [task EXCEPT ![t].found = rest, ![t].at = "in"] /\ UNCHANGED <<lock, waiting>>
  <2>1. Shaped(row) /\ row.kind = task[t].kind
    BY <1>3, AtSets DEF SameTale, SameRow
  <2> HIDE DEF row
  <2>2. Others(t) /\ task'[t] = row
    BY <1>0, <1>4, <1>7, <2>1, OneRow
  <2> QED
    BY <1>7, <2>1, <2>2 DEF Outcome, Aside
<1> QED
  BY <1>1, <1>5, <1>6, <1>7

LEMMA BeginIs == ASSUME TurnsInv, NEW t \in Task, Begin(t), UNCHANGED told PROVE Outcome(t)
<1> DEFINE to == [task[t] EXCEPT !.found = Found(t)]
<1>1. fresh # <<>> /\ t = Head(fresh) /\ fresh' = Tail(fresh)
  BY DEF Begin
<1>2. task[t].at = "fresh" /\ AreTasks(task) /\ Shaped(task[t])
  BY <1>1, QueueMoves DEF TurnsInv, AreTasks
<1>3. Shaped(to) /\ to.kind = task[t].kind
  BY <1>2, FoundSets
<1>4. \/ task[t].kind = "watch" /\ UnderLock(t)
      \/ task[t].kind # "watch" /\ AskSlot(t, to)
      \/ task[t].kind # "watch" /\ task' = [task EXCEPT ![t] = Ended] /\ UNCHANGED lock
  BY DEF Begin
<1> HIDE DEF to
<1>5. CASE task[t].kind = "watch" /\ UnderLock(t)
  <2> DEFINE v == IF lock[task[t].ch] = <<>> THEN "looks" ELSE "locked"
             r == [task[t] EXCEPT !.at = v]
  <2>1. lock' = [lock EXCEPT ![task[t].ch] = Append(@, t)] /\ task' = [task EXCEPT ![t] = r]
    BY <1>2, <1>5 DEF UnderLock, AreTasks
  <2>2. v \in {"looks", "locked"}
    OBVIOUS
  <2> HIDE DEF v
  <2>3. Shaped(r) /\ SameRow(task[t], r) /\ r.at = v
    BY <1>2, AtSets
  <2> HIDE DEF r
  <2>4. Others(t) /\ task'[t] = r
    BY <1>2, <2>1, <2>3, OneRow
  <2>5. Queued(t)
    BY <1>1, <1>2, <2>1, <2>2, <2>3, <2>4 DEF Queued, SameTale, SameRow
  <2> QED
    BY <1>5, <2>4, <2>5 DEF Outcome
<1>6. CASE task[t].kind # "watch" /\ AskSlot(t, to)
  <2>1. Others(t) /\ SameRow(to, task'[t]) /\ lock' = lock
    BY <1>2, <1>3, <1>6, AskRows
  <2> QED
    BY <1>1, <1>3, <1>6, <2>1 DEF Outcome, Aside, SameRow
<1>7. CASE task[t].kind # "watch" /\ task' = [task EXCEPT ![t] = Ended] /\ UNCHANGED lock
  <2>1. Others(t) /\ task'[t] = Ended
    BY <1>2, <1>7, EndedShaped, OneRow
  <2>2. Ended.kind # "watch"
    BY DEF Ended
  <2> QED
    BY <1>1, <1>7, <2>1, <2>2 DEF Outcome, Aside
<1> QED
  BY <1>4, <1>5, <1>6, <1>7

LEMMA LookIs == ASSUME TurnsInv, NEW t \in Task, Look(t), UNCHANGED told PROVE Outcome(t)
<1> DEFINE to == [task[t] EXCEPT !.found = Found(t)]
           gone == [task EXCEPT ![t] = Ended]
<1>1. task[t].at = "looks" /\ fresh' = fresh /\ AreTasks(task) /\ Shaped(task[t])
  BY DEF Look, TurnsInv, AreTasks
<1>2. Shaped(to) /\ SameTale(task[t], to) /\ to.found = Found(t)
  BY <1>1, FoundSets DEF SameTale
<1>3. (to.found # <<>> /\ AskSlot(t, to)) \/ (to.found = <<>> /\ Unlocked(t, gone))
  BY DEF Look
<1>4. AreTasks(gone) /\ gone[t] = Ended /\ \A u \in Task \ {t} : gone[u] = task[u]
  BY <1>1, EndedShaped, OneMoved DEF AreTasks
<1> HIDE DEF to, gone
<1>5. task[t].at \in HasTurn
  BY <1>1 DEF HasTurn
<1>6. CASE to.found # <<>> /\ AskSlot(t, to)
  <2>1. Others(t) /\ SameRow(to, task'[t]) /\ task'[t].at \in {"in", "waits"} /\ lock' = lock
    BY <1>1, <1>2, <1>6, AskRows
  <2>2. SameTale(task[t], task'[t]) /\ task'[t].found = Found(t)
    BY <1>2, <2>1 DEF SameTale, SameRow
  <2>3. CASE task[t].kind = "watch"
    <3>1. Looked(t)
      BY <1>1, <1>2, <1>6, <2>1, <2>2 DEF Looked
    <3> QED
      BY <2>1, <2>3, <3>1 DEF Outcome
  <2>4. CASE task[t].kind # "watch"
    BY <1>1, <2>1, <2>2, <2>4 DEF Outcome, Aside, SameTale
  <2> QED
    BY <2>3, <2>4
<1>7. CASE to.found = <<>> /\ Unlocked(t, gone)
  <2>1. \A u \in Task \ {t} : SameRow(task[u], gone[u]) /\ gone[u].at = task[u].at
    BY <1>4, SameIsSame
  <2>2. /\ Others(t) /\ SameRow(gone[t], task'[t])
        /\ task[t].kind # "watch" => lock' = lock
        /\ task[t].kind = "watch" => lock' = [lock EXCEPT ![task[t].ch] = Tail(@)]
    BY <1>4, <1>5, <1>7, <2>1, UnlockRows
  <2>3. task'[t].kind # "watch"
    <3>1. Ended.kind # "watch"
      BY DEF Ended
    <3> QED
      BY <1>4, <2>2, <3>1 DEF SameRow
  <2> QED
    BY <1>1, <1>2, <1>7, <2>2, <2>3 DEF Outcome, Aside, Done
<1> QED
  BY <1>3, <1>6, <1>7

\* Where a task that tells an event can be.
LEMMA WatchAt ==
  ASSUME TurnsInv, NEW t \in Task, task[t].kind = "watch"
  PROVE  task[t].at \in HasTurn \cup {"fresh", "locked"}
<1> SUFFICES ASSUME task[t].at # "fresh" PROVE task[t].at \in HasTurn \cup {"locked"}
  OBVIOUS
<1>1. Tells(task, t) /\ task[t].ch \in Channel
  BY DEF Tells, TurnsInv, Known
<1>2. PICK i \in 1..Len(lock[task[t].ch]) : lock[task[t].ch][i] = t
  BY <1>1 DEF TurnsInv, Locks
<1> QED
  BY <1>1, <1>2 DEF TurnsInv, Locks

LEMMA NextEventIs == ASSUME TurnsInv, NEW t \in Task, NextEvent(t), UNCHANGED told PROVE Outcome(t)
<1> DEFINE todo == task[t].todo
           found == Finds(todo[1][1], todo[1][2], 0)
           r1 == [task[t] EXCEPT !.todo = Tail(todo)]
           r2 == [r1 EXCEPT !.ch = todo[1][1]]
           r3 == [r2 EXCEPT !.type = todo[1][2]]
           to == [r3 EXCEPT !.found = found]
<1>1. task[t].at = "next" /\ fresh' = fresh /\ AreTasks(task) /\ Shaped(task[t])
  BY DEF NextEvent, TurnsInv, AreTasks
<1>2. task[t].kind # "watch"
  BY <1>1, WatchAt DEF HasTurn
<1>3. \/ task' = [task EXCEPT ![t] = Ended] /\ UNCHANGED lock
      \/ AskSlot(t, to)
      \/ task' = [task EXCEPT ![t] = to] /\ UNCHANGED lock
  BY DEF NextEvent
<1> HIDE DEF found, todo
<1>4. Shaped(r1) /\ r1.kind = task[t].kind
  BY <1>1, FieldKept, EventKeeps
<1> HIDE DEF r1
<1>5. Shaped(r2) /\ r2.kind = r1.kind
  BY <1>4, FieldKept, EventKeeps
<1> HIDE DEF r2
<1>6. Shaped(r3) /\ r3.kind = r2.kind
  BY <1>5, FieldKept, EventKeeps
<1> HIDE DEF r3
<1>7. Shaped(to) /\ to.kind = task[t].kind
  BY <1>4, <1>5, <1>6, FoundSets
<1> HIDE DEF to
<1>8. Ended.kind # "watch"
  BY DEF Ended
<1>9. Others(t) /\ task'[t].kind # "watch" /\ lock' = lock
  <2>1. CASE task' = [task EXCEPT ![t] = Ended] /\ UNCHANGED lock
    BY <1>1, <1>8, <2>1, EndedShaped, OneRow
  <2>2. CASE AskSlot(t, to)
    BY <1>1, <1>2, <1>7, <2>2, AskRows DEF SameRow
  <2>3. CASE task' = [task EXCEPT ![t] = to] /\ UNCHANGED lock
    BY <1>1, <1>2, <1>7, <2>3, OneRow
  <2> QED
    BY <1>3, <2>1, <2>2, <2>3
<1> QED
  BY <1>1, <1>2, <1>9 DEF Outcome, Aside

LEMMA TurnIs == ASSUME TurnsInv, NEW t \in Task, Turn(t) PROVE Outcome(t)
<1> DEFINE r == [task[t] EXCEPT !.at = "running"]
           ran == [told EXCEPT ![task[t].ch] = Append(@, <<Head(task[t].found), task[t].ev>>)]
<1>1. task[t].at = "in" /\ fresh' = fresh /\ AreTasks(task) /\ Shaped(task[t])
  BY DEF Turn, TurnsInv, AreTasks
<1>2. \/ Onward(t) /\ told' = told /\ (task[t].found = <<>> \/ Cooling(t))
      \/ /\ task' = [task EXCEPT ![t].at = "running"] /\ UNCHANGED lock
         /\ \/ task[t].kind # "watch" /\ told' = told
            \/ task[t].kind = "watch" /\ task[t].found # <<>> /\ told' = ran
  BY DEF Turn, runVars
<1>3. CASE Onward(t) /\ told' = told /\ (task[t].found = <<>> \/ Cooling(t))
  BY <1>1, <1>3, OnwardIs
<1>4. CASE /\ task' = [task EXCEPT ![t].at = "running"] /\ UNCHANGED lock
           /\ \/ task[t].kind # "watch" /\ told' = told
              \/ task[t].kind = "watch" /\ task[t].found # <<>> /\ told' = ran
  <2>1. task' = [task EXCEPT ![t] = r]
    BY <1>1, <1>4 DEF AreTasks
  <2>2. Shaped(r) /\ SameRow(task[t], r) /\ r.at = "running"
    BY <1>1, AtSets
  <2> HIDE DEF r, ran
  <2>3. Others(t) /\ task'[t] = r
    BY <1>1, <2>1, <2>2, OneRow
  <2>4. CASE task[t].kind # "watch"
    BY <1>1, <1>4, <2>2, <2>3, <2>4 DEF Outcome, Aside, SameRow
  <2>5. CASE task[t].kind = "watch"
    <3>1. Ran(t)
      BY <1>1, <1>4, <2>2, <2>3, <2>5 DEF Ran, ran
    <3> QED
      BY <2>3, <2>5, <3>1 DEF Outcome
  <2> QED
    BY <2>4, <2>5
<1> QED
  BY <1>2, <1>3, <1>4

\* No step of a task is anything else.
LEMMA StepIs == ASSUME TurnsInv, NEW t \in Task, Steps(t) PROVE Outcome(t)
<1>1. CASE (Begin(t) \/ Look(t) \/ NextEvent(t)) /\ UNCHANGED <<runVars, left>>
  BY <1>1, BeginIs, LookIs, NextEventIs DEF runVars
<1>2. CASE Turn(t)
  BY <1>2, TurnIs
<1>3. ASSUME NEW raised, Over(t, raised) PROVE Outcome(t)
  <2>1. task[t].at = "running" /\ UNCHANGED <<fresh, told>> /\ (GiveSlot(t, After(t)) \/ Onward(t))
    BY <1>3 DEF Over, runVars
  <2>2. CASE GiveSlot(t, After(t))
    BY <2>1, <2>2, GiveRows DEF Outcome, Aside, Done
  <2>3. CASE Onward(t)
    BY <2>1, <2>3, OnwardIs
  <2> QED
    BY <2>1, <2>2, <2>3
<1> QED
  BY <1>1, <1>2, <1>3 DEF Steps

-----------------------------------------------------------------------------
(* The order of a channel's events, from the line that raised each to the  *)
(* last trigger that is run for it.                                        *)

Watch(f, t, c) == f[t].kind = "watch" /\ f[t].ch = c

\* Of a channel c with the lines s, the queue l, the runs d so far, and q that have not begun, f being the tasks:
\* each event is what a line has to tell,
IsTale(s, e) == e.line \in 1..Len(s) /\ e \in Tale(s, e.line)
Tales(f, s, d, c) ==
  /\ \A t \in Task : Watch(f, t, c) => f[t].type = "pyramid" /\ f[t].size = 0 /\ IsTale(s, f[t].ev)
  /\ \A i \in 1..Len(d) : IsTale(s, d[i][2])

\* those that wait do in the order of their lines,
InLine(f, l, q, c) ==
  /\ \A i, j \in 1..Len(l) : i < j => f[l[i]].ev.line < f[l[j]].ev.line
  /\ \A i \in 1..Len(l), j \in 1..Len(q) : Watch(f, q[j], c) => f[l[i]].ev.line < f[q[j]].ev.line
  /\ \A i, j \in 1..Len(q) : i < j /\ Watch(f, q[i], c) /\ Watch(f, q[j], c) => f[q[i]].ev.line < f[q[j]].ev.line
  /\ \A t \in Task : Watch(f, t, c) /\ f[t].at = "fresh" => \E i \in 1..Len(q) : q[i] = t

\* what has been run is of lines before theirs, or of the same and not to be run again,
AtIt == {"waits", "in", "running"}
Ahead(r, x) == \E i \in 1..Len(r.found) : r.found[i] = x /\ (r.at = "running" => i > 1)
InTurn(f, d, c) ==
  /\ \A t \in Task : Watch(f, t, c) /\ f[t].at \in AtIt =>
       /\ f[t].found \in Seq(Index) /\ f[t].found # <<>>
       /\ \A i, j \in 1..Len(f[t].found) : f[t].found[i] = f[t].found[j] => i = j
  /\ \A t \in Task, i \in 1..Len(d) : Watch(f, t, c) =>
       /\ d[i][2].line <= f[t].ev.line
       /\ d[i][2].line = f[t].ev.line => f[t].at \in AtIt /\ ~Ahead(f[t], d[i][1])
  /\ \A i, j \in 1..Len(d) : i < j /\ d[i][1] = d[j][1] => d[i][2].line < d[j][2].line

\* and what is to be run for x has been, or will be.
WillRun(r, x) == r.at \in {"fresh", "locked", "looks"} \/ (r.at \in {"waits", "in"} /\ Head(r.found) = x)
NoneMissed(f, s, d, c) ==
  \A x \in Index : Unhindered(c, x) =>
    \A i \in 1..Len(s) : Tale(s, i) # {} =>
      \/ \E j \in 1..Len(d) : d[j][1] = x /\ d[j][2].line = i
      \/ \E t \in Task : Watch(f, t, c) /\ f[t].ev.line = i /\ WillRun(f[t], x)

\* A sequence, of anything.
IsSeq(s) == \E X : s \in Seq(X)

InOrder(f, l, q, s, d, c) ==
  /\ IsSeq(d) /\ Tales(f, s, d, c) /\ InLine(f, l, q, c) /\ InTurn(f, d, c) /\ NoneMissed(f, s, d, c)

\* What is never turned off is on.
AlwaysOn == armed \subseteq Index /\ \A x \in Index : Reaction[x].steady => x \in armed

LEMMA Appended ==
  ASSUME NEW s, IsSeq(s), NEW e
  PROVE  /\ IsSeq(Append(s, e)) /\ Len(s) \in Nat /\ Len(Append(s, e)) = Len(s) + 1
         /\ (\A i \in 1..Len(s) : Append(s, e)[i] = s[i]) /\ Append(s, e)[Len(s) + 1] = e
<1>1. PICK X : s \in Seq(X)
  BY DEF IsSeq
<1>2. s \in Seq(X \cup {e}) /\ e \in X \cup {e}
  BY <1>1
<1> DEFINE Y == X \cup {e}
<1>3. s \in Seq(Y) /\ e \in Y
  BY <1>2
<1> HIDE DEF Y
<1>4. Append(s, e) \in Seq(Y)
  BY <1>3
<1>5. /\ Len(s) \in Nat /\ Len(Append(s, e)) = Len(s) + 1
      /\ (\A i \in 1..Len(s) : Append(s, e)[i] = s[i]) /\ Append(s, e)[Len(s) + 1] = e
  BY <1>3
<1> QED
  BY <1>4, <1>5 DEF IsSeq

-----------------------------------------------------------------------------
(* The queues. *)

LEMMA TailIs ==
  ASSUME NEW X, NEW q \in Seq(X), q # <<>>
  PROVE  /\ Tail(q) \in Seq(X) /\ Len(q) \in Nat \ {0} /\ Len(Tail(q)) = Len(q) - 1 /\ Head(q) = q[1] /\ q[1] \in X
         /\ \A i \in 1..Len(Tail(q)) : Tail(q)[i] = q[i + 1] /\ i + 1 \in 1..Len(q)
  OBVIOUS

LEMMA LineKept ==
  ASSUME NEW f, NEW g, NEW l \in Seq(Task), NEW q \in Seq(Task), NEW c, InLine(f, l, q, c),
         \A i \in 1..Len(l) : g[l[i]].ev = f[l[i]].ev,
         \A u \in Task : Watch(g, u, c) => Watch(f, u, c) /\ g[u].ev = f[u].ev,
         \A u \in Task : Watch(g, u, c) /\ g[u].at = "fresh" => f[u].at = "fresh"
  PROVE  InLine(g, l, q, c)
<1>1. \A i \in 1..Len(q) : q[i] \in Task
  OBVIOUS
<1> QED
  BY <1>1 DEF InLine

\* The first that has not begun goes, none of this channel's, or to its queue.
LEMMA LineTail ==
  ASSUME NEW f, NEW l \in Seq(Task), NEW q \in Seq(Task), NEW c, InLine(f, l, q, c), q # <<>>,
         ~(Watch(f, Head(q), c) /\ f[Head(q)].at = "fresh")
  PROVE  InLine(f, l, Tail(q), c)
<1> DEFINE r == Tail(q)
<1>1. /\ Len(q) \in Nat \ {0} /\ Len(r) = Len(q) - 1 /\ Head(q) = q[1]
      /\ \A i \in 1..Len(r) : r[i] = q[i + 1] /\ i + 1 \in 1..Len(q)
  BY TailIs
<1> HIDE DEF r
<1>2. \A i \in 1..Len(l), j \in 1..Len(r) : Watch(f, r[j], c) => f[l[i]].ev.line < f[r[j]].ev.line
  BY <1>1 DEF InLine
<1>3. \A i, j \in 1..Len(r) : i < j /\ Watch(f, r[i], c) /\ Watch(f, r[j], c) => f[r[i]].ev.line < f[r[j]].ev.line
  <2> SUFFICES ASSUME NEW i \in 1..Len(r), NEW j \in 1..Len(r), i < j, Watch(f, r[i], c), Watch(f, r[j], c)
               PROVE  f[r[i]].ev.line < f[r[j]].ev.line
    OBVIOUS
  <2>1. i + 1 < j + 1 /\ r[i] = q[i + 1] /\ r[j] = q[j + 1] /\ i + 1 \in 1..Len(q) /\ j + 1 \in 1..Len(q)
    BY <1>1
  <2> QED
    BY <2>1 DEF InLine
<1>4. ASSUME NEW t \in Task, Watch(f, t, c), f[t].at = "fresh" PROVE \E i \in 1..Len(r) : r[i] = t
  <2>1. PICK i \in 1..Len(q) : q[i] = t
    BY <1>4 DEF InLine
  <2>2. i # 1
    BY <1>1, <1>4, <2>1
  <2>3. i - 1 \in 1..Len(r) /\ (i - 1) + 1 = i
    BY <1>1, <2>2
  <2> QED
    BY <1>1, <2>1, <2>3
<1> QED
  BY <1>2, <1>3, <1>4 DEF InLine, r

\* The first that has not begun joins its channel's queue.
LEMMA LineJoin ==
  ASSUME NEW f, NEW g, NEW l \in Seq(Task), NEW q \in Seq(Task), NEW c, InLine(f, l, q, c), q # <<>>, Watch(f, Head(q), c),
         \A i \in 1..Len(l) : g[l[i]].ev = f[l[i]].ev,
         \A u \in Task : Watch(g, u, c) => Watch(f, u, c), \A u \in Task : g[u].ev = f[u].ev,
         \A u \in Task : Watch(g, u, c) /\ g[u].at = "fresh" => f[u].at = "fresh", g[Head(q)].at # "fresh"
  PROVE  InLine(g, Append(l, Head(q)), Tail(q), c)
<1> DEFINE r == Tail(q)
           m == Append(l, Head(q))
<1>1. /\ Len(q) \in Nat \ {0} /\ Len(r) = Len(q) - 1 /\ Head(q) = q[1] /\ q[1] \in Task
      /\ \A i \in 1..Len(r) : r[i] = q[i + 1] /\ i + 1 \in 1..Len(q)
  BY TailIs
<1>2. /\ Len(l) \in Nat /\ Len(m) = Len(l) + 1 /\ m[Len(l) + 1] = q[1]
      /\ \A i \in 1..Len(l) : m[i] = l[i] /\ l[i] \in Task
  BY <1>1
<1> HIDE DEF r, m
<1>3. \A i \in 1..Len(m) : i \in 1..Len(l) \/ i = Len(l) + 1
  BY <1>2
<1>4. \A i \in 1..Len(r) : r[i] \in Task
  BY <1>1
<1>5. ASSUME NEW i \in 1..Len(m), NEW j \in 1..Len(m), i < j PROVE g[m[i]].ev.line < g[m[j]].ev.line
  <2>1. i \in 1..Len(l) /\ m[i] = l[i]
    BY <1>2, <1>5
  <2>2. CASE j \in 1..Len(l)
    BY <1>2, <1>5, <2>1, <2>2 DEF InLine
  <2>3. CASE j = Len(l) + 1
    <3>1. 1 \in 1..Len(q) /\ Watch(f, q[1], c)
      BY <1>1
    <3> QED
      BY <1>1, <1>2, <2>1, <2>3, <3>1 DEF InLine
  <2> QED
    BY <1>3, <2>2, <2>3
<1>6. ASSUME NEW i \in 1..Len(m), NEW j \in 1..Len(r), Watch(g, r[j], c) PROVE g[m[i]].ev.line < g[r[j]].ev.line
  <2>1. r[j] = q[j + 1] /\ j + 1 \in 1..Len(q) /\ 1 < j + 1 /\ 1 \in 1..Len(q) /\ Watch(f, q[j + 1], c)
    BY <1>1, <1>4, <1>6
  <2>2. CASE i \in 1..Len(l)
    BY <1>2, <1>4, <2>1, <2>2 DEF InLine
  <2>3. CASE i = Len(l) + 1
    <3>1. f[q[1]].ev.line < f[q[j + 1]].ev.line
      BY <1>1, <2>1 DEF InLine
    <3> QED
      BY <1>1, <1>2, <1>4, <2>1, <2>3, <3>1
  <2> QED
    BY <1>3, <2>2, <2>3
<1>7. ASSUME NEW i \in 1..Len(r), NEW j \in 1..Len(r), i < j, Watch(g, r[i], c), Watch(g, r[j], c)
      PROVE  g[r[i]].ev.line < g[r[j]].ev.line
  <2>1. i + 1 < j + 1 /\ r[i] = q[i + 1] /\ r[j] = q[j + 1] /\ i + 1 \in 1..Len(q) /\ j + 1 \in 1..Len(q)
    BY <1>1, <1>7
  <2>2. Watch(f, q[i + 1], c) /\ Watch(f, q[j + 1], c) /\ r[i] \in Task /\ r[j] \in Task
    BY <1>4, <1>7, <2>1
  <2>3. f[q[i + 1]].ev.line < f[q[j + 1]].ev.line
    BY <2>1, <2>2 DEF InLine
  <2> QED
    BY <2>1, <2>2, <2>3
<1>8. ASSUME NEW t \in Task, Watch(g, t, c), g[t].at = "fresh" PROVE \E i \in 1..Len(r) : r[i] = t
  <2>1. PICK i \in 1..Len(q) : q[i] = t
    BY <1>8 DEF InLine
  <2>2. i # 1
    BY <1>1, <1>8, <2>1
  <2>3. i - 1 \in 1..Len(r) /\ (i - 1) + 1 = i
    BY <1>1, <2>2
  <2> QED
    BY <1>1, <2>1, <2>3
<1> QED
  BY <1>5, <1>6, <1>7, <1>8 DEF InLine, r, m

\* The first of the queue leaves it.
LEMMA LinePass ==
  ASSUME NEW f, NEW l \in Seq(Task), NEW q, NEW c, InLine(f, l, q, c), l # <<>>
  PROVE  InLine(f, Tail(l), q, c)
<1> DEFINE r == Tail(l)
<1>1. Len(l) \in Nat \ {0} /\ Len(r) = Len(l) - 1 /\ \A i \in 1..Len(r) : r[i] = l[i + 1] /\ i + 1 \in 1..Len(l)
  BY TailIs
<1> HIDE DEF r
<1>2. ASSUME NEW i \in 1..Len(r), NEW j \in 1..Len(r), i < j PROVE f[r[i]].ev.line < f[r[j]].ev.line
  <2>1. i + 1 < j + 1 /\ r[i] = l[i + 1] /\ r[j] = l[j + 1] /\ i + 1 \in 1..Len(l) /\ j + 1 \in 1..Len(l)
    BY <1>1, <1>2
  <2> QED
    BY <2>1 DEF InLine
<1>3. \A i \in 1..Len(r), j \in 1..Len(q) : Watch(f, q[j], c) => f[r[i]].ev.line < f[q[j]].ev.line
  BY <1>1 DEF InLine
<1> QED
  BY <1>2, <1>3 DEF InLine, r

-----------------------------------------------------------------------------
(* A step of a task, and those of the others. *)

LEMMA OthersAre ==
  ASSUME NEW t, Others(t), NEW u \in Task \ {t}, NEW c
  PROVE  /\ Watch(task', u, c) <=> Watch(task, u, c)
         /\ task'[u].ev = task[u].ev /\ task'[u].found = task[u].found /\ task'[u].type = task[u].type
         /\ task'[u].size = task[u].size
         /\ task'[u].at \in AtIt <=> task[u].at \in AtIt
         /\ task'[u].at = "fresh" => task[u].at = "fresh"
         /\ \A x : Ahead(task'[u], x) => Ahead(task[u], x)
         /\ \A x : WillRun(task[u], x) => WillRun(task'[u], x)
<1>1. SameRow(task[u], task'[u]) /\ Handed(task[u], task'[u])
  BY DEF Others
<1>2. Watch(task', u, c) <=> Watch(task, u, c)
  BY <1>1 DEF Watch, SameRow
<1>3. task'[u].at \in AtIt <=> task[u].at \in AtIt
  BY <1>1 DEF Handed, AtIt
<1>4. \A x : Ahead(task'[u], x) => Ahead(task[u], x)
  BY <1>1 DEF Handed, SameRow, Ahead
<1>5. \A x : WillRun(task[u], x) => WillRun(task'[u], x)
  BY <1>1 DEF Handed, SameRow, WillRun
<1> QED
  BY <1>1, <1>2, <1>3, <1>4, <1>5 DEF SameRow, Handed

\* What is told, and will be, is of its line still.
LEMMA TalesOn ==
  ASSUME NEW t \in Task, Others(t), NEW c, NEW s, NEW d, Tales(task, s, d, c),
         Watch(task', t, c) => Watch(task, t, c) /\ SameTale(task[t], task'[t])
  PROVE  Tales(task', s, d, c)
<1> SUFFICES ASSUME NEW u \in Task, Watch(task', u, c)
             PROVE  task'[u].type = "pyramid" /\ task'[u].size = 0 /\ IsTale(s, task'[u].ev)
  BY DEF Tales
<1>1. CASE u = t
  BY <1>1 DEF Tales, SameTale
<1>2. CASE u # t
  <2>1. u \in Task \ {t}
    BY <1>2
  <2>2. Watch(task, u, c) /\ task'[u].ev = task[u].ev /\ task'[u].type = task[u].type /\ task'[u].size = task[u].size
    BY <2>1, OthersAre
  <2> QED
    BY <2>2 DEF Tales
<1> QED
  BY <1>1, <1>2

\* Of those that have been run and that are, or will be, none twice.
LEMMA TurnOn ==
  ASSUME NEW t \in Task, Others(t), NEW c, NEW d, InTurn(task, d, c),
         Watch(task', t, c) =>
           /\ Watch(task, t, c) /\ task'[t].ev = task[t].ev
           /\ task'[t].at \in AtIt =>
                /\ task'[t].found \in Seq(Index) /\ task'[t].found # <<>>
                /\ \A i, j \in 1..Len(task'[t].found) : task'[t].found[i] = task'[t].found[j] => i = j
           /\ task[t].at \in AtIt => task'[t].at \in AtIt /\ \A x : Ahead(task'[t], x) => Ahead(task[t], x)
  PROVE  InTurn(task', d, c)
<1>1. ASSUME NEW u \in Task, Watch(task', u, c)
      PROVE  /\ Watch(task, u, c) /\ task'[u].ev = task[u].ev
             /\ task'[u].at \in AtIt =>
                  /\ task'[u].found \in Seq(Index) /\ task'[u].found # <<>>
                  /\ \A i, j \in 1..Len(task'[u].found) : task'[u].found[i] = task'[u].found[j] => i = j
             /\ task[u].at \in AtIt => task'[u].at \in AtIt /\ \A x : Ahead(task'[u], x) => Ahead(task[u], x)
  <2>1. CASE u = t
    BY <1>1, <2>1
  <2>2. CASE u # t
    <3>1. u \in Task \ {t}
      BY <2>2
    <3>2. Watch(task, u, c) /\ task'[u].ev = task[u].ev /\ task'[u].found = task[u].found
          /\ (task'[u].at \in AtIt <=> task[u].at \in AtIt) /\ \A x : Ahead(task'[u], x) => Ahead(task[u], x)
      BY <1>1, <3>1, OthersAre
    <3>3. task[u].at \in AtIt =>
            /\ task[u].found \in Seq(Index) /\ task[u].found # <<>>
            /\ \A i, j \in 1..Len(task[u].found) : task[u].found[i] = task[u].found[j] => i = j
      BY <3>2 DEF InTurn
    <3> QED
      BY <3>2, <3>3
  <2> QED
    BY <2>1, <2>2
<1>2. \A u \in Task : Watch(task', u, c) /\ task'[u].at \in AtIt =>
        /\ task'[u].found \in Seq(Index) /\ task'[u].found # <<>>
        /\ \A i, j \in 1..Len(task'[u].found) : task'[u].found[i] = task'[u].found[j] => i = j
  BY <1>1
<1>3. ASSUME NEW u \in Task, NEW i \in 1..Len(d), Watch(task', u, c)
      PROVE  /\ d[i][2].line <= task'[u].ev.line
             /\ d[i][2].line = task'[u].ev.line => task'[u].at \in AtIt /\ ~Ahead(task'[u], d[i][1])
  <2>1. /\ Watch(task, u, c) /\ task'[u].ev = task[u].ev
        /\ task[u].at \in AtIt => task'[u].at \in AtIt /\ \A x : Ahead(task'[u], x) => Ahead(task[u], x)
    BY <1>1, <1>3
  <2>2. /\ d[i][2].line <= task[u].ev.line
        /\ d[i][2].line = task[u].ev.line => task[u].at \in AtIt /\ ~Ahead(task[u], d[i][1])
    BY <2>1 DEF InTurn
  <2> QED
    BY <2>1, <2>2
<1>4. \A i, j \in 1..Len(d) : i < j /\ d[i][1] = d[j][1] => d[i][2].line < d[j][2].line
  BY DEF InTurn
<1> QED
  BY <1>2, <1>3, <1>4 DEF InTurn

\* What is to be run is to be run still, unless it was this task that would.
LEMMA MissedOn ==
  ASSUME NEW t \in Task, Others(t), NEW c, NEW s, NEW d, NoneMissed(task, s, d, c),
         \A x \in Index : Unhindered(c, x) /\ Watch(task, t, c) /\ WillRun(task[t], x) =>
           Watch(task', t, c) /\ task'[t].ev = task[t].ev /\ WillRun(task'[t], x)
  PROVE  NoneMissed(task', s, d, c)
<1> SUFFICES ASSUME NEW x \in Index, Unhindered(c, x), NEW i \in 1..Len(s), Tale(s, i) # {},
                    ~ \E j \in 1..Len(d) : d[j][1] = x /\ d[j][2].line = i
             PROVE  \E u \in Task : Watch(task', u, c) /\ task'[u].ev.line = i /\ WillRun(task'[u], x)
  BY DEF NoneMissed
<1>1. PICK u \in Task : Watch(task, u, c) /\ task[u].ev.line = i /\ WillRun(task[u], x)
  BY DEF NoneMissed
<1>2. CASE u = t
  BY <1>1, <1>2
<1>3. CASE u # t
  <2>1. u \in Task \ {t}
    BY <1>3
  <2>2. Watch(task', u, c) /\ task'[u].ev = task[u].ev /\ WillRun(task'[u], x)
    BY <1>1, <2>1, OthersAre
  <2> QED
    BY <1>1, <2>2
<1> QED
  BY <1>2, <1>3

\* Nothing holds what is unhindered.
LEMMA NothingHolds ==
  ASSUME NEW c \in Channel, NEW x \in Index, Unhindered(c, x), NEW t, task[t].ch = c, Head(task[t].found) = x
  PROVE  ~Cooling(t)
<1>1. /\ Reaction[x].type = "pyramid" /\ Holds(<<x, c, "">>) + Reaction[x].holdUser = 0
      /\ Reaction[x].hold \in Nat /\ Reaction[x].holdUser \in Nat
  BY TriggerRunsAssumption DEF Unhindered, Index
<1>2. Holds(<<x, c, "">>) = HoldOf(x) /\ HoldOf(x) = Reaction[x].hold
  BY <1>1 DEF Holds, HoldOf
<1> DEFINE h == Reaction[x].hold
           g == Reaction[x].holdUser
<1>3. HoldOf(x) = 0 /\ Reaction[x].holdUser = 0
  <2>1. h + g = 0 /\ h \in Nat /\ g \in Nat /\ HoldOf(x) = h
    BY <1>1, <1>2
  <2> HIDE DEF h, g
  <2>2. h = 0 /\ g = 0
    BY <2>1
  <2> QED
    BY <2>1, <2>2 DEF g
<1>4. ASSUME NEW k \in KeysOf(t) PROVE FALSE
  <2>1. k \in Keys /\ k[1] = x
    BY DEF KeysOf
  <2>2. Holds(k) = 0
    BY <1>3, <2>1 DEF Holds
  <2>3. Holds(k) > 0
    BY <2>1 DEF Keys
  <2> QED
    BY <2>2, <2>3
<1> QED
  BY <1>4 DEF Cooling

\* Who has the turn tells the first of the lines there is to tell of.
LEMMA TurnFirst ==
  ASSUME TurnsInv, NEW c \in Channel, InLine(task, lock[c], fresh, c), NEW t \in Task, Watch(task, t, c),
         task[t].at \in HasTurn, NEW u \in Task, u # t, Watch(task, u, c)
  PROVE  task[t].ev.line < task[u].ev.line
<1>1. Tells(task, t) /\ task[t].ch = c
  BY DEF Tells, Watch, HasTurn
<1>2. Len(lock[c]) \in Nat \ {0} /\ lock[c][1] = t
  BY <1>1, HasItsTurn DEF TurnsInv
<1>3. CASE task[u].at = "fresh"
  <2>1. PICK i \in 1..Len(fresh) : fresh[i] = u
    BY <1>3 DEF InLine
  <2>2. 1 \in 1..Len(lock[c])
    BY <1>2
  <2> QED
    BY <1>2, <2>1, <2>2 DEF InLine
<1>4. CASE task[u].at # "fresh"
  <2>1. Tells(task, u) /\ task[u].ch = c
    BY <1>4 DEF Tells, Watch
  <2>2. PICK i \in 1..Len(lock[c]) : lock[c][i] = u
    BY <2>1 DEF TurnsInv, Locks
  <2>3. 1 \in 1..Len(lock[c]) /\ 1 < i
    BY <1>2, <2>2
  <2> QED
    BY <1>2, <2>2, <2>3 DEF InLine
<1> QED
  BY <1>3, <1>4

-----------------------------------------------------------------------------
(* The order of the queues, whoever steps. *)

LEMMA LineStep ==
  ASSUME TurnsInv, NEW t \in Task, Outcome(t), NEW c \in Channel, InLine(task, lock[c], fresh, c)
  PROVE  InLine(task', lock'[c], fresh', c)
<1> DEFINE l == lock[c]
           q == fresh
<1>1. /\ l \in Seq(Task) /\ q \in Seq(Task) /\ lock \in [Channel -> Seq(Task)]
      /\ \A i \in 1..Len(l) : l[i] \in Task /\ Tells(task, l[i]) /\ task[l[i]].ch = c
      /\ \A i, j \in 1..Len(l) : l[i] = l[j] => i = j
  BY DEF TurnsInv, Locks, Queues
<1>2. \A u \in Task \ {t} : /\ Watch(task', u, c) <=> Watch(task, u, c)
                            /\ task'[u].ev = task[u].ev /\ (task'[u].at = "fresh" => task[u].at = "fresh")
  BY OthersAre DEF Outcome
<1>3. CASE Aside(t)
  <2>1. \A i \in 1..Len(l) : task'[l[i]].ev = task[l[i]].ev
    BY <1>1, <1>2, <1>3 DEF Aside, Tells
  <2>2. \A u \in Task : Watch(task', u, c) => Watch(task, u, c) /\ task'[u].ev = task[u].ev
    BY <1>2, <1>3 DEF Aside, Watch
  <2>3. \A u \in Task : Watch(task', u, c) /\ task'[u].at = "fresh" => task[u].at = "fresh"
    BY <1>2, <1>3 DEF Aside, Watch
  <2>4. InLine(task, l, fresh', c) /\ fresh' \in Seq(Task) /\ lock'[c] = l
    <3>1. CASE fresh' = fresh
      BY <1>1, <1>3, <3>1 DEF Aside
    <3>2. CASE fresh # <<>> /\ t = Head(fresh) /\ fresh' = Tail(fresh)
      <4>1. ~Watch(task, Head(q), c) /\ lock'[c] = l
        BY <1>3, <3>2 DEF Aside, Watch
      <4>2. InLine(task, l, Tail(q), c)
        BY <1>1, <3>2, <4>1, LineTail
      <4> QED
        BY <1>1, <3>2, <4>1, <4>2
    <3> QED
      BY <1>3, <3>1, <3>2 DEF Aside
  <2> QED
    BY <1>1, <2>1, <2>2, <2>3, <2>4, LineKept
<1>4. CASE task[t].kind = "watch" /\ Queued(t) /\ task[t].ch = c
  <2>1. /\ fresh # <<>> /\ t = Head(fresh) /\ fresh' = Tail(fresh) /\ lock'[c] = Append(l, t)
        /\ task'[t].ev = task[t].ev /\ task'[t].at # "fresh" /\ Watch(task, t, c)
    BY <1>1, <1>4 DEF Queued, SameTale, Watch
  <2>2. \A u \in Task : task'[u].ev = task[u].ev /\ (Watch(task', u, c) => Watch(task, u, c))
    BY <1>2, <2>1
  <2>3. \A u \in Task : Watch(task', u, c) /\ task'[u].at = "fresh" => task[u].at = "fresh"
    BY <1>2, <2>1
  <2> QED
    BY <1>1, <2>1, <2>2, <2>3, LineJoin, SMTT(60)
<1>5. CASE task[t].kind = "watch" /\ Queued(t) /\ task[t].ch # c
  <2>1. /\ fresh # <<>> /\ t = Head(fresh) /\ fresh' = Tail(fresh) /\ lock'[c] = l
        /\ ~Watch(task, t, c) /\ ~Watch(task', t, c)
    BY <1>1, <1>5 DEF Queued, SameTale, Watch
  <2>2. InLine(task, l, Tail(q), c) /\ Tail(q) \in Seq(Task)
    <3>1. Tail(q) \in Seq(Task)
      BY <1>1, <2>1
    <3>2. ~(Watch(task, Head(q), c) /\ task[Head(q)].at = "fresh")
      BY <2>1
    <3> HIDE DEF l, q
    <3>3. q # <<>>
      BY <2>1 DEF q
    <3>4. InLine(task, l, q, c)
      BY DEF l, q
    <3>5. InLine(task, l, Tail(q), c)
      BY <1>1, <3>2, <3>3, <3>4, LineTail
    <3> QED
      BY <3>1, <3>5
  <2>3. \A i \in 1..Len(l) : task'[l[i]].ev = task[l[i]].ev
    BY <1>1, <1>2, <2>1 DEF Tells, Watch
  <2>4. \A u \in Task : Watch(task', u, c) => /\ Watch(task, u, c) /\ task'[u].ev = task[u].ev
                                              /\ task'[u].at = "fresh" => task[u].at = "fresh"
    BY <1>2, <2>1
  <2> QED
    BY <1>1, <2>1, <2>2, <2>3, <2>4, LineKept, ZenonT(60)
<1>6. CASE task[t].kind = "watch" /\ (Looked(t) \/ PassedOver(t) \/ Ran(t))
  <2>1. /\ fresh' = fresh /\ lock'[c] = l /\ task'[t].ev = task[t].ev /\ task'[t].at # "fresh"
        /\ Watch(task', t, c) <=> Watch(task, t, c)
    BY <1>6 DEF Looked, PassedOver, Ran, SameTale, SameRow, Watch
  <2>2. \A i \in 1..Len(l) : task'[l[i]].ev = task[l[i]].ev
    BY <1>1, <1>2, <2>1
  <2>3. \A u \in Task : Watch(task', u, c) => /\ Watch(task, u, c) /\ task'[u].ev = task[u].ev
                                              /\ task'[u].at = "fresh" => task[u].at = "fresh"
    BY <1>2, <2>1
  <2> QED
    BY <1>1, <2>1, <2>2, <2>3, LineKept
<1>7. CASE task[t].kind = "watch" /\ Done(t)
  <2>1. fresh' = fresh /\ ~Watch(task', t, c) /\ lock' = [lock EXCEPT ![task[t].ch] = Tail(@)]
    BY <1>7 DEF Done, Watch
  <2>2. \A u \in Task : Watch(task', u, c) => /\ Watch(task, u, c) /\ task'[u].ev = task[u].ev
                                              /\ task'[u].at = "fresh" => task[u].at = "fresh"
    BY <1>2, <2>1
  <2>3. CASE task[t].ch # c
    <3>1. lock'[c] = l
      BY <1>1, <2>1, <2>3
    <3>2. \A i \in 1..Len(l) : task'[l[i]].ev = task[l[i]].ev
      BY <1>1, <1>2, <2>3
    <3> QED
      BY <1>1, <2>1, <2>2, <3>1, <3>2, LineKept, ZenonT(60)
  <2>4. CASE task[t].ch = c
    <3>1. lock'[c] = Tail(l)
      BY <1>1, <2>1, <2>4
    <3>2. Tells(task, t) /\ task[t].at \in HasTurn
      BY <1>7 DEF Done, Tells, HasTurn
    <3>3. l # <<>> /\ l[1] = t
      BY <2>4, <3>2, HasItsTurn DEF TurnsInv
    <3> HIDE DEF l
    <3>4. InLine(task, Tail(l), q, c)
      BY <1>1, <3>3, LinePass DEF l
    <3>5. Tail(l) \in Seq(Task) /\ \A i \in 1..Len(Tail(l)) : Tail(l)[i] = l[i + 1] /\ i + 1 \in 1..Len(l) /\ i + 1 # 1
      BY <1>1, <3>3, TailIs
    <3>6. \A i \in 1..Len(Tail(l)) : Tail(l)[i] \in Task \ {t}
      <4> SUFFICES ASSUME NEW i \in 1..Len(Tail(l)) PROVE Tail(l)[i] \in Task \ {t}
        OBVIOUS
      <4>1. 1 \in 1..Len(l) /\ i + 1 \in 1..Len(l) /\ i + 1 # 1
        BY <1>1, <3>5
      <4> QED
        BY <1>1, <3>3, <3>5, <4>1
    <3>7. \A i \in 1..Len(Tail(l)) : task'[Tail(l)[i]].ev = task[Tail(l)[i]].ev
      BY <1>2, <3>6
    <3> DEFINE r == Tail(l)
    <3>8. r \in Seq(Task) /\ q \in Seq(Task) /\ InLine(task, r, q, c) /\ \A i \in 1..Len(r) : task'[r[i]].ev = task[r[i]].ev
      BY <1>1, <3>4, <3>5, <3>7
    <3>9. lock'[c] = r /\ fresh' = q
      BY <2>1, <3>1
    <3> HIDE DEF r, q
    <3>10. /\ \A u \in Task : Watch(task', u, c) => Watch(task, u, c) /\ task'[u].ev = task[u].ev
           /\ \A u \in Task : Watch(task', u, c) /\ task'[u].at = "fresh" => task[u].at = "fresh"
      BY <2>2
    <3>11. InLine(task', r, q, c)
      BY <3>8, <3>10, LineKept
    <3> QED
      BY <3>9, <3>11
  <2> QED
    BY <2>3, <2>4
<1> QED
  BY <1>3, <1>4, <1>5, <1>6, <1>7 DEF Outcome

-----------------------------------------------------------------------------
(* A trigger is run, and what is told of it. *)

LEMMA RanTales ==
  ASSUME NEW t \in Task, Others(t), NEW c, NEW s, NEW d, IsSeq(d), Tales(task, s, d, c), Watch(task, t, c), Ran(t), NEW h
  PROVE  Tales(task', s, Append(d, <<h, task[t].ev>>), c)
<1> DEFINE e == <<h, task[t].ev>>
           n == Append(d, e)
<1>1. Len(d) \in Nat /\ Len(n) = Len(d) + 1 /\ (\A i \in 1..Len(d) : n[i] = d[i]) /\ n[Len(d) + 1] = e
  BY Appended
<1>2. e[2] = task[t].ev
  OBVIOUS
<1> HIDE DEF e, n
<1>3. Watch(task', t, c) /\ SameTale(task[t], task'[t])
  BY DEF Ran, SameRow, SameTale, Watch
<1>4. Tales(task', s, d, c)
  BY <1>3, TalesOn
<1>5. IsTale(s, task[t].ev)
  BY DEF Tales
<1>6. ASSUME NEW i \in 1..Len(n) PROVE IsTale(s, n[i][2])
  <2>1. i \in 1..Len(d) \/ i = Len(d) + 1
    BY <1>1
  <2> QED
    BY <1>1, <1>2, <1>4, <1>5, <2>1 DEF Tales
<1>7. \A u \in Task : Watch(task', u, c) => task'[u].type = "pyramid" /\ task'[u].size = 0 /\ IsTale(s, task'[u].ev)
  BY <1>4 DEF Tales
<1> QED
  BY <1>6, <1>7 DEF Tales, e, n

LEMMA RanTurn ==
  ASSUME TurnsInv, NEW t \in Task, Others(t), NEW c \in Channel, NEW s, Len(s) \in Nat, NEW d, IsSeq(d), Tales(task, s, d, c),
         InLine(task, lock[c], fresh, c), InTurn(task, d, c), Watch(task, t, c), Ran(t)
  PROVE  InTurn(task', Append(d, <<Head(task[t].found), task[t].ev>>), c)
<1> DEFINE h == Head(task[t].found)
           e == <<h, task[t].ev>>
           n == Append(d, e)
<1>1. Len(d) \in Nat /\ Len(n) = Len(d) + 1 /\ (\A i \in 1..Len(d) : n[i] = d[i]) /\ n[Len(d) + 1] = e
  BY Appended
<1>2. e[1] = h /\ e[2] = task[t].ev
  OBVIOUS
<1>3. /\ task[t].at = "in" /\ task[t].found \in Seq(Index) /\ task[t].found # <<>>
      /\ \A i, j \in 1..Len(task[t].found) : task[t].found[i] = task[t].found[j] => i = j
      /\ h = task[t].found[1] /\ 1 \in 1..Len(task[t].found)
  BY DEF Ran, InTurn, AtIt
<1> HIDE DEF h, e, n
<1>4. Watch(task', t, c) /\ task'[t].ev = task[t].ev /\ task'[t].found = task[t].found /\ task'[t].at = "running"
  BY DEF Ran, SameRow, Watch
<1>5. \A x : Ahead(task'[t], x) => Ahead(task[t], x)
  BY <1>3, <1>4 DEF Ahead
<1>6. InTurn(task', d, c)
  <2>1. task'[t].at \in AtIt
    BY <1>4 DEF AtIt
  <2> QED
    BY <1>3, <1>4, <1>5, <2>1, TurnOn
<1>7. Ahead(task[t], h) /\ ~Ahead(task'[t], h)
  BY <1>3, <1>4 DEF Ahead
<1>8. \A u \in Task : Watch(task, u, c) => task[u].ev.line \in Nat
  <2>1. \A u \in Task : Watch(task, u, c) => task[u].ev.line \in 1..Len(s)
    BY DEF Tales, IsTale
  <2> QED
    BY <2>1
<1>9. ASSUME NEW u \in Task, NEW i \in 1..Len(n), Watch(task', u, c)
      PROVE  /\ n[i][2].line <= task'[u].ev.line
             /\ n[i][2].line = task'[u].ev.line => task'[u].at \in AtIt /\ ~Ahead(task'[u], n[i][1])
  <2>1. CASE i \in 1..Len(d)
    BY <1>1, <1>6, <1>9, <2>1 DEF InTurn
  <2>2. CASE i = Len(d) + 1
    <3>1. n[i][1] = h /\ n[i][2] = task[t].ev
      BY <1>1, <1>2, <2>2
    <3>2. CASE u = t
      BY <1>4, <1>7, <1>8, <3>1, <3>2 DEF AtIt
    <3>3. CASE u # t
      <4>1. u \in Task \ {t}
        BY <3>3
      <4>2. Watch(task, u, c) /\ task'[u].ev = task[u].ev
        BY <1>9, <4>1, OthersAre
      <4>3. task[t].at \in HasTurn
        BY <1>3 DEF HasTurn
      <4>4. task[t].ev.line < task[u].ev.line
        BY <3>3, <4>2, <4>3, TurnFirst
      <4>5. task[t].ev.line \in Nat /\ task[u].ev.line \in Nat
        BY <1>8, <4>2
      <4> QED
        BY <3>1, <4>2, <4>4, <4>5
    <3> QED
      BY <3>2, <3>3
  <2> QED
    BY <1>1, <2>1, <2>2
<1>10. ASSUME NEW i \in 1..Len(n), NEW j \in 1..Len(n), i < j, n[i][1] = n[j][1] PROVE n[i][2].line < n[j][2].line
  <2>1. i \in 1..Len(d)
    BY <1>1, <1>10
  <2>2. CASE j \in 1..Len(d)
    BY <1>1, <1>6, <1>10, <2>1, <2>2 DEF InTurn
  <2>3. CASE j = Len(d) + 1
    <3>1. n[j][1] = h /\ n[j][2] = task[t].ev
      BY <1>1, <1>2, <2>3
    <3>2. n[i] = d[i] /\ d[i][1] = h
      BY <1>1, <1>10, <2>1, <3>1
    <3>3. d[i][2].line <= task[t].ev.line /\ d[i][2].line # task[t].ev.line
      BY <1>7, <2>1, <3>2 DEF InTurn
    <3>4. task[t].ev.line \in Nat /\ d[i][2].line \in Nat
      <4>1. d[i][2].line \in 1..Len(s)
        BY <2>1 DEF Tales, IsTale
      <4> QED
        BY <1>8, <4>1
    <3> QED
      BY <3>1, <3>2, <3>3, <3>4
  <2> QED
    BY <1>1, <2>2, <2>3
<1>11. \A u \in Task : Watch(task', u, c) /\ task'[u].at \in AtIt =>
        /\ task'[u].found \in Seq(Index) /\ task'[u].found # <<>>
        /\ \A i, j \in 1..Len(task'[u].found) : task'[u].found[i] = task'[u].found[j] => i = j
  BY <1>6 DEF InTurn
<1> QED
  BY <1>9, <1>10, <1>11 DEF InTurn, n, e, h

LEMMA RanMissed ==
  ASSUME NEW t \in Task, Others(t), NEW c, NEW s, NEW d, IsSeq(d), NoneMissed(task, s, d, c), Ran(t)
  PROVE  NoneMissed(task', s, Append(d, <<Head(task[t].found), task[t].ev>>), c)
<1> DEFINE h == Head(task[t].found)
           e == <<h, task[t].ev>>
           n == Append(d, e)
<1>1. Len(d) \in Nat /\ Len(n) = Len(d) + 1 /\ (\A i \in 1..Len(d) : n[i] = d[i]) /\ n[Len(d) + 1] = e
  BY Appended
<1>2. e[1] = h /\ e[2] = task[t].ev
  OBVIOUS
<1> SUFFICES ASSUME NEW x \in Index, Unhindered(c, x), NEW i \in 1..Len(s), Tale(s, i) # {}
             PROVE  \/ \E j \in 1..Len(n) : n[j][1] = x /\ n[j][2].line = i
                    \/ \E u \in Task : Watch(task', u, c) /\ task'[u].ev.line = i /\ WillRun(task'[u], x)
  BY DEF NoneMissed
<1> HIDE DEF e, n
<1>3. CASE \E j \in 1..Len(d) : d[j][1] = x /\ d[j][2].line = i
  <2>1. PICK j \in 1..Len(d) : d[j][1] = x /\ d[j][2].line = i
    BY <1>3
  <2>2. j \in 1..Len(n) /\ n[j] = d[j]
    BY <1>1
  <2> QED
    BY <2>1, <2>2
<1>4. CASE ~ \E j \in 1..Len(d) : d[j][1] = x /\ d[j][2].line = i
  <2>1. PICK u \in Task : Watch(task, u, c) /\ task[u].ev.line = i /\ WillRun(task[u], x)
    BY <1>4 DEF NoneMissed
  <2>2. CASE u = t
    <3>1. h = x
      BY <2>1, <2>2 DEF Ran, WillRun
    <3>2. Len(d) + 1 \in 1..Len(n)
      BY <1>1
    <3>3. n[Len(d) + 1][1] = x /\ n[Len(d) + 1][2].line = i
      BY <1>1, <1>2, <2>1, <2>2, <3>1
    <3> QED
      BY <3>2, <3>3
  <2>3. CASE u # t
    <3>1. u \in Task \ {t}
      BY <2>3
    <3>2. Watch(task', u, c) /\ task'[u].ev = task[u].ev /\ WillRun(task'[u], x)
      BY <2>1, <3>1, OthersAre
    <3> QED
      BY <2>1, <3>2
  <2> QED
    BY <2>2, <2>3
<1> QED
  BY <1>3, <1>4

-----------------------------------------------------------------------------
(* Each step of a task keeps the order. *)

\* A step of another channel's, or of a task that tells none.
LEMMA AsideKeeps ==
  ASSUME NEW t \in Task, Others(t), NEW c, NEW s, NEW d, ~Watch(task', t, c), ~Watch(task, t, c),
         Tales(task, s, d, c), InTurn(task, d, c), NoneMissed(task, s, d, c)
  PROVE  Tales(task', s, d, c) /\ InTurn(task', d, c) /\ NoneMissed(task', s, d, c)
<1>1. Tales(task', s, d, c)
  BY TalesOn
<1>2. InTurn(task', d, c)
  BY TurnOn
<1>3. NoneMissed(task', s, d, c)
  BY MissedOn
<1> QED
  BY <1>1, <1>2, <1>3

LEMMA QueuedKeeps ==
  ASSUME NEW t \in Task, Others(t), NEW c, NEW s, NEW d, Watch(task, t, c), Queued(t),
         Tales(task, s, d, c), InTurn(task, d, c), NoneMissed(task, s, d, c)
  PROVE  Tales(task', s, d, c) /\ InTurn(task', d, c) /\ NoneMissed(task', s, d, c)
<1>1. /\ SameTale(task[t], task'[t]) /\ task[t].at \notin AtIt /\ task'[t].at \notin AtIt /\ task'[t].ev = task[t].ev
      /\ Watch(task', t, c) /\ \A x : WillRun(task'[t], x)
  BY DEF Queued, SameTale, AtIt, WillRun, Watch
<1>2. Tales(task', s, d, c)
  BY <1>1, TalesOn
<1>3. InTurn(task', d, c)
  BY <1>1, TurnOn
<1>4. NoneMissed(task', s, d, c)
  BY <1>1, MissedOn
<1> QED
  BY <1>2, <1>3, <1>4

LEMMA LookedKeeps ==
  ASSUME AlwaysOn, NEW t \in Task, Others(t), NEW c \in Channel, NEW s, NEW d, Watch(task, t, c), Looked(t),
         Tales(task, s, d, c), InTurn(task, d, c), NoneMissed(task, s, d, c)
  PROVE  Tales(task', s, d, c) /\ InTurn(task', d, c) /\ NoneMissed(task', s, d, c)
<1> DEFINE f == Finds(c, "pyramid", 0)
<1>1. /\ SameTale(task[t], task'[t]) /\ task[t].at \notin AtIt /\ task'[t].at \in AtIt /\ task'[t].ev = task[t].ev
      /\ Watch(task', t, c) /\ task'[t].at \in {"waits", "in"}
  BY DEF Looked, SameTale, AtIt, Watch
<1>2. task'[t].found = f /\ f # <<>>
  BY DEF Looked, Found, Tales, Watch
<1>3. f \in Seq(Index) /\ \A i, j \in 1..Len(f) : f[i] = f[j] => i = j
  BY FindsIs DEF AlwaysOn
<1>4. \A x \in Index : Unhindered(c, x) => Head(f) = x
  BY FindsFirst DEF AlwaysOn, Unhindered
<1> HIDE DEF f
<1>5. Tales(task', s, d, c)
  BY <1>1, TalesOn
<1>6. InTurn(task', d, c)
  BY <1>1, <1>2, <1>3, TurnOn
<1>7. \A x \in Index : Unhindered(c, x) => WillRun(task'[t], x)
  BY <1>1, <1>2, <1>4 DEF WillRun
<1>8. NoneMissed(task', s, d, c)
  BY <1>1, <1>7, MissedOn
<1> QED
  BY <1>5, <1>6, <1>8

LEMMA PassedKeeps ==
  ASSUME NEW t \in Task, Others(t), NEW c \in Channel, NEW s, NEW d, Watch(task, t, c), PassedOver(t),
         Tales(task, s, d, c), InTurn(task, d, c), NoneMissed(task, s, d, c)
  PROVE  Tales(task', s, d, c) /\ InTurn(task', d, c) /\ NoneMissed(task', s, d, c)
<1> DEFINE f == task[t].found
           r == Tail(f)
<1>1. /\ SameTale(task[t], task'[t]) /\ task[t].at \in AtIt /\ task'[t].at \in AtIt /\ task'[t].ev = task[t].ev
      /\ Watch(task', t, c) /\ task'[t].at \in {"waits", "in"} /\ task[t].at \in {"in", "running"}
  BY DEF PassedOver, SameTale, AtIt, Watch
<1>2. task'[t].found = r /\ f # <<>> /\ r # <<>>
  BY DEF PassedOver
<1>3. f \in Seq(Index) /\ \A i, j \in 1..Len(f) : f[i] = f[j] => i = j
  BY <1>1 DEF InTurn
<1> HIDE DEF f
<1>4. r \in Seq(Index) /\ Len(f) \in Nat \ {0} /\ Len(r) = Len(f) - 1 /\ \A i \in 1..Len(r) : r[i] = f[i + 1] /\ i + 1 \in 1..Len(f)
  BY <1>2, <1>3, TailIs
<1> HIDE DEF r
<1>5. ASSUME NEW i \in 1..Len(r), NEW j \in 1..Len(r), r[i] = r[j] PROVE i = j
  <2>1. f[i + 1] = f[j + 1] /\ i + 1 \in 1..Len(f) /\ j + 1 \in 1..Len(f)
    BY <1>4, <1>5
  <2>2. i + 1 = j + 1
    BY <1>3, <2>1
  <2> QED
    BY <1>4, <2>2
<1>6. ASSUME NEW x, Ahead(task'[t], x) PROVE Ahead(task[t], x)
  <2>1. PICK i \in 1..Len(r) : r[i] = x
    BY <1>2, <1>6 DEF Ahead
  <2>2. f[i + 1] = x /\ i + 1 \in 1..Len(f) /\ i + 1 > 1
    BY <1>4, <2>1
  <2> QED
    BY <2>2 DEF Ahead, f
<1>7. Tales(task', s, d, c)
  BY <1>1, TalesOn
<1>8. InTurn(task', d, c)
  BY <1>1, <1>2, <1>4, <1>5, <1>6, TurnOn
<1>9. ASSUME NEW x \in Index, Unhindered(c, x) PROVE ~WillRun(task[t], x)
  <2> SUFFICES ASSUME WillRun(task[t], x) PROVE FALSE
    OBVIOUS
  <2>1. task[t].at = "in" /\ Head(task[t].found) = x /\ task[t].ch = c
    BY <1>1 DEF WillRun, Watch
  <2>2. Cooling(t)
    BY <1>2, <2>1 DEF PassedOver, f
  <2> QED
    BY <1>9, <2>1, <2>2, NothingHolds
<1>10. NoneMissed(task', s, d, c)
  BY <1>9, MissedOn
<1> QED
  BY <1>7, <1>8, <1>10

LEMMA DoneKeeps ==
  ASSUME AlwaysOn, NEW t \in Task, Others(t), NEW c \in Channel, NEW s, NEW d, Watch(task, t, c), Done(t),
         Tales(task, s, d, c), InTurn(task, d, c), NoneMissed(task, s, d, c)
  PROVE  Tales(task', s, d, c) /\ InTurn(task', d, c) /\ NoneMissed(task', s, d, c)
<1>1. ~Watch(task', t, c)
  BY DEF Done, Watch
<1>2. Tales(task', s, d, c)
  BY <1>1, TalesOn
<1>3. InTurn(task', d, c)
  BY <1>1, TurnOn
<1>4. ASSUME NEW x \in Index, Unhindered(c, x) PROVE ~WillRun(task[t], x)
  <2> SUFFICES ASSUME WillRun(task[t], x) PROVE FALSE
    OBVIOUS
  <2>1. CASE task[t].at = "looks" /\ Found(t) = <<>>
    <3>1. Found(t) = Finds(c, "pyramid", 0)
      BY DEF Found, Tales, Watch
    <3>2. x \in armed /\ armed \subseteq Index
      BY <1>4 DEF AlwaysOn, Unhindered
    <3>3. Finds(c, "pyramid", 0) # <<>>
      BY <1>4, <3>2, FindsFirst
    <3> QED
      BY <2>1, <3>1, <3>3
  <2>2. CASE task[t].at = "in" /\ (task[t].found = <<>> \/ Cooling(t))
    <3>1. task[t].found # <<>> /\ Head(task[t].found) = x /\ task[t].ch = c
      BY <2>2 DEF InTurn, AtIt, WillRun, Watch
    <3> QED
      BY <1>4, <2>2, <3>1, NothingHolds
  <2>3. CASE task[t].at = "running"
    BY <2>3 DEF WillRun
  <2> QED
    BY <2>1, <2>2, <2>3 DEF Done
<1>5. NoneMissed(task', s, d, c)
  BY <1>4, MissedOn
<1> QED
  BY <1>2, <1>3, <1>5

LEMMA OrderStep ==
  ASSUME TurnsInv, AlwaysOn, NEW t \in Task, Outcome(t), NEW c \in Channel, told = [k \in Channel |-> told[k]],
         NEW s, Len(s) \in Nat, InOrder(task, lock[c], fresh, s, told[c], c)
  PROVE  InOrder(task', lock'[c], fresh', s, told'[c], c)
<1>1. Others(t) /\ IsSeq(told[c]) /\ Tales(task, s, told[c], c) /\ InTurn(task, told[c], c) /\ NoneMissed(task, s, told[c], c)
      /\ InLine(task, lock[c], fresh, c)
  BY DEF Outcome, InOrder
<1>2. InLine(task', lock'[c], fresh', c)
  BY <1>1, LineStep
<1>3. CASE ~Watch(task, t, c)
  <2>1. ~Watch(task', t, c)
    BY <1>3 DEF Outcome, Aside, Queued, Looked, PassedOver, Ran, Done, SameTale, SameRow, Watch
  <2>2. told'[c] = told[c]
    BY <1>3 DEF Outcome, Aside, Queued, Looked, PassedOver, Ran, Done, Watch
  <2> QED
    BY <1>1, <1>2, <1>3, <2>1, <2>2, AsideKeeps DEF InOrder
<1>4. CASE Watch(task, t, c)
  <2>1. Queued(t) \/ Looked(t) \/ PassedOver(t) \/ Ran(t) \/ Done(t)
    BY <1>4 DEF Outcome, Aside, Watch
  <2>2. CASE Ran(t)
    <3>1. told'[c] = Append(told[c], <<Head(task[t].found), task[t].ev>>)
      BY <1>4, <2>2 DEF Ran, Watch
    <3>2. IsSeq(told'[c])
      BY <1>1, <3>1, Appended
    <3>3. Tales(task', s, told'[c], c)
      BY <1>1, <1>4, <2>2, <3>1, RanTales
    <3>4. InTurn(task', told'[c], c)
      BY <1>1, <1>4, <2>2, <3>1, RanTurn
    <3>5. NoneMissed(task', s, told'[c], c)
      BY <1>1, <2>2, <3>1, RanMissed
    <3> QED
      BY <1>2, <3>2, <3>3, <3>4, <3>5 DEF InOrder
  <2>3. CASE ~Ran(t)
    <3>1. told' = told
      BY <2>1, <2>3 DEF Queued, Looked, PassedOver, Done
    <3>2. Tales(task', s, told[c], c) /\ InTurn(task', told[c], c) /\ NoneMissed(task', s, told[c], c)
      BY <1>1, <1>4, <2>1, <2>3, QueuedKeeps, LookedKeeps, PassedKeeps, DoneKeeps
    <3> QED
      BY <1>1, <1>2, <3>1, <3>2 DEF InOrder
  <2> QED
    BY <2>2, <2>3
<1> QED
  BY <1>3, <1>4

-----------------------------------------------------------------------------
(* New tasks, and what they are to the watchers' events. *)

\* The tasks a of some works begin, behind those that have not begun.
Begun(a, works) ==
  /\ a \in Seq(Task) /\ Len(a) = Len(works) /\ \A i, j \in 1..Len(a) : a[i] = a[j] => i = j
  /\ \A i \in 1..Len(a) : task[a[i]].kind = "none" /\ task'[a[i]] = works[i]
  /\ \A u \in Task : (\A i \in 1..Len(a) : a[i] # u) => task'[u] = task[u]
  /\ fresh' = fresh \o a /\ lock' = lock

LEMMA SpawnedAre ==
  ASSUME TurnsInv, NEW works, NEW n \in Nat, n <= Cardinality(Free), DOMAIN works = 1..n, Len(works) = n, Spawned(works)
  PROVE  \E a : Begun(a, works)
<1> DEFINE ids == CHOOSE f \in [DOMAIN works -> Free] : \A i, j \in DOMAIN works : f[i] = f[j] => i = j
           its(t) == CHOOSE i \in DOMAIN works : ids[i] = t
<1>1. /\ task' = [t \in Task |-> IF \E i \in DOMAIN works : ids[i] = t THEN works[its(t)] ELSE task[t]]
      /\ fresh' = fresh \o ids /\ UNCHANGED <<lock, waiting>>
  BY DEF Spawned
<1>2. ids \in [1..n -> Free] /\ \A i, j \in 1..n : ids[i] = ids[j] => i = j
  <2>1. \E f \in [DOMAIN works -> Free] : \A i, j \in DOMAIN works : f[i] = f[j] => i = j
    BY FreeEnough
  <2>2. ids \in [DOMAIN works -> Free] /\ \A i, j \in DOMAIN works : ids[i] = ids[j] => i = j
    BY <2>1, Zenon
  <2> QED
    BY <2>2
<1>3. \A t : (\E i \in DOMAIN works : ids[i] = t) => its(t) \in 1..n /\ ids[its(t)] = t
  OBVIOUS
<1> HIDE DEF ids, its
<1>4. \A i \in 1..n : ids[i] \in Task /\ task[ids[i]].kind = "none"
  BY <1>2 DEF Free
<1>5. ids \in Seq(Task) /\ Len(ids) = n
  BY <1>2, <1>4
<1>6. ASSUME NEW i \in 1..n PROVE task'[ids[i]] = works[i]
  <2>1. its(ids[i]) = i
    BY <1>2, <1>3
  <2> QED
    BY <1>1, <1>4, <2>1
<1>7. ASSUME NEW u \in Task, \A i \in 1..Len(ids) : ids[i] # u PROVE task'[u] = task[u]
  BY <1>1, <1>5, <1>7
<1>8. Begun(ids, works)
  BY <1>1, <1>2, <1>4, <1>5, <1>6, <1>7 DEF Begun
<1> QED
  BY <1>8

LEMMA JoinedAre ==
  ASSUME NEW X, NEW q \in Seq(X), NEW a \in Seq(X)
  PROVE  /\ q \o a \in Seq(X) /\ Len(q) \in Nat /\ Len(a) \in Nat /\ Len(q \o a) = Len(q) + Len(a)
         /\ \A i \in 1..Len(q) : (q \o a)[i] = q[i] /\ i \in 1..Len(q \o a)
         /\ \A i \in 1..Len(a) : (q \o a)[Len(q) + i] = a[i] /\ Len(q) + i \in 1..Len(q \o a)
         /\ \A i \in 1..Len(q \o a) : i \in 1..Len(q) \/ (i - Len(q) \in 1..Len(a) /\ (q \o a)[i] = a[i - Len(q)])
<1> DEFINE w == q \o a
<1>1. w \in Seq(X) /\ Len(q) \in Nat /\ Len(a) \in Nat /\ Len(w) = Len(q) + Len(a)
  OBVIOUS
<1>2. \A i \in 1..Len(q) : w[i] = q[i]
  OBVIOUS
<1>3. ASSUME NEW i \in Len(q) + 1 .. Len(w) PROVE i - Len(q) \in 1..Len(a) /\ w[i] = a[i - Len(q)]
  BY <1>1
<1> HIDE DEF w
<1>4. \A i \in 1..Len(q) : i \in 1..Len(w)
  BY <1>1
<1>5. ASSUME NEW i \in 1..Len(a) PROVE w[Len(q) + i] = a[i] /\ Len(q) + i \in 1..Len(w)
  <2>1. Len(q) + i \in Len(q) + 1 .. Len(w) /\ (Len(q) + i) - Len(q) = i
    BY <1>1
  <2>2. w[Len(q) + i] = a[(Len(q) + i) - Len(q)]
    BY <1>3, <2>1
  <2> QED
    BY <1>1, <2>1, <2>2
<1>6. ASSUME NEW i \in 1..Len(w) PROVE i \in 1..Len(q) \/ (i - Len(q) \in 1..Len(a) /\ w[i] = a[i - Len(q)])
  <2>1. CASE i \in Len(q) + 1 .. Len(w)
    BY <1>3, <2>1
  <2>2. CASE ~(i \in Len(q) + 1 .. Len(w))
    BY <1>1, <2>2
  <2> QED
    BY <2>1, <2>2
<1> QED
  BY <1>1, <1>2, <1>4, <1>5, <1>6 DEF w

\* Of those that begin, only the first may tell of c, and then of line m, after all the others.
OneMore(f, g, a, c, m) ==
  /\ \A u \in Task : Watch(f, u, c) => g[u] = f[u] /\ Watch(g, u, c)
  /\ \A u \in Task : Watch(g, u, c) /\ ~Watch(f, u, c) =>
       /\ Len(a) > 0 /\ u = a[1] /\ g[u].at = "fresh" /\ g[u].type = "pyramid" /\ g[u].size = 0 /\ g[u].ev.line = m
  /\ \A i \in 1..Len(a) : ~Watch(f, a[i], c)
  /\ \A i, j \in 1..Len(a) : a[i] = a[j] => i = j

LEMMA LineGrows ==
  ASSUME NEW f, NEW g, NEW l \in Seq(Task), NEW q \in Seq(Task), NEW a \in Seq(Task), NEW c, NEW m,
         InLine(f, l, q, c), OneMore(f, g, a, c, m), \A i \in 1..Len(l) : Watch(f, l[i], c),
         \A u \in Task : Watch(f, u, c) => f[u].ev.line < m, \A i \in 1..Len(q), j \in 1..Len(a) : q[i] # a[j]
  PROVE  InLine(g, l, q \o a, c)
<1> DEFINE w == q \o a
<1>1. /\ w \in Seq(Task) /\ Len(q) \in Nat /\ Len(a) \in Nat /\ Len(w) = Len(q) + Len(a)
      /\ \A i \in 1..Len(q) : w[i] = q[i] /\ i \in 1..Len(w)
      /\ \A i \in 1..Len(a) : w[Len(q) + i] = a[i] /\ Len(q) + i \in 1..Len(w)
      /\ \A i \in 1..Len(w) : i \in 1..Len(q) \/ (i - Len(q) \in 1..Len(a) /\ w[i] = a[i - Len(q)])
  BY JoinedAre
<1> HIDE DEF w
<1>2. /\ \A i \in 1..Len(l) : l[i] \in Task /\ g[l[i]] = f[l[i]] /\ Watch(f, l[i], c) /\ f[l[i]].ev.line < m
      /\ \A i \in 1..Len(q) : q[i] \in Task
      /\ \A i \in 1..Len(a) : a[i] \in Task
      /\ \A i \in 1..Len(w) : w[i] \in Task
  BY <1>1 DEF OneMore
\* What is told by the new one, and by those before it.
<1>3. \A i \in 1..Len(a) : Watch(g, a[i], c) => i = 1 /\ g[a[i]].ev.line = m
  <2>1. ASSUME NEW i \in 1..Len(a), Watch(g, a[i], c) PROVE i = 1 /\ g[a[i]].ev.line = m
    <3>1. a[i] \in Task /\ ~Watch(f, a[i], c)
      BY <1>2 DEF OneMore
    <3>2. Len(a) > 0 /\ a[i] = a[1] /\ g[a[i]].ev.line = m
      BY <2>1, <3>1 DEF OneMore
    <3>3. 1 \in 1..Len(a)
      BY <1>1, <3>2
    <3> QED
      BY <3>2, <3>3 DEF OneMore
  <2> QED
    BY <2>1
<1>4. ASSUME NEW i \in 1..Len(q), Watch(g, q[i], c) PROVE Watch(f, q[i], c) /\ g[q[i]] = f[q[i]]
  <2>1. CASE ~Watch(f, q[i], c)
    <3>1. Len(a) > 0 /\ q[i] = a[1]
      BY <1>2, <1>4, <2>1 DEF OneMore
    <3>2. 1 \in 1..Len(a)
      BY <1>1, <3>1
    <3> QED
      BY <3>1, <3>2
  <2>2. CASE Watch(f, q[i], c)
    BY <1>2, <2>2 DEF OneMore
  <2> QED
    BY <2>1, <2>2
<1>5. \A i, j \in 1..Len(l) : i < j => g[l[i]].ev.line < g[l[j]].ev.line
  BY <1>2 DEF InLine
<1>6. ASSUME NEW i \in 1..Len(l), NEW j \in 1..Len(w), Watch(g, w[j], c) PROVE g[l[i]].ev.line < g[w[j]].ev.line
  <2>1. CASE j \in 1..Len(q)
    <3>1. w[j] = q[j]
      BY <1>1, <2>1
    <3> QED
      BY <1>2, <1>4, <1>6, <2>1, <3>1 DEF InLine
  <2>2. CASE j - Len(q) \in 1..Len(a) /\ w[j] = a[j - Len(q)]
    BY <1>2, <1>3, <1>6, <2>2
  <2> QED
    BY <1>1, <2>1, <2>2
<1>7. \A u \in Task : Watch(g, u, c) => Watch(f, u, c) \/ (Len(a) > 0 /\ u = a[1])
  BY DEF OneMore
<1>8. ASSUME NEW i \in 1..Len(w), NEW j \in 1..Len(w), i < j, Watch(g, w[i], c), Watch(g, w[j], c)
      PROVE  g[w[i]].ev.line < g[w[j]].ev.line
  <2>1. CASE i \in 1..Len(q) /\ j \in 1..Len(q)
    BY <1>1, <1>4, <1>8, <2>1 DEF InLine
  <2>2. CASE i \in 1..Len(q) /\ j - Len(q) \in 1..Len(a) /\ w[j] = a[j - Len(q)]
    <3>1. w[i] = q[i] /\ q[i] \in Task
      BY <1>1, <1>2, <2>2
    <3>2. Watch(f, q[i], c) /\ g[q[i]] = f[q[i]]
      BY <1>4, <1>8, <2>2, <3>1
    <3>3. g[w[i]].ev.line < m
      BY <3>1, <3>2
    <3> QED
      BY <1>3, <1>8, <2>2, <3>3
  <2>3. CASE i - Len(q) \in 1..Len(a) /\ w[i] = a[i - Len(q)]
    <3>1. j - Len(q) \in 1..Len(a) /\ w[j] = a[j - Len(q)]
      BY <1>1, <1>8, <2>3
    <3>2. i - Len(q) = 1 /\ j - Len(q) = 1
      BY <1>3, <1>8, <2>3, <3>1
    <3> QED
      BY <1>1, <1>8, <3>2
  <2> QED
    BY <1>1, <2>1, <2>2, <2>3
<1>9. ASSUME NEW t \in Task, Watch(g, t, c), g[t].at = "fresh" PROVE \E i \in 1..Len(w) : w[i] = t
  <2>1. CASE Watch(f, t, c)
    <3>1. f[t].at = "fresh"
      BY <1>9, <2>1 DEF OneMore
    <3>2. PICK i \in 1..Len(q) : q[i] = t
      BY <2>1, <3>1 DEF InLine
    <3> QED
      BY <1>1, <3>2
  <2>2. CASE ~Watch(f, t, c)
    <3>1. Len(a) > 0 /\ t = a[1]
      BY <1>7, <1>9, <2>2
    <3>2. 1 \in 1..Len(a)
      BY <1>1, <3>1
    <3> QED
      BY <1>1, <3>1, <3>2
  <2> QED
    BY <2>1, <2>2
<1> QED
  BY <1>5, <1>6, <1>8, <1>9 DEF InLine, w

\* What s has to tell is told by z too, which may have a line more.
Told(s, z) ==
  /\ Len(s) \in Nat /\ Len(z) \in Nat /\ (Len(z) = Len(s) \/ Len(z) = Len(s) + 1)
  /\ \A i \in 1..Len(s) : Tale(z, i) = Tale(s, i)

\* New tasks keep the order, if one of them tells what there is to tell of a line that is new.
LEMMA OrderGrows ==
  ASSUME NEW f, NEW g, NEW l \in Seq(Task), NEW q \in Seq(Task), NEW a \in Seq(Task), NEW c, NEW s, NEW z, NEW d,
         Told(s, z), InOrder(f, l, q, s, d, c), OneMore(f, g, a, c, Len(s) + 1), \A i \in 1..Len(l) : Watch(f, l[i], c),
         \A i \in 1..Len(q), j \in 1..Len(a) : q[i] # a[j],
         \A u \in Task : Watch(g, u, c) /\ ~Watch(f, u, c) => IsTale(z, g[u].ev),
         Len(z) # Len(s) => \A x \in Index : Unhindered(c, x) /\ Tale(z, Len(z)) # {} =>
           \E u \in Task : Watch(g, u, c) /\ ~Watch(f, u, c)
  PROVE  InOrder(g, l, q \o a, z, d, c)
<1>1. /\ IsSeq(d) /\ Tales(f, s, d, c) /\ InLine(f, l, q, c) /\ InTurn(f, d, c) /\ NoneMissed(f, s, d, c)
      /\ Len(s) \in Nat /\ Len(z) \in Nat /\ (Len(z) = Len(s) \/ Len(z) = Len(s) + 1)
      /\ \A i \in 1..Len(s) : i \in 1..Len(z) /\ Tale(z, i) = Tale(s, i)
  BY DEF InOrder, Told
<1>2. \A e : IsTale(s, e) => IsTale(z, e) /\ e.line \in Nat /\ e.line < Len(s) + 1
  BY <1>1 DEF IsTale
<1>3. \A u \in Task : Watch(f, u, c) => g[u] = f[u] /\ Watch(g, u, c)
  BY DEF OneMore
<1>4. \A u \in Task : Watch(g, u, c) /\ ~Watch(f, u, c) =>
        g[u].at = "fresh" /\ g[u].type = "pyramid" /\ g[u].size = 0 /\ g[u].ev.line = Len(s) + 1
  BY DEF OneMore
<1>5. \A u \in Task : Watch(f, u, c) => f[u].type = "pyramid" /\ f[u].size = 0 /\ IsTale(s, f[u].ev)
  BY <1>1 DEF Tales
<1>6. \A i \in 1..Len(d) : IsTale(s, d[i][2])
  BY <1>1 DEF Tales
<1>7. InLine(g, l, q \o a, c)
  <2>1. \A u \in Task : Watch(f, u, c) => f[u].ev.line < Len(s) + 1
    BY <1>2, <1>5
  <2> QED
    BY <1>1, <2>1, LineGrows
<1>8. Tales(g, z, d, c)
  <2>1. ASSUME NEW u \in Task, Watch(g, u, c) PROVE g[u].type = "pyramid" /\ g[u].size = 0 /\ IsTale(z, g[u].ev)
    BY <1>2, <1>3, <1>4, <1>5, <2>1
  <2> QED
    BY <1>2, <1>6, <2>1 DEF Tales
<1>9. InTurn(g, d, c)
  <2>1. \A u \in Task : Watch(g, u, c) /\ g[u].at \in AtIt => Watch(f, u, c) /\ g[u] = f[u]
    BY <1>3, <1>4 DEF AtIt
  <2>2. ASSUME NEW u \in Task, NEW i \in 1..Len(d), Watch(g, u, c)
        PROVE  /\ d[i][2].line <= g[u].ev.line
               /\ d[i][2].line = g[u].ev.line => g[u].at \in AtIt /\ ~Ahead(g[u], d[i][1])
    <3>1. CASE Watch(f, u, c)
      BY <1>1, <1>3, <3>1 DEF InTurn
    <3>2. CASE ~Watch(f, u, c)
      <4>1. d[i][2].line \in Nat /\ d[i][2].line < Len(s) + 1
        BY <1>2, <1>6
      <4>2. g[u].ev.line = Len(s) + 1
        BY <1>4, <2>2, <3>2
      <4> QED
        BY <1>1, <4>1, <4>2
    <3> QED
      BY <3>1, <3>2
  <2>3. \A u \in Task : Watch(f, u, c) /\ f[u].at \in AtIt =>
          /\ f[u].found \in Seq(Index) /\ f[u].found # <<>>
          /\ \A i, j \in 1..Len(f[u].found) : f[u].found[i] = f[u].found[j] => i = j
    BY <1>1 DEF InTurn
  <2>4. \A u \in Task : Watch(g, u, c) /\ g[u].at \in AtIt =>
          /\ g[u].found \in Seq(Index) /\ g[u].found # <<>>
          /\ \A i, j \in 1..Len(g[u].found) : g[u].found[i] = g[u].found[j] => i = j
    <3> SUFFICES ASSUME NEW u \in Task, Watch(g, u, c), g[u].at \in AtIt
                 PROVE  /\ g[u].found \in Seq(Index) /\ g[u].found # <<>>
                        /\ \A i, j \in 1..Len(g[u].found) : g[u].found[i] = g[u].found[j] => i = j
      OBVIOUS
    <3>1. Watch(f, u, c) /\ g[u] = f[u]
      BY <2>1
    <3> QED
      BY <2>3, <3>1
  <2>5. \A i, j \in 1..Len(d) : i < j /\ d[i][1] = d[j][1] => d[i][2].line < d[j][2].line
    BY <1>1 DEF InTurn
  <2> QED
    BY <2>2, <2>4, <2>5 DEF InTurn
<1>10. NoneMissed(g, z, d, c)
  <2> SUFFICES ASSUME NEW x \in Index, Unhindered(c, x), NEW i \in 1..Len(z), Tale(z, i) # {},
                      ~ \E j \in 1..Len(d) : d[j][1] = x /\ d[j][2].line = i
               PROVE  \E u \in Task : Watch(g, u, c) /\ g[u].ev.line = i /\ WillRun(g[u], x)
    BY DEF NoneMissed
  <2>1. CASE i \in 1..Len(s)
    <3>1. Tale(s, i) # {}
      BY <1>1, <2>1
    <3>2. PICK u \in Task : Watch(f, u, c) /\ f[u].ev.line = i /\ WillRun(f[u], x)
      BY <1>1, <2>1, <3>1 DEF NoneMissed
    <3> QED
      BY <1>3, <3>2
  <2>2. CASE i \notin 1..Len(s)
    <3>1. i = Len(z) /\ Len(z) # Len(s) /\ i = Len(s) + 1
      BY <1>1, <2>2
    <3>2. PICK u \in Task : Watch(g, u, c) /\ ~Watch(f, u, c)
      BY <3>1
    <3> QED
      BY <1>4, <3>1, <3>2 DEF WillRun
  <2> QED
    BY <2>1, <2>2
<1> QED
  BY <1>1, <1>7, <1>8, <1>9, <1>10 DEF InOrder

\* The invariant: the watcher has followed each channel's lines, and what they had to tell is on its way in order.
TalesInv ==
  /\ AlwaysOn
  /\ open = [c \in Channel |-> open[c]] /\ seen = [c \in Channel |-> seen[c]] /\ told = [c \in Channel |-> told[c]]
  /\ \A c \in Channel : /\ IsSeq(seen[c]) /\ AreLines(seen[c]) /\ Follows(open[c], seen[c])
                        /\ InOrder(task, lock[c], fresh, seen[c], told[c], c)

\* Where those that wait, and those that have not begun, are.
LEMMA WaitersAre ==
  ASSUME TurnsInv, NEW c \in Channel
  PROVE  /\ lock[c] \in Seq(Task) /\ fresh \in Seq(Task)
         /\ \A i \in 1..Len(lock[c]) : Watch(task, lock[c][i], c)
         /\ \A i \in 1..Len(fresh) : task[fresh[i]].kind # "none"
<1>1. lock \in [Channel -> Seq(Task)] /\ fresh \in Seq(Task)
      /\ \A i \in 1..Len(fresh) : fresh[i] \in Task /\ task[fresh[i]].at = "fresh"
  BY DEF TurnsInv, Locks, Queues
<1>2. \A i \in 1..Len(lock[c]) : Watch(task, lock[c][i], c)
  BY DEF TurnsInv, Locks, Tells, Watch
<1>3. \A i \in 1..Len(fresh) : task[fresh[i]].kind # "none"
  BY <1>1 DEF TurnsInv, Known
<1> QED
  BY <1>1, <1>2, <1>3

\* Tasks that tell none.
LEMMA NoneTold ==
  ASSUME TurnsInv, TalesInv, NEW a \in Seq(Task), \A i, j \in 1..Len(a) : a[i] = a[j] => i = j,
         \A i \in 1..Len(a) : task[a[i]].kind = "none",
         \A u \in Task : task'[u] = task[u] \/ (task[u].kind = "none" /\ task'[u].kind # "watch"),
         lock' = lock, fresh' = fresh \o a, UNCHANGED <<armed, open, seen, told>>
  PROVE  TalesInv'
<1>1. ASSUME NEW c \in Channel PROVE InOrder(task', lock[c], fresh \o a, seen[c], told[c], c)
  <2>1. OneMore(task, task', a, c, Len(seen[c]) + 1)
    <3>1. \A u \in Task : Watch(task, u, c) => task'[u] = task[u] /\ Watch(task', u, c)
      BY DEF Watch
    <3>2. \A u \in Task : Watch(task', u, c) => Watch(task, u, c)
      BY DEF Watch
    <3>3. \A i \in 1..Len(a) : ~Watch(task, a[i], c)
      BY DEF Watch
    <3> QED
      BY <3>1, <3>2, <3>3 DEF OneMore
  <2>2. Told(seen[c], seen[c])
    BY DEF TalesInv, AreLines, Told
  <2>3. \A u \in Task : ~(Watch(task', u, c) /\ ~Watch(task, u, c))
    BY DEF Watch
  <2>4. \A i \in 1..Len(fresh), j \in 1..Len(a) : fresh[i] # a[j]
    BY WaitersAre
  <2>5. InOrder(task, lock[c], fresh, seen[c], told[c], c)
    BY DEF TalesInv
  <2>6. lock[c] \in Seq(Task) /\ fresh \in Seq(Task) /\ \A i \in 1..Len(lock[c]) : Watch(task, lock[c][i], c)
    BY WaitersAre
  <2> QED
    BY <2>1, <2>2, <2>3, <2>4, <2>5, <2>6, OrderGrows
<1> QED
  BY <1>1 DEF TalesInv, AlwaysOn

LEMMA SpawnTold ==
  ASSUME TurnsInv, TalesInv, NEW works, NEW n \in Nat, n <= Cardinality(Free), DOMAIN works = 1..n, Len(works) = n,
         Spawned(works), \A i \in 1..n : works[i].kind # "watch", UNCHANGED <<armed, open, seen, told>>
  PROVE  TalesInv'
<1>1. PICK a : Begun(a, works)
  BY SpawnedAre
<1>2. a \in Seq(Task) /\ Len(a) = n /\ \A i \in 1..Len(a) : a[i] \in Task /\ task[a[i]].kind = "none" /\ task'[a[i]].kind # "watch"
  BY <1>1 DEF Begun
<1>3. \A u \in Task : task'[u] = task[u] \/ (task[u].kind = "none" /\ task'[u].kind # "watch")
  BY <1>1, <1>2 DEF Begun
<1>4. lock' = lock /\ fresh' = fresh \o a /\ \A i, j \in 1..Len(a) : a[i] = a[j] => i = j
  BY <1>1 DEF Begun
<1> QED
  BY <1>2, <1>3, <1>4, NoneTold

-----------------------------------------------------------------------------
(* A line is written: its watcher hears it, and the task of what it has to *)
(* tell is the first that begins.                                          *)

LEMMA TaleLine == ASSUME NEW s, NEW i, NEW e \in Tale(s, i) PROVE e.line = i
  BY DEF Tale

\* What a line sets off: its event, before anything else.
LineWorks(l, e) == (IF e = NoEvent THEN <<>> ELSE <<Work("watch", l.ch, "pyramid", e, 0)>>) \o OfLine(l)

LEMMA LineWorksAre ==
  ASSUME NEW l, NEW e
  PROVE  /\ Len(LineWorks(l, e)) \in 0..2 /\ DOMAIN LineWorks(l, e) = 1..Len(LineWorks(l, e))
         /\ e # NoEvent => Len(LineWorks(l, e)) > 0 /\ LineWorks(l, e)[1] = Work("watch", l.ch, "pyramid", e, 0)
         /\ \A i \in 1..Len(LineWorks(l, e)) : LineWorks(l, e)[i].kind = "watch" => i = 1 /\ e # NoEvent
<1> DEFINE v == Work("watch", l.ch, "pyramid", e, 0)
           event == IF e = NoEvent THEN <<>> ELSE <<v>>
           line == OfLine(l)
           works == event \o line
<1>1. LineWorks(l, e) = works
  BY DEF LineWorks
<1>2. line = <<>> \/ \E w : line = <<w>> /\ w.kind # "watch"
  <2> DEFINE p == Work("command", l.ch, "command", NoEvent, 0)
             q == Work("listen", l.ch, "listener", [NoEvent EXCEPT !.user = l.who], l.width)
  <2>1. p.kind # "watch" /\ q.kind # "watch"
    BY WorkIs
  <2>2. line = <<>> \/ line = <<p>> \/ line = <<q>>
    BY DEF OfLine
  <2> HIDE DEF p, q, line
  <2> QED
    BY <2>1, <2>2
<1> HIDE DEF line, v
<1>3. CASE e = NoEvent /\ line = <<>>
  <2>1. works = <<>>
    BY <1>3
  <2> HIDE DEF works
  <2>2. Len(works) = 0 /\ DOMAIN works = 1..0
    BY <2>1
  <2> QED
    BY <1>1, <1>3, <2>2
<1>4. CASE e = NoEvent /\ line # <<>>
  <2>1. PICK w : line = <<w>> /\ w.kind # "watch"
    BY <1>2, <1>4
  <2>2. works = <<w>>
    BY <1>4, <2>1
  <2> HIDE DEF works
  <2>3. Len(works) = 1 /\ DOMAIN works = 1..1 /\ works[1] = w
    BY <2>2
  <2> QED
    BY <1>1, <1>4, <2>1, <2>3
<1>5. CASE e # NoEvent /\ line = <<>>
  <2>1. works = <<v>>
    BY <1>5
  <2> HIDE DEF works
  <2>2. Len(works) = 1 /\ DOMAIN works = 1..1 /\ works[1] = v
    BY <2>1
  <2> QED
    BY <1>1, <1>5, <2>2 DEF v
<1>6. CASE e # NoEvent /\ line # <<>>
  <2>1. PICK w : line = <<w>> /\ w.kind # "watch"
    BY <1>2, <1>6
  <2>2. works = <<v>> \o <<w>>
    BY <1>6, <2>1
  <2>3. Len(<<v>> \o <<w>>) = 2 /\ DOMAIN (<<v>> \o <<w>>) = 1..2
    OBVIOUS
  <2>4. (<<v>> \o <<w>>)[1] = v /\ (<<v>> \o <<w>>)[2] = w
    OBVIOUS
  <2> HIDE DEF works
  <2>5. Len(works) = 2 /\ DOMAIN works = 1..2 /\ works[1] = v /\ works[2] = w
    BY <2>2, <2>3, <2>4
  <2>6. \A i \in 1..2 : i = 1 \/ i = 2
    OBVIOUS
  <2>7. \A i \in 1..2 : works[i].kind = "watch" => i = 1
    BY <2>1, <2>5, <2>6
  <2> QED
    BY <1>1, <1>6, <2>5, <2>7 DEF v
<1> QED
  BY <1>3, <1>4, <1>5, <1>6

\* There is a trigger for the watcher's events.
Watched(c) == \E home \in Homes(c) : OfType(home, "pyramid") # {}

\* What its watcher makes of a line, where there is a trigger to hear of it.
Heard(c, l) == Observe(open[c], Len(seen[c]) + 1, Row(l))
EventOf(l) == IF Watched(l.ch) THEN Heard(l.ch, l).event ELSE NoEvent

LEMMA LineIs ==
  ASSUME NEW l, ChatLine(l)
  PROVE  /\ l.ch \in joined
         /\ Cardinality(Free) >= 2 /\ Spawned(LineWorks(l, EventOf(l)))
         /\ open' = [open EXCEPT ![l.ch] = IF Watched(l.ch) THEN Heard(l.ch, l).open ELSE NoPyramid]
         /\ seen' = [seen EXCEPT ![l.ch] = Append(@, IF Watched(l.ch) THEN Row(l) ELSE Gap)]
         /\ UNCHANGED <<armed, told>>
<1> DEFINE c == l.ch
           o == IF Watched(c) THEN Heard(c, l) ELSE [open |-> NoPyramid, event |-> NoEvent]
<1>1. /\ c \in joined /\ Cardinality(Free) >= 2 /\ open' = [open EXCEPT ![c] = o.open]
      /\ seen' = [seen EXCEPT ![c] = Append(@, IF Watched(c) THEN Row(l) ELSE Gap)]
      /\ Spawned((IF o.event = NoEvent THEN <<>> ELSE <<Work("watch", c, "pyramid", o.event, 0)>>) \o OfLine(l))
      /\ UNCHANGED <<armed, told>>
  BY DEF ChatLine, Watched, Heard, settingVars, runVars
<1>2. o.event = EventOf(l) /\ o.open = IF Watched(c) THEN Heard(c, l).open ELSE NoPyramid
  BY DEF EventOf
<1> HIDE DEF o
<1> QED
  BY <1>1, <1>2 DEF LineWorks

\* The lines of its channel, with one more, and what there is to tell of that.
LEMMA LineSeen ==
  ASSUME TalesInv, NEW l \in LineInput, l.ch \in Channel, ChatLine(l)
  PROVE  /\ IsSeq(seen'[l.ch]) /\ AreLines(seen'[l.ch]) /\ Follows(open'[l.ch], seen'[l.ch])
         /\ Told(seen[l.ch], seen'[l.ch]) /\ Len(seen'[l.ch]) = Len(seen[l.ch]) + 1
         /\ EventOf(l) # NoEvent => EventOf(l) \in Tale(seen'[l.ch], Len(seen'[l.ch]))
         /\ Watched(l.ch) /\ EventOf(l) = NoEvent => Tale(seen'[l.ch], Len(seen'[l.ch])) = {}
<1> DEFINE c == l.ch
           s == seen[c]
           z == seen'[c]
           e == IF Watched(c) THEN Row(l) ELSE Gap
           p == open[c]
<1>1. /\ seen = [k \in Channel |-> seen[k]] /\ open = [k \in Channel |-> open[k]]
      /\ IsSeq(s) /\ AreLines(s) /\ Follows(p, s)
  BY DEF TalesInv
<1>2. z = Append(s, e) /\ open'[c] = IF Watched(c) THEN Heard(c, l).open ELSE NoPyramid
  <2>1. /\ open' = [open EXCEPT ![l.ch] = IF Watched(l.ch) THEN Heard(l.ch, l).open ELSE NoPyramid]
        /\ seen' = [seen EXCEPT ![l.ch] = Append(@, IF Watched(l.ch) THEN Row(l) ELSE Gap)]
    BY LineIs
  <2> DEFINE v == IF Watched(c) THEN Heard(c, l).open ELSE NoPyramid
             y == Append(s, e)
  <2>2. seen' = [seen EXCEPT ![c] = y] /\ open' = [open EXCEPT ![c] = v]
    BY <2>1
  <2> HIDE DEF v, y, e
  <2>3. seen'[c] = y /\ open'[c] = v
    BY <1>1, <2>2
  <2> QED
    BY <2>3 DEF v, y
<1>3. e.width \in Nat /\ (~Watched(c) => e.width = 0)
  BY TriggerRunsAssumption DEF Row, Gap
<1>4. /\ IsSeq(z) /\ Len(s) \in Nat /\ Len(z) = Len(s) + 1 /\ (\A i \in 1..Len(s) : z[i] = s[i]) /\ z[Len(z)] = e
  BY <1>1, <1>2, Appended
<1>5. Longer(s, z)
  BY <1>4 DEF Longer
<1>6. AreLines(z)
  <2>1. \A i \in 1..Len(z) : i \in 1..Len(s) \/ i = Len(z)
    BY <1>4
  <2> QED
    BY <1>1, <1>3, <1>4, <2>1 DEF AreLines
<1>7. CASE Watched(c)
  <2> DEFINE o == Observe(p, Len(z), z[Len(z)])
  <2>1. o = Heard(c, l)
    BY <1>4, <1>7 DEF Heard
  <2>2. EventOf(l) = o.event /\ open'[c] = o.open
    BY <1>2, <1>7, <2>1 DEF EventOf
  <2> HIDE DEF z, s, p
  <2>3. /\ Follows(o.open, z) /\ \A i \in 1..Len(s) : Tale(z, i) = Tale(s, i)
        /\ Tale(z, Len(z)) = IF o.event = NoEvent THEN {} ELSE {o.event}
    BY <1>1, <1>5, <1>6, Observed
  <2> HIDE DEF o
  <2>4. Told(s, z)
    BY <1>4, <2>3 DEF Told
  <2> QED
    BY <1>4, <1>6, <2>2, <2>3, <2>4 DEF z, s
<1>8. CASE ~Watched(c)
  <2>1. z[Len(z)].width = 0
    BY <1>3, <1>4, <1>8
  <2>2. Follows(NoPyramid, z) /\ \A i \in 1..Len(s) : Tale(z, i) = Tale(s, i)
    BY <1>1, <1>5, <1>6, <2>1, Forgotten
  <2>3. EventOf(l) = NoEvent /\ open'[c] = NoPyramid
    BY <1>2, <1>8 DEF EventOf
  <2> HIDE DEF z, s, p
  <2>4. Told(s, z)
    BY <1>4, <2>2 DEF Told
  <2> QED
    BY <1>4, <1>6, <1>8, <2>2, <2>3, <2>4 DEF z, s
<1> QED
  BY <1>7, <1>8

LEMMA LineTold == ASSUME TurnsInv, TalesInv, NEW l \in LineInput, ChatLine(l) PROVE TalesInv'
<1> DEFINE ch == l.ch
           e == EventOf(l)
           works == LineWorks(l, e)
           z == seen'[ch]
           w == Work("watch", ch, "pyramid", e, 0)
<1>1. /\ ch \in Channel /\ Cardinality(Free) >= 2 /\ Spawned(works) /\ UNCHANGED <<armed, told>>
      /\ open' = [open EXCEPT ![ch] = IF Watched(ch) THEN Heard(ch, l).open ELSE NoPyramid]
      /\ seen' = [seen EXCEPT ![ch] = Append(@, IF Watched(ch) THEN Row(l) ELSE Gap)]
  <2>1. joined \subseteq Channel
    BY DEF TurnsInv
  <2> QED
    BY <2>1, LineIs
<1>2. /\ IsSeq(z) /\ AreLines(z) /\ Follows(open'[ch], z) /\ Told(seen[ch], z) /\ Len(z) = Len(seen[ch]) + 1
      /\ e # NoEvent => e \in Tale(z, Len(z))
      /\ Watched(ch) /\ e = NoEvent => Tale(z, Len(z)) = {}
  BY <1>1, LineSeen
<1>3. /\ Len(works) \in 0..2 /\ DOMAIN works = 1..Len(works)
      /\ e # NoEvent => Len(works) > 0 /\ works[1] = w
      /\ \A i \in 1..Len(works) : works[i].kind = "watch" => i = 1 /\ e # NoEvent
  BY LineWorksAre
<1>4. w.kind = "watch" /\ w.ch = ch /\ w.at = "fresh" /\ w.type = "pyramid" /\ w.size = 0 /\ w.ev = e
  BY DEF Work
<1>5. \A k \in Channel \ {ch} : seen'[k] = seen[k] /\ open'[k] = open[k]
  BY <1>1 DEF TalesInv
<1>6. seen' = [k \in Channel |-> seen'[k]] /\ open' = [k \in Channel |-> open'[k]]
  <2>1. seen = [k \in Channel |-> seen[k]] /\ open = [k \in Channel |-> open[k]]
    BY DEF TalesInv
  <2>2. \A v : [seen EXCEPT ![ch] = v] = [k \in Channel |-> [seen EXCEPT ![ch] = v][k]]
    BY <2>1
  <2>3. \A v : [open EXCEPT ![ch] = v] = [k \in Channel |-> [open EXCEPT ![ch] = v][k]]
    BY <2>1
  <2> QED
    BY <1>1, <2>2, <2>3
<1> HIDE DEF works, z, w, e
<1>7. PICK a : Begun(a, works)
  <2>1. Len(works) \in Nat /\ Len(works) <= Cardinality(Free)
    BY <1>1, <1>3, FreeCounted
  <2> QED
    BY <1>1, <1>3, <2>1, SpawnedAre
<1>8. /\ a \in Seq(Task) /\ Len(a) = Len(works) /\ Len(a) \in Nat /\ lock' = lock /\ fresh' = fresh \o a
      /\ \A i \in 1..Len(a) : a[i] \in Task /\ task[a[i]].kind = "none" /\ task'[a[i]] = works[i]
      /\ \A i, j \in 1..Len(a) : a[i] = a[j] => i = j
      /\ \A u \in Task : (\A i \in 1..Len(a) : a[i] # u) => task'[u] = task[u]
  <2>1. a \in Seq(Task) /\ Len(a) = Len(works)
    BY <1>7 DEF Begun
  <2>2. Len(a) \in Nat /\ \A i \in 1..Len(a) : a[i] \in Task
    BY <2>1
  <2>3. lock' = lock /\ fresh' = fresh \o a
    BY <1>7 DEF Begun
  <2>4. \A i \in 1..Len(a) : task[a[i]].kind = "none" /\ task'[a[i]] = works[i]
    BY <1>7 DEF Begun
  <2>5. \A i, j \in 1..Len(a) : a[i] = a[j] => i = j
    BY <1>7 DEF Begun
  <2>6. \A u \in Task : (\A i \in 1..Len(a) : a[i] # u) => task'[u] = task[u]
    BY <1>7 DEF Begun
  <2> QED
    BY <2>1, <2>2, <2>3, <2>4, <2>5, <2>6
\* Who tells of a line now and did not before.
<1>9. ASSUME NEW k, NEW u \in Task, Watch(task', u, k), ~Watch(task, u, k)
      PROVE  e # NoEvent /\ Len(a) > 0 /\ u = a[1] /\ task'[u] = w /\ k = ch
  <2>1. PICK i \in 1..Len(a) : a[i] = u
    BY <1>8, <1>9 DEF Watch
  <2>2. works[i].kind = "watch" /\ works[i].ch = k /\ task'[u] = works[i]
    BY <1>8, <1>9, <2>1 DEF Watch
  <2>3. i = 1 /\ e # NoEvent
    BY <1>3, <1>8, <2>2
  <2> QED
    BY <1>3, <1>4, <1>8, <2>1, <2>2, <2>3
<1>10. e # NoEvent => Len(a) > 0 /\ a[1] \in Task /\ Watch(task', a[1], ch) /\ ~Watch(task, a[1], ch)
  <2> SUFFICES ASSUME e # NoEvent PROVE Len(a) > 0 /\ a[1] \in Task /\ Watch(task', a[1], ch) /\ ~Watch(task, a[1], ch)
    OBVIOUS
  <2>1. 1 \in 1..Len(a)
    BY <1>3, <1>8
  <2> QED
    BY <1>3, <1>4, <1>8, <2>1 DEF Watch
<1>11. ASSUME e # NoEvent PROVE e.line = Len(z) /\ IsTale(z, e)
  <2>1. e \in Tale(z, Len(z)) /\ Len(z) \in 1..Len(z)
    BY <1>2, <1>11 DEF Told
  <2>2. e.line = Len(z)
    BY <2>1, TaleLine
  <2> QED
    BY <2>1, <2>2 DEF IsTale
<1>12. ASSUME NEW x \in Index, Unhindered(ch, x) PROVE Watched(ch)
  <2>1. x \in armed /\ Reaction[x].home = ch /\ Reaction[x].type = "pyramid"
    BY <1>12 DEF TalesInv, AlwaysOn, Unhindered
  <2>2. x \in OfType(ch, "pyramid") /\ ch \in Homes(ch)
    BY <2>1 DEF OfType, Homes
  <2> QED
    BY <2>2 DEF Watched
<1>13. ASSUME NEW k \in Channel PROVE InOrder(task', lock[k], fresh \o a, seen'[k], told[k], k)
  <2> DEFINE s == seen[k]
             y == seen'[k]
  <2>1. OneMore(task, task', a, k, Len(s) + 1)
    <3>1. \A u \in Task : Watch(task, u, k) => task'[u] = task[u] /\ Watch(task', u, k)
      BY <1>8 DEF Watch
    <3>2. ASSUME NEW u \in Task, Watch(task', u, k), ~Watch(task, u, k)
          PROVE  /\ Len(a) > 0 /\ u = a[1] /\ task'[u].at = "fresh" /\ task'[u].type = "pyramid" /\ task'[u].size = 0
                 /\ task'[u].ev.line = Len(s) + 1
      <4>1. e # NoEvent /\ Len(a) > 0 /\ u = a[1] /\ task'[u] = w /\ k = ch
        BY <1>9, <3>2
      <4>2. e.line = Len(s) + 1
        BY <1>2, <1>11, <4>1
      <4> QED
        BY <1>4, <4>1, <4>2
    <3>3. \A i \in 1..Len(a) : ~Watch(task, a[i], k)
      BY <1>8 DEF Watch
    <3> QED
      BY <1>8, <3>1, <3>2, <3>3 DEF OneMore
  <2>2. Told(s, y)
    <3>1. CASE k = ch
      BY <1>2, <3>1 DEF z
    <3>2. CASE k # ch
      <4>1. y = s
        BY <1>5, <3>2
      <4>2. Len(s) \in Nat
        BY DEF TalesInv, AreLines
      <4> HIDE DEF y, s
      <4> QED
        BY <4>1, <4>2 DEF Told
    <3> QED
      BY <3>1, <3>2
  <2>3. ASSUME NEW u \in Task, Watch(task', u, k), ~Watch(task, u, k) PROVE IsTale(y, task'[u].ev)
    BY <1>4, <1>9, <1>11, <2>3 DEF z
  <2>4. ASSUME Len(y) # Len(s), NEW x \in Index, Unhindered(k, x), Tale(y, Len(y)) # {}
        PROVE  \E u \in Task : Watch(task', u, k) /\ ~Watch(task, u, k)
    <3>1. k = ch
      BY <1>5, <2>4
    <3>2. e # NoEvent
      BY <1>2, <1>12, <2>4, <3>1 DEF z
    <3> QED
      BY <1>10, <3>1, <3>2
  <2>5. \A i \in 1..Len(fresh), j \in 1..Len(a) : fresh[i] # a[j]
    BY <1>8, WaitersAre
  <2>6. lock[k] \in Seq(Task) /\ fresh \in Seq(Task) /\ \A i \in 1..Len(lock[k]) : Watch(task, lock[k][i], k)
    BY WaitersAre
  <2>7. InOrder(task, lock[k], fresh, s, told[k], k)
    BY DEF TalesInv
  <2> HIDE DEF s, y
  <2>8. InOrder(task', lock[k], fresh \o a, y, told[k], k)
    BY <1>8, <2>1, <2>2, <2>3, <2>4, <2>5, <2>6, <2>7, OrderGrows
  <2> QED
    BY <2>8 DEF y
<1>14. ASSUME NEW k \in Channel PROVE IsSeq(seen'[k]) /\ AreLines(seen'[k]) /\ Follows(open'[k], seen'[k])
  <2>1. CASE k = ch
    BY <1>2, <2>1 DEF z
  <2>2. CASE k # ch
    <3>1. seen'[k] = seen[k] /\ open'[k] = open[k]
      BY <1>5, <2>2
    <3> QED
      BY <3>1 DEF TalesInv
  <2> QED
    BY <2>1, <2>2
<1>15. told' = told /\ armed' = armed
  BY <1>1
<1>16. AlwaysOn' /\ told' = [k \in Channel |-> told'[k]]
  BY <1>15 DEF TalesInv, AlwaysOn
<1> QED
  BY <1>6, <1>8, <1>13, <1>14, <1>15, <1>16 DEF TalesInv

-----------------------------------------------------------------------------
(* All that happens.                                                       *)

LEMMA NoticeTold == ASSUME TurnsInv, TalesInv, NEW c, NEW size, Notification(c, size) PROVE TalesInv'
<1> DEFINE w == Work("notice", c, "raid", [NoEvent EXCEPT !.user = "raider"], size)
<1>1. Spawned(<<w>>) /\ Free # {} /\ UNCHANGED <<armed, open, seen, told>>
  BY DEF Notification, settingVars, runVars
<1>2. w.kind # "watch"
  BY WorkIs
<1> HIDE DEF w
<1>3. 1 <= Cardinality(Free)
  BY <1>1, FreeCounted
<1>4. DOMAIN <<w>> = 1..1 /\ Len(<<w>>) = 1 /\ \A i \in 1..1 : <<w>>[i] = w
  OBVIOUS
<1> QED
  BY <1>1, <1>2, <1>3, <1>4, SpawnTold

\* Nothing but what the invariant does not speak of.
LEMMA TalesStay == ASSUME TalesInv, AlwaysOn', UNCHANGED <<task, fresh, lock, open, seen, told>> PROVE TalesInv'
  BY DEF TalesInv

LEMMA PollTold == ASSUME TurnsInv, TalesInv, NEW live, NEW failed, PollEnds(live, failed) PROVE TalesInv'
<1> DEFINE heard == Changed(live) \cap joined
           works == {Work("stream", c, IF c \in live THEN "stream_online" ELSE "stream_offline", NoEvent, 0) : c \in heard}
           n == Cardinality(heard)
<1>1. UNCHANGED <<armed, open, seen, told>>
  BY DEF PollEnds, settingVars, runVars
<1>2. \/ UNCHANGED <<task, queueVars>>
      \/ Cardinality(Free) >= n /\ \E order \in [1..n -> works] : Spawned(order)
  BY DEF PollEnds
<1>3. CASE UNCHANGED <<task, queueVars>>
  BY <1>1, <1>3, TalesStay DEF queueVars, TalesInv, AlwaysOn
<1>4. CASE Cardinality(Free) >= n /\ \E order \in [1..n -> works] : Spawned(order)
  <2>1. PICK order \in [1..n -> works] : Spawned(order)
    BY <1>4
  <2>2. \A w \in works : w.kind # "watch"
    BY WorkIs
  <2>3. n \in Nat
    <3>1. heard \in SUBSET Channel /\ IsFiniteSet(Channel)
      BY TriggerRunsAssumption DEF TurnsInv
    <3> HIDE DEF heard
    <3> QED
      BY <3>1, FS_Subset, FS_CardinalityType
  <2> HIDE DEF works, n
  <2>4. DOMAIN order = 1..n /\ Len(order) = n /\ n <= Cardinality(Free)
    BY <1>4, <2>3, FreeCounted
  <2>5. \A i \in 1..n : order[i].kind # "watch"
    BY <2>2
  <2> QED
    BY <1>1, <2>1, <2>3, <2>4, <2>5, SpawnTold
<1> QED
  BY <1>2, <1>3, <1>4

LEMMA BotTold ==
  ASSUME TurnsInv, TalesInv, NEW todo, BotCall(todo), UNCHANGED <<armed, open, seen, told>> PROVE TalesInv'
<1> DEFINE w == Work("bot", "", "", NoEvent, 0)
           r == [w EXCEPT !.at = "next"]
           q == [r EXCEPT !.todo = todo]
<1>1. PICK t \in Free : task' = [task EXCEPT ![t] = q]
  BY DEF BotCall
<1>2. UNCHANGED <<fresh, lock>>
  BY DEF BotCall, queueVars
<1>3. Shaped(r) /\ r.kind = "bot"
  <2>1. Shaped(w)
    BY WorkShaped
  <2>2. w.kind = "bot"
    BY DEF Work
  <2> HIDE DEF w
  <2> QED
    BY <2>1, <2>2, AtMoved, AtKeeps
<1> HIDE DEF r
<1>4. q.kind = "bot"
  BY <1>3, FieldKept, EventKeeps
<1> HIDE DEF q
<1>5. t \in Task /\ task[t].kind = "none"
  BY DEF Free
<1>6. task = [u \in Task |-> task[u]]
  BY DEF TurnsInv, AreTasks
<1>7. \A u \in Task : task'[u] = task[u] \/ (task[u].kind = "none" /\ task'[u].kind # "watch")
  BY <1>1, <1>4, <1>5, <1>6
<1> DEFINE a == <<>>
<1>8. a \in Seq(Task) /\ Len(a) = 0 /\ fresh \o a = fresh
  <2>1. fresh \in Seq(Task)
    BY DEF TurnsInv, Queues
  <2> QED
    BY <2>1
<1> HIDE DEF a
<1>9. /\ \A i, j \in 1..Len(a) : a[i] = a[j] => i = j
      /\ \A i \in 1..Len(a) : task[a[i]].kind = "none"
  BY <1>8
<1>10. lock' = lock /\ fresh' = fresh \o a
  BY <1>2, <1>8
<1> QED
  BY <1>7, <1>8, <1>9, <1>10, NoneTold

LEMMA StepTold ==
  ASSUME TurnsInv, TalesInv, NEW t \in Task, Steps(t), UNCHANGED <<settingVars, open, seen>> PROVE TalesInv'
<1>1. Outcome(t)
  BY StepIs
<1>2. ASSUME NEW c \in Channel PROVE InOrder(task', lock'[c], fresh', seen[c], told'[c], c)
  <2>1. AlwaysOn /\ told = [k \in Channel |-> told[k]] /\ Len(seen[c]) \in Nat
        /\ InOrder(task, lock[c], fresh, seen[c], told[c], c)
    BY DEF TalesInv, AreLines
  <2> QED
    BY <1>1, <2>1, OrderStep
<1>3. told' = [k \in Channel |-> told'[k]]
  <2>1. told = [k \in Channel |-> told[k]]
    BY DEF TalesInv
  <2>2. told' = told \/ \E v : told' = [told EXCEPT ![task[t].ch] = v]
    BY <1>1 DEF Outcome, Aside, Queued, Looked, PassedOver, Ran, Done
  <2>3. \A v : [told EXCEPT ![task[t].ch] = v] = [k \in Channel |-> [told EXCEPT ![task[t].ch] = v][k]]
    BY <2>1
  <2> QED
    BY <2>1, <2>2, <2>3
<1>4. AlwaysOn' /\ seen' = seen /\ open' = open
  BY DEF TalesInv, AlwaysOn, settingVars
<1> QED
  BY <1>2, <1>3, <1>4 DEF TalesInv

LEMMA TalesNext == ASSUME TurnsInv, TalesInv, EventsNext PROVE TalesInv'
<1>1. ASSUME NEW l \in LineInput, ChatLine(l) PROVE TalesInv'
  BY <1>1, LineTold
<1>2. ASSUME NEW c, NEW size, Notification(c, size) PROVE TalesInv'
  BY <1>2, NoticeTold
<1>3. ASSUME NEW live, NEW failed, PollEnds(live, failed) PROVE TalesInv'
  BY <1>3, PollTold
<1>4. ASSUME NEW updated, Online(updated) PROVE TalesInv'
  BY <1>4, BotTold DEF Online, settingVars, runVars
<1>5. ASSUME NEW c \in Channel, NEW type, OneEvent(c, type) PROVE TalesInv'
  BY <1>5, BotTold DEF OneEvent, runVars
<1>6. ASSUME NEW t \in Task, Steps(t) /\ UNCHANGED <<settingVars, open, streamVars, greeted, seen>> PROVE TalesInv'
  BY <1>6, StepTold
<1>7. ASSUME NEW c, Parted(c) PROVE TalesInv'
  BY <1>7, TalesStay DEF Parted, TalesInv, AlwaysOn, queueVars, runVars
<1>8. ASSUME NEW c, ModuleTurned(c) PROVE TalesInv'
  BY <1>8, TalesStay DEF ModuleTurned, TalesInv, AlwaysOn, queueVars, runVars
<1>9. ASSUME NEW x \in Index, Turned(x) PROVE TalesInv'
  <2>1. UNCHANGED <<task, fresh, lock, open, seen, told>>
    BY <1>9 DEF Turned, queueVars, runVars
  <2>2. AlwaysOn'
    BY <1>9 DEF Turned, TalesInv, AlwaysOn
  <2> QED
    BY <2>1, <2>2, TalesStay
<1>10. ASSUME PollBegins \/ TimePasses PROVE TalesInv'
  BY <1>10, TalesStay DEF PollBegins, TimePasses, TalesInv, AlwaysOn, queueVars, runVars, settingVars
<1> QED
  BY <1>1, <1>2, <1>3, <1>4, <1>5, <1>6, <1>7, <1>8, <1>9, <1>10 DEF EventsNext

LEMMA TalesInit == EventsInit => TalesInv
<1> SUFFICES ASSUME EventsInit PROVE TalesInv
  OBVIOUS
<1>1. /\ armed = Index /\ open = [c \in Channel |-> NoPyramid] /\ seen = [c \in Channel |-> <<>>]
      /\ told = [c \in Channel |-> <<>>] /\ task = [t \in Task |-> Ended] /\ fresh = <<>> /\ lock = [c \in Channel |-> <<>>]
  BY DEF EventsInit
<1>2. IsSeq(<<>>) /\ AreLines(<<>>) /\ Len(<<>>) = 0
  <2>1. <<>> \in Seq({}) /\ Len(<<>>) = 0
    OBVIOUS
  <2> QED
    BY <2>1 DEF IsSeq, AreLines
<1>3. Follows(NoPyramid, <<>>)
  <2>1. AreFirsts(<<>>, {}) /\ {} \in SUBSET (1..Len(<<>>))
    BY <1>2 DEF AreFirsts
  <2>2. Firsts(<<>>) = {}
    BY <1>2, <2>1, FirstsAre
  <2> QED
    BY <2>1, <2>2 DEF Follows
<1>4. \A t \in Task, c \in Channel : ~Watch(task, t, c)
  BY <1>1 DEF Watch, Ended
<1>5. ASSUME NEW c \in Channel PROVE InOrder(task, lock[c], fresh, seen[c], told[c], c)
  <2>1. lock[c] = <<>> /\ seen[c] = <<>> /\ told[c] = <<>>
    BY <1>1
  <2>2. Tales(task, <<>>, <<>>, c)
    BY <1>2, <1>4 DEF Tales
  <2>3. InLine(task, <<>>, <<>>, c)
    BY <1>2, <1>4 DEF InLine
  <2>4. InTurn(task, <<>>, c)
    BY <1>2, <1>4 DEF InTurn
  <2>5. NoneMissed(task, <<>>, <<>>, c)
    BY <1>2 DEF NoneMissed
  <2> QED
    BY <1>1, <1>2, <2>1, <2>2, <2>3, <2>4, <2>5 DEF InOrder
<1>6. AlwaysOn
  BY <1>1 DEF AlwaysOn
<1> QED
  BY <1>1, <1>2, <1>3, <1>5, <1>6 DEF TalesInv

LEMMA TalesEnough == ASSUME TurnsInv, TalesInv PROVE TalesInOrder
<1> SUFFICES ASSUME NEW c \in Channel
             PROVE  /\ \A i \in DOMAIN told[c] :
                         /\ told[c][i][2] \in Tale(seen[c], told[c][i][2].line)
                         /\ \A j \in 1..i - 1 : told[c][j][1] = told[c][i][1] => told[c][j][2].line < told[c][i][2].line
                    /\ \A x \in Index : Unhindered(c, x) /\ TalesToTell(c) = {} =>
                         \A i \in DOMAIN seen[c] : Tale(seen[c], i) # {} =>
                           \E j \in DOMAIN told[c] : told[c][j][1] = x /\ told[c][j][2].line = i
  BY OneTells DEF TalesInOrder
<1> DEFINE s == seen[c]
           d == told[c]
<1>1. IsSeq(s) /\ IsSeq(d) /\ Tales(task, s, d, c) /\ InTurn(task, d, c) /\ NoneMissed(task, s, d, c)
  BY DEF TalesInv, InOrder
<1> HIDE DEF s, d
<1>2. DOMAIN s = 1..Len(s) /\ DOMAIN d = 1..Len(d) /\ Len(d) \in Nat
  BY <1>1 DEF IsSeq
<1>3. ASSUME NEW i \in 1..Len(d), NEW j \in 1..i - 1, d[j][1] = d[i][1] PROVE d[j][2].line < d[i][2].line
  <2>1. j \in 1..Len(d) /\ j < i
    BY <1>2
  <2> QED
    BY <1>1, <1>3, <2>1 DEF InTurn
<1>4. \A i \in 1..Len(d) : d[i][2] \in Tale(s, d[i][2].line)
  BY <1>1 DEF Tales, IsTale
<1>5. ASSUME NEW x \in Index, Unhindered(c, x), TalesToTell(c) = {}, NEW i \in 1..Len(s), Tale(s, i) # {}
      PROVE  \E j \in 1..Len(d) : d[j][1] = x /\ d[j][2].line = i
  <2>1. \A t \in Task : ~Watch(task, t, c)
    BY <1>5 DEF TalesToTell, Watch
  <2> QED
    BY <1>1, <1>5, <2>1 DEF NoneMissed
<1> QED
  BY <1>2, <1>3, <1>4, <1>5, SMTT(60) DEF s, d

\* What triggers are run for tells each channel's pyramids as its lines built them (PyramidWatcher.observe, line by
\* line): each event is one that its line has to tell, those of one trigger come in the order of the lines and once
\* each, one at a time, and a trigger that is always on, first of its channel and without a cooldown misses none
\* (_watch, _watch_triggers and TriggerRunner.run), for every sequence of lines and every order tasks begin, wait,
\* are given slots and end in.
THEOREM TalesSafety == TriggersSpec => []TalesInOrder
<1>1. TriggersInit => TurnsInv /\ TalesInv
  BY TurnsInit, TalesInit DEF TriggersInit
<1>2. TurnsInv /\ TalesInv /\ [TriggersNext]_<<timersVars, eventsVars>> => TurnsInv' /\ TalesInv'
  <2> SUFFICES ASSUME TurnsInv, TalesInv, [TriggersNext]_<<timersVars, eventsVars>> PROVE TurnsInv' /\ TalesInv'
    OBVIOUS
  <2>1. CASE EventsNext
    BY <2>1, TurnsNext, TalesNext
  <2>2. CASE UNCHANGED eventsVars
    <3>1. TurnsInv'
      BY <2>2, TurnsStay DEF eventsVars, settingVars, TurnsInv
    <3>2. TalesInv'
      BY <2>2, TalesStay DEF eventsVars, settingVars, queueVars, runVars, TalesInv, AlwaysOn
    <3> QED
      BY <3>1, <3>2
  <2> QED
    BY <2>1, <2>2 DEF TriggersNext
<1>3. TurnsInv /\ TalesInv => TalesInOrder
  BY TalesEnough
<1> QED
  BY <1>1, <1>2, <1>3, PTL DEF TriggersSpec

-----------------------------------------------------------------------------
(* Crons in their minute.                                                  *)

\* Where the clock is in its minute, and what is left of that.
Used == clock % MinuteTicks
Rest == MinuteTicks - Used

\* Which round of a tick the scheduler is at, or awaits a run of.
Stage == IF loop.at = "running" THEN loop.of ELSE loop.at

\* Timers the tick has found due and not come to.
Awaited == IF Stage = "timers" THEN loop.left \cap loop.ripe ELSE {}

\* Timers that come to be due in the rest of the minute, with those the tick is to count anew.
ComesTo(t) == t \in Awaited \/ (Stage = "timers" /\ t \in loop.left /\ due[t] = New)
Returning == {t \in Timer : IF ComesTo(t) THEN Every[t] < loop.drift + Rest ELSE due[t] # New /\ due[t] < Rest}

\* The other crons that may still fire in this minute.
StillOpen(c) == {d \in Cron \ handled : Matches(d, Minute) /\ d # c}

\* The runs that may come before the cron's.
FiresLeft(c) == Cardinality(Awaited) + Cardinality(Returning) + Cardinality(StillOpen(c))

\* The ticks that pass with no run more: the rest of a run and the sleep after it, a sleep, or that after a
\* round which came to the cron before this minute.
Rests(c) ==
  CASE loop.at = "asleep" -> loop.nap
    [] loop.at = "running" -> RunLasts - loop.nap + 1
    [] loop.at = "crons" -> IF c \in loop.left THEN 0 ELSE 1
    [] OTHER -> 0

\* Each run lasts so long, and is slept after if it raises.
Load(c) == (RunLasts + 1) * FiresLeft(c) + Rests(c)
InTime(c) == Used + Load(c) < MinuteTicks

CronKept(c) ==
  /\ c \in handled => said[c] = "fired"
  /\ Matches(c, Minute) => c \in handled \/ loop.at \in {"off", "cancelled"} \/ InTime(c)

Loops ==
  [at : {"off", "asleep", "timers", "crons", "running", "cancelled"}, left : SUBSET Trigger, ripe : SUBSET Timer,
   drift : Nat, nap : Nat, who : SUBSET Trigger, of : {"asleep", "timers", "crons"}]

TimersType ==
  /\ on \subseteq Trigger /\ due \in [Timer -> Nat \cup {New}] /\ talk \in [Trigger -> Nat]
  /\ clock \in Nat /\ clock < Minutes * MinuteTicks
  /\ handled \subseteq Cron /\ said \in [Cron -> {"no", "held", "fired"}]
  /\ loop \in Loops

\* What the scheduler has before it suits where it is, and what stays enabled is.
Rounds ==
  /\ loop.at # "off" => Steady \subseteq on
  /\ loop.at = "running" => loop.of \in {"timers", "crons"} /\ loop.nap <= RunLasts
  /\ loop.at = "asleep" => loop.drift = 0 /\ loop.nap <= 1
  /\ Stage = "timers" => loop.left \subseteq Timer

TimersInv == TimersType /\ Rounds /\ \A c \in Cron \cap Steady : Needed[c] = 0 => CronKept(c)

\* No timer is due twice in a minute, which is what the channel's have at the least, and a minute is longer than
\* each timer run twice, those the last tick of the minute before it has found and those of its own, and each
\* cron of it once, with a tick slept after every run that raises.
TimeToSpare ==
  /\ \A t \in Timer : Every[t] >= MinuteTicks
  /\ \A minute \in DOMAIN Local :
       (RunLasts + 1) * (2 * Cardinality(Timer) + Cardinality({c \in Cron : Matches(c, minute)})) < MinuteTicks

LEMMA Clocks == Minutes \in Nat \ {0} /\ MinuteTicks \in Nat \ {0} /\ RunLasts \in Nat /\ DOMAIN Local = 0 .. Minutes - 1
  BY TimersAssumption

\* Division, of a number less than a product.
LEMMA Divided ==
  ASSUME NEW n \in Nat, NEW m \in Nat, m > 0
  PROVE n \div m \in Nat /\ n % m \in 0 .. m - 1 /\ n = m * (n \div m) + (n % m)
<1>1. n \div m \in Nat
  BY Z3
<1>2. n % m \in 0 .. m - 1
  BY Z3
<1>3. n = (n \div m) * m + (n % m)
  BY Z3
<1>4. \A q \in Nat : q * m = m * q
  BY Z3
<1>5. (n \div m) * m = m * (n \div m)
  BY <1>1, <1>4
<1>6. n = m * (n \div m) + (n % m)
  BY <1>3, <1>5
<1> QED
  BY <1>1, <1>2, <1>6

\* A product grows with its factor.
LEMMA Grows ==
  ASSUME NEW m \in Nat, NEW a \in Nat, NEW b \in Nat, a < b
  PROVE m * a \in Nat /\ m * b \in Nat /\ m * a + m <= m * b
<1>1. m * b = m * a + m * (b - a)
  BY Z3
<1>2. \A d \in Nat : d >= 1 => m * d >= m
  BY Z3
<1> DEFINE x == m * a
           y == m * b
           z == m * (b - a)
<1>3. x \in Nat /\ y \in Nat /\ z \in Nat
  BY Z3
<1>4. z >= m
  BY <1>2
<1>5. y = x + z
  BY <1>1
<1> HIDE DEF x, y, z
<1>6. x + m <= y
  BY <1>3, <1>4, <1>5
<1> QED
  BY <1>3, <1>6 DEF x, y

LEMMA DividedBy ==
  ASSUME NEW n \in Nat, NEW m \in Nat \ {0}, NEW q \in Nat, NEW r \in 0 .. m - 1, n = m * q + r
  PROVE n \div m = q /\ n % m = r
<1> DEFINE p == n \div m
           s == n % m
<1>1. p \in Nat /\ s \in 0 .. m - 1 /\ n = m * p + s
  BY Divided
<1> HIDE DEF p, s
<1>2. ~(p < q)
  <2>1. p < q => m * p + m <= m * q /\ m * p \in Nat /\ m * q \in Nat
    BY <1>1, Grows
  <2> DEFINE x == m * p
             y == m * q
  <2>2. n = y + r /\ n = x + s /\ (p < q => x + m <= y /\ x \in Nat /\ y \in Nat)
    BY <1>1, <2>1
  <2> HIDE DEF x, y
  <2> QED
    BY <1>1, <2>2
<1>3. ~(q < p)
  <2>1. q < p => m * q + m <= m * p /\ m * p \in Nat /\ m * q \in Nat
    BY <1>1, Grows
  <2> DEFINE x == m * q
             y == m * p
  <2>2. n = x + r /\ n = y + s /\ (q < p => x + m <= y /\ x \in Nat /\ y \in Nat)
    BY <1>1, <2>1
  <2> HIDE DEF x, y
  <2> QED
    BY <1>1, <2>2
<1>4. p = q
  BY <1>1, <1>2, <1>3
<1>5. s = r
  <2> DEFINE x == m * q
  <2>1. x \in Nat /\ n = x + r /\ n = x + s
    BY <1>1, <1>4
  <2> HIDE DEF x
  <2> QED
    BY <1>1, <2>1
<1> QED
  BY <1>4, <1>5 DEF p, s

LEMMA QuotientLess ==
  ASSUME NEW n \in Nat, NEW m \in Nat \ {0}, NEW k \in Nat, n < k * m
  PROVE n \div m < k
  BY Z3

\* The clock's next tick is of the same minute, or the first of the next one; or it starts again.
LEMMA ClockTurns ==
  ASSUME clock \in Nat, clock < Minutes * MinuteTicks, clock' = (clock + 1) % (Minutes * MinuteTicks)
  PROVE /\ clock' \in Nat /\ clock' < Minutes * MinuteTicks /\ Minute \in DOMAIN Local /\ Minute' \in DOMAIN Local
        /\ Used \in 0 .. MinuteTicks - 1 /\ Used' \in 0 .. MinuteTicks - 1
        /\ Used # MinuteTicks - 1 => Minute' = Minute /\ Used' = Used + 1
        /\ Used = MinuteTicks - 1 => Used' = 0
<1> DEFINE all == Minutes * MinuteTicks
<1>1. all \in Nat \ {0}
  BY Clocks, Z3
<1>2. clock + 1 <= all
  BY <1>1
<1>3. clock' = IF clock + 1 = all THEN 0 ELSE clock + 1
  <2> HIDE DEF all
  <2>1. CASE clock + 1 = all
    <3>1. (clock + 1) % all = 0
      BY <1>1, <2>1, DividedBy
    <3> QED
      BY <2>1, <3>1 DEF all
  <2>2. CASE clock + 1 # all
    <3>1. clock + 1 \in 0 .. all - 1 /\ clock + 1 = all * 0 + (clock + 1)
      BY <1>1, <1>2, <2>2
    <3>2. (clock + 1) % all = clock + 1
      BY <1>1, <3>1, DividedBy
    <3> QED
      BY <2>2, <3>2 DEF all
  <2> QED
    BY <2>1, <2>2
<1>4. clock' \in Nat /\ clock' < all
  <2> HIDE DEF all
  <2> QED
    BY <1>1, <1>2, <1>3
<1>5. \A n \in Nat : n < all => n \div MinuteTicks \in DOMAIN Local
  <2>1. \A n \in Nat : n < all => n \div MinuteTicks \in Nat /\ n \div MinuteTicks < Minutes
    BY Clocks, Divided, QuotientLess
  <2> QED
    BY <2>1, Clocks
<1>6. Minute \in Nat /\ Used \in 0 .. MinuteTicks - 1 /\ clock = MinuteTicks * Minute + Used
  BY Clocks, Divided DEF Minute, Used
<1>7. Minute' \in Nat /\ Used' \in 0 .. MinuteTicks - 1 /\ clock' = MinuteTicks * Minute' + Used'
  BY <1>4, Clocks, Divided DEF Minute, Used
<1>8. ASSUME Used # MinuteTicks - 1
      PROVE Minute' = Minute /\ Used' = Used + 1
  <2>1. clock + 1 = MinuteTicks * Minute + (Used + 1) /\ Used + 1 \in 0 .. MinuteTicks - 1
    BY <1>6, <1>8, Clocks, Z3
  <2>2. (clock + 1) \div MinuteTicks = Minute /\ (clock + 1) % MinuteTicks = Used + 1
    <3> DEFINE n == clock + 1
               r == Used + 1
    <3>1. n \in Nat /\ r \in 0 .. MinuteTicks - 1 /\ n = MinuteTicks * Minute + r
      BY <2>1
    <3> HIDE DEF n, r
    <3>2. n \div MinuteTicks = Minute /\ n % MinuteTicks = r
      BY <1>6, <3>1, Clocks, DividedBy
    <3> QED
      BY <3>2 DEF n, r
  <2>3. clock + 1 # all
    <3>1. clock + 1 = all => clock + 1 = MinuteTicks * Minutes + 0
      BY Clocks, Z3
    <3>2. clock + 1 = all => (clock + 1) % MinuteTicks = 0
      <4> DEFINE n == clock + 1
      <4>1. n \in Nat /\ (n = all => n = MinuteTicks * Minutes + 0)
        BY <3>1
      <4> HIDE DEF n, all
      <4>2. n = all => n % MinuteTicks = 0
        BY <4>1, Clocks, DividedBy
      <4> QED
        BY <4>2 DEF n
    <3> QED
      BY <1>6, <2>2, <3>2
  <2>4. clock' = clock + 1
    BY <1>3, <2>3
  <2> QED
    BY <2>2, <2>4 DEF Minute, Used
<1>9. ASSUME Used = MinuteTicks - 1
      PROVE Used' = 0
  <2>1. clock + 1 = MinuteTicks * (Minute + 1) + 0
    BY <1>6, <1>9, Clocks, Z3
  <2>2. (clock + 1) % MinuteTicks = 0
    BY <1>6, <2>1, Clocks, DividedBy
  <2>3. 0 % MinuteTicks = 0
    BY Clocks, DividedBy
  <2> QED
    BY <1>3, <2>2, <2>3 DEF Used
<1> QED
  BY <1>4, <1>5, <1>6, <1>7, <1>8, <1>9 DEF Minute

\* The types, and where the scheduler is.
LEMMA TimersBegin == TimersInit => TimersType /\ Rounds
<1> SUFFICES ASSUME TimersInit
             PROVE TimersType /\ Rounds
  OBVIOUS
<1>1. 0 < Minutes * MinuteTicks
  BY Clocks, Z3
<1>2. TimersType
  BY <1>1, TimersAssumption DEF TimersInit, TimersType, Loops, Trigger, Asleep, New
<1>3. Rounds
  BY TimersAssumption DEF TimersInit, Rounds, Asleep, Stage, Trigger
<1> QED
  BY <1>2, <1>3

LEMMA NextAtType ==
  ASSUME NEW t \in Timer, NEW jitter \in 0 .. Jitter[t], TimersType
  PROVE /\ Next_at(t, jitter) \in Nat
        /\ Next_at(t, jitter) < Rest => Every[t] < loop.drift + Rest \/ Rest <= 0
<1>1. Every[t] \in Nat /\ Jitter[t] \in Nat /\ loop.drift \in Nat
  BY TimersAssumption DEF TimersType, Loops
<1>2. Rest \in Int
  BY Clocks, Divided DEF Rest, Used, TimersType, Loops
<1> QED
  BY <1>1, <1>2 DEF Next_at

LEMMA TickType ==
  ASSUME TimersType, Rounds, Tick
  PROVE TimersType' /\ Rounds'
<1>1. TimersType'
  BY DEF Tick, TimersType, Loops, Trigger
<1>2. Rounds'
  BY DEF Tick, Rounds, Stage, TimersType, Loops
<1> QED
  BY <1>1, <1>2

LEMMA LoopGoesOn ==
  ASSUME loop \in Loops, NEW x \in Trigger, Passed(x) \/ Fire(x), loop.at \in {"timers", "crons"}
  PROVE /\ loop' \in Loops /\ loop'.left \subseteq loop.left /\ loop'.at \in {loop.at, "running"}
        /\ loop'.at = "running" => loop'.of = loop.at /\ loop'.nap = 0
<1>1. CASE Passed(x)
  BY <1>1 DEF Passed, Loops
<1>2. CASE Fire(x)
  <2>1. loop' = [at |-> "running", left |-> loop.left \ {x}, ripe |-> loop.ripe, drift |-> loop.drift, nap |-> 0,
                 who |-> {x}, of |-> loop.at]
    BY <1>2 DEF Fire, Loops
  <2>2. loop.left \ {x} \in SUBSET Trigger /\ loop.ripe \in SUBSET Timer /\ loop.drift \in Nat
    BY DEF Loops
  <2> QED
    BY <2>1, <2>2 DEF Loops
<1> QED
  BY <1>1, <1>2

LEMMA TimerType ==
  ASSUME TimersType, Rounds, NEW t \in Timer, LookAtTimer(t)
  PROVE TimersType' /\ Rounds'
<1>1. due' \in [Timer -> Nat \cup {New}]
  <2>1. \A jitter \in 0 .. Jitter[t] : Next_at(t, jitter) \in Nat
    BY NextAtType
  <2>2. due' = due \/ \E jitter \in 0 .. Jitter[t] : due' = [due EXCEPT ![t] = Next_at(t, jitter)]
    BY DEF LookAtTimer, DueBeforeRun
  <2> QED
    BY <2>1, <2>2 DEF TimersType, Loops
<1>2. Passed(t) \/ Fire(t)
  BY DEF LookAtTimer
<1>3. talk' \in [Trigger -> Nat]
  <2>1. talk' = talk \/ talk' = [talk EXCEPT ![t] = 0]
    BY DEF LookAtTimer, Fire
  <2> QED
    BY <2>1 DEF TimersType, Loops
<1>4. UNCHANGED <<on, clock, handled, said>> /\ loop.at = "timers"
  BY DEF LookAtTimer
<1>5. /\ loop' \in Loops
      /\ loop'.left \subseteq loop.left /\ loop'.at \in {"timers", "running"}
      /\ loop'.at = "running" => loop'.of = "timers" /\ loop'.nap = 0
  BY <1>2, <1>4, LoopGoesOn DEF TimersType, Loops, Trigger
<1>6. TimersType'
  BY <1>1, <1>3, <1>4, <1>5 DEF TimersType, Loops
<1>7. Rounds'
  BY <1>4, <1>5, Clocks DEF Rounds, Stage
<1> QED
  BY <1>6, <1>7

LEMMA CronType ==
  ASSUME TimersType, Rounds, NEW d \in Cron, LookAtCron(d)
  PROVE TimersType' /\ Rounds'
<1>1. Passed(d) \/ Fire(d)
  BY DEF LookAtCron
<1>2. talk' \in [Trigger -> Nat]
  <2>1. talk' = talk \/ talk' = [talk EXCEPT ![d] = 0]
    BY DEF LookAtCron, Fire
  <2> QED
    BY <2>1 DEF TimersType, Loops
<1>3. handled' \subseteq Cron /\ said' \in [Cron -> {"no", "held", "fired"}]
  BY DEF LookAtCron, TimersType, Loops, Marked
<1>4. UNCHANGED <<on, due, clock>> /\ loop.at = "crons"
  BY DEF LookAtCron
<1>5. /\ loop' \in Loops
      /\ loop'.left \subseteq loop.left /\ loop'.at \in {"crons", "running"}
      /\ loop'.at = "running" => loop'.of = "crons" /\ loop'.nap = 0
  BY <1>1, <1>4, LoopGoesOn DEF TimersType, Loops, Trigger
<1>6. TimersType'
  BY <1>2, <1>3, <1>4, <1>5 DEF TimersType, Loops
<1>7. Rounds'
  BY <1>4, <1>5, Clocks DEF Rounds, Stage
<1> QED
  BY <1>6, <1>7

LEMMA RoundType ==
  ASSUME TimersType, Rounds, Crons \/ Sleep
  PROVE TimersType' /\ Rounds'
<1>1. CASE Crons
  <2>1. TimersType'
    BY <1>1 DEF Crons, TimersType, Loops
  <2>2. Rounds'
    BY <1>1 DEF Crons, Rounds, Stage, TimersType, Loops
  <2> QED
    BY <2>1, <2>2
<1>2. CASE Sleep
  <2>1. TimersType'
    BY <1>2 DEF Sleep, TimersType, Loops, Asleep
  <2>2. Rounds'
    BY <1>2 DEF Sleep, Rounds, Stage, Asleep
  <2> QED
    BY <2>1, <2>2
<1> QED
  BY <1>1, <1>2

LEMMA EndType ==
  ASSUME TimersType, Rounds, NEW how \in {"done", "raised", "cut"}, RunEnds(how)
  PROVE TimersType' /\ Rounds'
<1>1. loop.at = "running" /\ UNCHANGED <<on, due, talk, clock, handled, said>>
  BY DEF RunEnds
<1>2. CASE how = "done"
  <2>1. loop' = [loop EXCEPT !.at = loop.of, !.who = {}, !.nap = 0]
    BY <1>2 DEF RunEnds
  <2>2. TimersType'
    BY <1>1, <2>1 DEF TimersType, Loops
  <2>3. Rounds'
    BY <1>1, <2>1 DEF Rounds, Stage, TimersType, Loops
  <2> QED
    BY <2>2, <2>3
<1>3. CASE how # "done"
  <2>1. loop' = Asleep(1) \/ loop' = [Asleep(0) EXCEPT !.at = "cancelled"]
    BY <1>3 DEF RunEnds, AfterRaise
  <2>2. TimersType'
    BY <1>1, <2>1 DEF TimersType, Loops, Asleep
  <2>3. Rounds'
    BY <1>1, <2>1 DEF Rounds, Stage, Asleep
  <2> QED
    BY <2>2, <2>3
<1> QED
  BY <1>2, <1>3

LEMMA PassType ==
  ASSUME TimersType, Rounds, Pass
  PROVE TimersType' /\ Rounds'
<1>1. due' = [t \in Timer |-> IF due[t] > 0 THEN due[t] - 1 ELSE due[t]] /\ UNCHANGED <<on, talk>>
  BY DEF Pass
<1>2. due' \in [Timer -> Nat \cup {New}]
  <2>1. \A t \in Timer : due[t] \in Nat \cup {New}
    BY DEF TimersType, Loops
  <2> QED
    BY <1>1, <2>1 DEF New
<1>3. clock' \in Nat /\ clock' < Minutes * MinuteTicks
  BY ClockTurns DEF Pass, TimersType, Loops
<1>4. handled' \subseteq Cron /\ said' \in [Cron -> {"no", "held", "fired"}]
  BY DEF Pass, TimersType, Loops
<1>5. CASE loop.at = "asleep" /\ loop.nap > 0 /\ loop' = [loop EXCEPT !.nap = @ - 1]
  <2>1. TimersType'
    BY <1>1, <1>2, <1>3, <1>4, <1>5 DEF TimersType, Loops
  <2>2. Rounds'
    BY <1>1, <1>5 DEF Rounds, Stage, TimersType, Loops
  <2> QED
    BY <2>1, <2>2
<1>6. CASE loop.at = "cancelled" /\ UNCHANGED loop
  <2>1. TimersType'
    BY <1>1, <1>2, <1>3, <1>4, <1>6 DEF TimersType, Loops
  <2>2. Rounds'
    BY <1>1, <1>6 DEF Rounds, Stage
  <2> QED
    BY <2>1, <2>2
<1>7. CASE loop.at = "running" /\ loop.nap < RunLasts /\ loop' = [loop EXCEPT !.nap = @ + 1, !.drift = @ + 1]
  <2>1. loop' \in Loops
    <3>1. loop.nap + 1 \in Nat /\ loop.drift + 1 \in Nat
      BY DEF TimersType, Loops
    <3>2. loop' = [at |-> loop.at, left |-> loop.left, ripe |-> loop.ripe, drift |-> loop.drift + 1,
                   nap |-> loop.nap + 1, who |-> loop.who, of |-> loop.of]
      BY <1>7 DEF TimersType, Loops
    <3> QED
      BY <3>1, <3>2 DEF TimersType, Loops
  <2>2. TimersType'
    BY <1>1, <1>2, <1>3, <1>4, <2>1 DEF TimersType, Loops
  <2>3. Rounds'
    BY <1>1, <1>7, Clocks DEF Rounds, Stage, TimersType, Loops
  <2> QED
    BY <2>2, <2>3
<1> QED
  BY <1>5, <1>6, <1>7 DEF Pass

LEMMA ElseType ==
  ASSUME TimersType, Rounds, Line \/ \E x \in Trigger : SetEnabled(x)
  PROVE TimersType' /\ Rounds'
<1>1. CASE Line
  <2>1. talk' \in [Trigger -> Nat]
    <3>1. \A x \in Trigger : talk[x] \in Nat
      BY DEF TimersType, Loops
    <3> QED
      BY <1>1, <3>1 DEF Line
  <2>2. UNCHANGED <<on, due, clock, handled, loop, said>>
    BY <1>1 DEF Line
  <2> QED
    BY <2>1, <2>2 DEF TimersType, Loops, Rounds, Stage
<1>2. ASSUME NEW x \in Trigger, SetEnabled(x)
      PROVE TimersType' /\ Rounds'
  <2>1. UNCHANGED <<due, talk, clock, handled, loop, said>>
    BY <1>2 DEF SetEnabled
  <2>2. on' \subseteq Trigger
    BY <1>2 DEF SetEnabled, TimersType, Loops
  <2>3. Steady \subseteq on => Steady \subseteq on'
    BY <1>2 DEF SetEnabled
  <2> QED
    BY <2>1, <2>2, <2>3 DEF TimersType, Loops, Rounds, Stage
<1> QED
  BY <1>1, <1>2

-----------------------------------------------------------------------------
(* How many runs may come before a cron's, and how long they may take.     *)

LEMMA CountsAre ==
  ASSUME TimersType, NEW c
  PROVE /\ Awaited \subseteq Timer /\ Returning \subseteq Timer
        /\ IsFiniteSet(Awaited) /\ IsFiniteSet(Returning) /\ IsFiniteSet(StillOpen(c)) /\ FiresLeft(c) \in Nat
        /\ Cardinality(Awaited) \in Nat /\ Cardinality(Returning) \in Nat /\ Cardinality(StillOpen(c)) \in Nat
        /\ Used \in Nat /\ Rest \in Nat \ {0} /\ Rest <= MinuteTicks /\ Rests(c) \in Int
<1>1. IsFiniteSet(Timer) /\ IsFiniteSet(Cron)
  <2>1. Timer \in SUBSET Trigger /\ Cron \in SUBSET Trigger
    BY DEF Trigger
  <2> QED
    BY <2>1, TimersAssumption, FS_Subset
<1>2. Awaited \in SUBSET Timer /\ Returning \in SUBSET Timer /\ StillOpen(c) \in SUBSET Cron
  BY DEF TimersType, Loops, Awaited, Returning, StillOpen
<1>3. IsFiniteSet(Awaited) /\ IsFiniteSet(Returning) /\ IsFiniteSet(StillOpen(c))
  BY <1>1, <1>2, FS_Subset
<1>4. Cardinality(Awaited) \in Nat /\ Cardinality(Returning) \in Nat /\ Cardinality(StillOpen(c)) \in Nat
  BY <1>3, FS_CardinalityType
<1>5. Used \in 0 .. MinuteTicks - 1
  BY Clocks, Divided DEF Used, TimersType
<1>6. Used \in Nat /\ Rest \in Nat \ {0} /\ Rest <= MinuteTicks
  BY <1>5, Clocks DEF Rest
<1>7. Rests(c) \in Int
  BY Clocks DEF Rests, TimersType, Loops
<1> QED
  BY <1>2, <1>3, <1>4, <1>6, <1>7 DEF FiresLeft

\* And so they are after a step.
LEMMA CountsThen ==
  ASSUME TimersType', NEW c
  PROVE /\ Awaited' \subseteq Timer /\ Returning' \subseteq Timer
        /\ IsFiniteSet(Awaited') /\ IsFiniteSet(Returning') /\ IsFiniteSet(StillOpen(c)') /\ FiresLeft(c)' \in Nat
        /\ Cardinality(Awaited') \in Nat /\ Cardinality(Returning') \in Nat /\ Cardinality(StillOpen(c)') \in Nat
        /\ Used' \in Nat /\ Rest' \in Nat \ {0} /\ Rest' <= MinuteTicks /\ Rests(c)' \in Int
<1>1. IsFiniteSet(Timer) /\ IsFiniteSet(Cron)
  <2>1. Timer \in SUBSET Trigger /\ Cron \in SUBSET Trigger
    BY DEF Trigger
  <2> QED
    BY <2>1, TimersAssumption, FS_Subset
<1>2. Awaited' \in SUBSET Timer /\ Returning' \in SUBSET Timer /\ StillOpen(c)' \in SUBSET Cron
  BY DEF TimersType, Loops, Awaited, Returning, StillOpen
<1>3. IsFiniteSet(Awaited') /\ IsFiniteSet(Returning') /\ IsFiniteSet(StillOpen(c)')
  BY <1>1, <1>2, FS_Subset
<1>4. Cardinality(Awaited') \in Nat /\ Cardinality(Returning') \in Nat /\ Cardinality(StillOpen(c)') \in Nat
  BY <1>3, FS_CardinalityType
<1>5. clock' % MinuteTicks \in 0 .. MinuteTicks - 1
  <2>1. clock' \in Nat
    BY DEF TimersType
  <2>2. \A n \in Nat : n % MinuteTicks \in 0 .. MinuteTicks - 1
    BY Clocks, Divided
  <2> QED
    BY <2>1, <2>2
<1>6. Used' \in Nat /\ Rest' \in Nat \ {0} /\ Rest' <= MinuteTicks
  BY <1>5, Clocks DEF Rest, Used
<1>7. Rests(c)' \in Int
  BY Clocks DEF Rests, TimersType, Loops
<1> QED
  BY <1>2, <1>3, <1>4, <1>6, <1>7 DEF FiresLeft

\* Two sets that share nothing are together no more than a set that has them both.
LEMMA Apart ==
  ASSUME NEW A, NEW B, NEW C, IsFiniteSet(C), A \subseteq C, B \subseteq C, A \cap B = {}
  PROVE Cardinality(A) + Cardinality(B) <= Cardinality(C)
<1>1. A \in SUBSET C /\ B \in SUBSET C /\ A \cup B \in SUBSET C
  OBVIOUS
<1>2. IsFiniteSet(A) /\ IsFiniteSet(B) /\ Cardinality(A \cup B) <= Cardinality(C)
  BY <1>1, FS_Subset
<1>3. Cardinality(A \cup B) = Cardinality(A) + Cardinality(B) - Cardinality(A \cap B)
  BY <1>2, FS_Union
<1>4. Cardinality(A \cap B) = 0
  BY FS_EmptySet
<1>5. Cardinality(A) \in Nat /\ Cardinality(B) \in Nat /\ Cardinality(C) \in Nat
  BY <1>2, FS_CardinalityType
<1> QED
  BY <1>2, <1>3, <1>4, <1>5

LEMMA Together ==
  ASSUME NEW A, NEW B, NEW C, IsFiniteSet(A), IsFiniteSet(B), C \subseteq A \cup B
  PROVE Cardinality(C) <= Cardinality(A) + Cardinality(B)
<1>1. IsFiniteSet(A \cup B) /\ Cardinality(A \cup B) = Cardinality(A) + Cardinality(B) - Cardinality(A \cap B)
  BY FS_Union
<1>2. IsFiniteSet(A \cap B)
  BY FS_Intersection
<1>3. Cardinality(A \cap B) \in Nat /\ Cardinality(A) \in Nat /\ Cardinality(B) \in Nat
  BY <1>2, FS_CardinalityType
<1>4. IsFiniteSet(C) /\ Cardinality(C) <= Cardinality(A \cup B)
  <2>1. C \in SUBSET (A \cup B)
    OBVIOUS
  <2> QED
    BY <1>1, <2>1, FS_Subset
<1>5. Cardinality(C) \in Nat
  BY <1>4, FS_CardinalityType
<1> QED
  BY <1>1, <1>3, <1>4, <1>5

LEMMA Smaller ==
  ASSUME NEW A, NEW B, IsFiniteSet(B), A \subseteq B
  PROVE Cardinality(A) <= Cardinality(B)
  BY FS_Subset

LEMMA OneLess ==
  ASSUME NEW A, NEW B, NEW x, IsFiniteSet(B), x \in B, A \subseteq B \ {x}
  PROVE Cardinality(A) + 1 <= Cardinality(B)
<1>1. IsFiniteSet(B \ {x}) /\ Cardinality(B \ {x}) = Cardinality(B) - 1
  BY FS_RemoveElement
<1>2. IsFiniteSet(A) /\ Cardinality(A) <= Cardinality(B \ {x})
  <2>1. A \in SUBSET (B \ {x})
    OBVIOUS
  <2> QED
    BY <1>1, <2>1, FS_Subset
<1>3. Cardinality(A) \in Nat /\ Cardinality(B) \in Nat
  BY <1>2, FS_CardinalityType
<1> QED
  BY <1>1, <1>2, <1>3

LEMMA Products ==
  ASSUME NEW k \in Nat, NEW f \in Nat, NEW g \in Nat, g <= f
  PROVE k * f \in Nat /\ k * g \in Nat /\ k * g <= k * f /\ (g + 1 <= f => k * g + k <= k * f)
<1>1. k * f \in Nat /\ k * g \in Nat
  BY Z3
<1>2. g < f => k * g + k <= k * f
  BY Grows
<1>3. g = f => k * g = k * f
  OBVIOUS
<1> DEFINE x == k * f
           y == k * g
<1>4. x \in Nat /\ y \in Nat /\ (g < f => y + k <= x) /\ (g = f => y = x)
  BY <1>1, <1>2, <1>3
<1> HIDE DEF x, y
<1>5. y <= x /\ (g + 1 <= f => y + k <= x)
  BY <1>4
<1> QED
  BY <1>4, <1>5 DEF x, y

\* A step that takes no time leaves the cron in time when it costs no more than it brings.
LEMMA StaysInTime ==
  ASSUME TimersType, TimersType', NEW c, clock' = clock,
         \/ FiresLeft(c)' <= FiresLeft(c) /\ Rests(c)' <= Rests(c)
         \/ FiresLeft(c)' + 1 <= FiresLeft(c) /\ Rests(c)' <= Rests(c) + RunLasts + 1,
         InTime(c)
  PROVE InTime(c)'
<1> DEFINE k == RunLasts + 1
           f == FiresLeft(c)
           g == FiresLeft(c)'
           v == Rests(c)
           w == Rests(c)'
<1>1. f \in Nat /\ v \in Int /\ Used \in Nat
  BY CountsAre
<1>2. g \in Nat /\ w \in Int
  BY CountsThen
<1>3. k \in Nat /\ MinuteTicks \in Nat
  BY Clocks
<1>4. Used + (k * f + v) < MinuteTicks
  BY DEF InTime, Load
<1>5. InTime(c)' <=> Used + (k * g + w) < MinuteTicks
  BY DEF InTime, Load, Used
<1>6. (g <= f /\ w <= v) \/ (g + 1 <= f /\ w <= v + k)
  BY <1>1, <1>2, Clocks
<1> HIDE DEF f, g, v, w, k
<1>7. k * f \in Nat /\ k * g \in Nat /\ (g <= f => k * g <= k * f) /\ (g + 1 <= f => k * g + k <= k * f)
  BY <1>1, <1>2, <1>3, Products
<1> DEFINE x == k * f
           y == k * g
<1>8. x \in Nat /\ y \in Nat /\ (g <= f => y <= x) /\ (g + 1 <= f => y + k <= x) /\ Used + (x + v) < MinuteTicks
  BY <1>4, <1>7
<1> HIDE DEF x, y
<1>9. Used + (y + w) < MinuteTicks
  BY <1>1, <1>2, <1>3, <1>6, <1>8
<1> QED
  BY <1>5, <1>9 DEF y

\* And so does a tick, when there is one that was to pass.
LEMMA TimeInTime ==
  ASSUME TimersType, TimersType', NEW c, Used' = Used + 1, FiresLeft(c)' <= FiresLeft(c), Rests(c)' = Rests(c) - 1,
         InTime(c)
  PROVE InTime(c)'
<1> DEFINE k == RunLasts + 1
           f == FiresLeft(c)
           g == FiresLeft(c)'
           v == Rests(c)
           w == Rests(c)'
<1>1. f \in Nat /\ v \in Int /\ Used \in Nat
  BY CountsAre
<1>2. g \in Nat /\ w \in Int
  BY CountsThen
<1>3. k \in Nat /\ MinuteTicks \in Nat
  BY Clocks
<1>4. Used + (k * f + v) < MinuteTicks
  BY DEF InTime, Load
<1>5. InTime(c)' <=> Used' + (k * g + w) < MinuteTicks
  BY DEF InTime, Load
<1>6. g <= f /\ w = v - 1
  OBVIOUS
<1> HIDE DEF f, g, v, w, k
<1>7. k * f \in Nat /\ k * g \in Nat /\ k * g <= k * f
  BY <1>1, <1>2, <1>3, <1>6, Products
<1> DEFINE x == k * f
           y == k * g
<1>8. x \in Nat /\ y \in Nat /\ y <= x /\ Used + (x + v) < MinuteTicks
  BY <1>4, <1>7
<1> HIDE DEF x, y
<1>9. Used + 1 + (y + w) < MinuteTicks
  BY <1>1, <1>2, <1>3, <1>6, <1>8
<1> QED
  BY <1>5, <1>9 DEF y

-----------------------------------------------------------------------------
(* The steps of a tick take no time.                                       *)

LEMMA NoTimePasses ==
  ASSUME TimersType, TimersType', NEW c, UNCHANGED <<clock, handled, said>>, CronKept(c),
         loop.at \notin {"off", "cancelled"},
         Matches(c, Minute) =>
           \/ loop'.at = "cancelled"
           \/ FiresLeft(c)' <= FiresLeft(c) /\ Rests(c)' <= Rests(c)
           \/ FiresLeft(c)' + 1 <= FiresLeft(c) /\ Rests(c)' <= Rests(c) + RunLasts + 1
  PROVE CronKept(c)'
<1>1. Matches(c, Minute)' <=> Matches(c, Minute)
  BY DEF Matches, Minute
<1>2. (c \in handled => said[c] = "fired")'
  BY DEF CronKept
<1>3. ASSUME Matches(c, Minute), c \notin handled, loop'.at # "cancelled"
      PROVE InTime(c)'
  <2>1. InTime(c)
    BY <1>3 DEF CronKept
  <2> QED
    BY <1>3, <2>1, StaysInTime
<1> QED
  BY <1>1, <1>2, <1>3 DEF CronKept

\* The runs that are left, from the sets they are counted by.
LEMMA FewerFires ==
  ASSUME TimersType, TimersType', NEW c, UNCHANGED <<clock, handled>>,
         Cardinality(Awaited') + Cardinality(Returning') <= Cardinality(Awaited) + Cardinality(Returning)
  PROVE FiresLeft(c)' <= FiresLeft(c)
<1>1. StillOpen(c)' = StillOpen(c)
  BY DEF StillOpen, Matches, Minute
<1>2. FiresLeft(c)' = Cardinality(Awaited') + Cardinality(Returning') + Cardinality(StillOpen(c))
  BY <1>1 DEF FiresLeft
<1> QED
  BY <1>2, CountsAre, CountsThen DEF FiresLeft

LEMMA SameRest ==
  ASSUME TimersType, clock' = clock
  PROVE Rest' = Rest /\ Rest \in Nat \ {0} /\ Rest <= MinuteTicks
<1>1. Rest' = Rest
  BY DEF Rest, Used
<1> QED
  BY <1>1, CountsAre

LEMMA TickKeeps ==
  ASSUME TimersType, TimersType', Rounds, TimeToSpare, NEW c, CronKept(c), Tick
  PROVE CronKept(c)'
<1>1. /\ loop.at = "asleep" /\ loop.nap = 0 /\ UNCHANGED <<on, due, talk, clock, handled, said>>
      /\ loop'.at = "timers" /\ loop'.left = on \cap Timer /\ loop'.ripe = {t \in Timer : due[t] = 0}
      /\ loop'.drift = loop.drift /\ loop.drift = 0
  BY DEF Tick, Rounds, TimersType, Loops
<1>2. Awaited' \subseteq {t \in Timer : due[t] = 0} /\ Awaited = {}
  BY <1>1 DEF Awaited, Stage
<1>3. \A t \in Timer : ~ComesTo(t)
  BY <1>1, <1>2 DEF ComesTo, Stage
<1>4. Returning = {t \in Timer : due[t] # New /\ due[t] < Rest}
  BY <1>3 DEF Returning
<1>5. \A t \in Timer : ComesTo(t)' => t \notin Returning'
  <2>1. \A t \in Timer : ~(Every[t] < 0 + Rest)
    BY <1>1, SameRest, Clocks, TimersAssumption DEF TimeToSpare
  <2> QED
    BY <1>1, <2>1, SameRest DEF Returning
<1>6. Returning' \subseteq Returning
  BY <1>1, <1>4, <1>5, SameRest DEF Returning
<1>7. Awaited' \subseteq Returning
  BY <1>2, <1>4, SameRest, <1>1 DEF New
<1>8. Awaited' \cap Returning' = {}
  BY <1>2, <1>5 DEF ComesTo
<1>9. Cardinality(Awaited') + Cardinality(Returning') <= Cardinality(Returning)
  BY <1>6, <1>7, <1>8, Apart, CountsAre
<1>10. Cardinality(Awaited) = 0
  BY <1>2, FS_EmptySet
<1>11. FiresLeft(c)' <= FiresLeft(c)
  BY <1>1, <1>9, <1>10, FewerFires, CountsAre, CountsThen
<1>12. Rests(c)' <= Rests(c)
  BY <1>1 DEF Rests
<1> QED
  BY <1>1, <1>11, <1>12, NoTimePasses

LEMMA TimerKeeps ==
  ASSUME TimersType, TimersType', Rounds, NEW c, CronKept(c), NEW t \in Timer, LookAtTimer(t)
  PROVE CronKept(c)'
<1>1. loop.at = "timers" /\ t \in loop.left /\ UNCHANGED <<on, clock, handled, said>>
  BY DEF LookAtTimer
<1>2. /\ loop'.left = loop.left \ {t} /\ loop'.ripe = loop.ripe /\ loop'.drift = loop.drift /\ Stage' = "timers"
      /\ Stage = "timers"
  BY <1>1 DEF LookAtTimer, Passed, Fire, Stage, TimersType, Loops
<1>3. Awaited' = Awaited \ {t}
  BY <1>2 DEF Awaited
<1>4. \A u \in Timer \ {t} : due'[u] = due[u]
  BY DEF LookAtTimer, DueBeforeRun, TimersType
<1>5. \A u \in Timer \ {t} : u \in Returning' <=> u \in Returning
  <2>1. \A u \in Timer \ {t} : ComesTo(u)' <=> ComesTo(u)
    BY <1>2, <1>3, <1>4 DEF ComesTo
  <2> QED
    BY <1>1, <1>2, <1>4, <2>1, SameRest DEF Returning
<1>6. ~ComesTo(t)'
  BY <1>2, <1>3 DEF ComesTo
<1>7. ASSUME NEW jitter \in 0 .. Jitter[t], ComesTo(t), due' = [due EXCEPT ![t] = Next_at(t, jitter)]
      PROVE Returning' \subseteq Returning
  <2>1. due'[t] = Next_at(t, jitter)
    BY <1>7 DEF TimersType
  <2>2. t \in Returning' => Next_at(t, jitter) < Rest
    BY <1>1, <1>6, <2>1, SameRest DEF Returning
  <2>3. Next_at(t, jitter) < Rest => Every[t] < loop.drift + Rest
    BY <1>1, NextAtType, SameRest
  <2>4. t \in Returning' => t \in Returning
    BY <1>7, <2>2, <2>3 DEF Returning
  <2>5. Returning' \subseteq Timer
    BY CountsThen
  <2> QED
    BY <1>5, <2>4, <2>5
<1>8. \/ due[t] = New /\ Passed(t) /\ \E jitter \in 0 .. Jitter[t] : due' = [due EXCEPT ![t] = Next_at(t, jitter)]
      \/ due[t] # New /\ t \notin loop.ripe /\ Passed(t) /\ due' = due
      \/ t \in loop.ripe /\ Fire(t) /\ \E jitter \in 0 .. Jitter[t] : due' = [due EXCEPT ![t] = Next_at(t, jitter)]
      \/ t \in loop.ripe /\ Passed(t) /\ due' = due
  BY DEF LookAtTimer, DueBeforeRun
<1>9. loop.at # "running" /\ Rests(c) = 0 /\ (Passed(t) => loop'.at = "timers" /\ Rests(c)' = 0)
  BY <1>1 DEF Passed, Rests, TimersType, Loops
<1>10. Awaited' \subseteq Awaited
  BY <1>3
<1>11. ASSUME Returning' \subseteq Returning, Passed(t)
       PROVE CronKept(c)'
  <2>1. Cardinality(Awaited') <= Cardinality(Awaited) /\ Cardinality(Returning') <= Cardinality(Returning)
    BY <1>10, <1>11, CountsAre, Smaller
  <2>2. FiresLeft(c)' <= FiresLeft(c)
    BY <1>1, <2>1, FewerFires, CountsAre, CountsThen
  <2> QED
    BY <1>1, <1>9, <1>11, <2>2, NoTimePasses
<1>12. CASE due[t] = New /\ Passed(t) /\ \E jitter \in 0 .. Jitter[t] : due' = [due EXCEPT ![t] = Next_at(t, jitter)]
  <2>1. ComesTo(t)
    BY <1>1, <1>2, <1>12 DEF ComesTo
  <2> QED
    BY <1>7, <1>11, <1>12, <2>1
<1>13. CASE due[t] # New /\ t \notin loop.ripe /\ Passed(t) /\ due' = due
  <2>1. ~ComesTo(t)
    BY <1>13 DEF ComesTo, Awaited
  <2>2. t \in Returning' => t \in Returning
    BY <1>1, <1>6, <1>13, <2>1, SameRest DEF Returning
  <2>3. Returning' \subseteq Timer
    BY CountsThen
  <2> QED
    BY <1>5, <1>11, <1>13, <2>2, <2>3
<1>14. CASE t \in loop.ripe /\ Fire(t) /\ \E jitter \in 0 .. Jitter[t] : due' = [due EXCEPT ![t] = Next_at(t, jitter)]
  <2>1. t \in Awaited
    BY <1>1, <1>2, <1>14 DEF Awaited
  <2>2. ComesTo(t)
    BY <2>1 DEF ComesTo
  <2>3. Returning' \subseteq Returning
    BY <1>7, <1>14, <2>2
  <2>4. Cardinality(Awaited') + 1 <= Cardinality(Awaited)
    BY <1>3, <2>1, CountsAre, OneLess
  <2>5. Cardinality(Returning') <= Cardinality(Returning)
    BY <2>3, CountsAre, Smaller
  <2>6. StillOpen(c)' = StillOpen(c)
    BY <1>1 DEF StillOpen, Matches, Minute
  <2>7. FiresLeft(c)' = Cardinality(Awaited') + Cardinality(Returning') + Cardinality(StillOpen(c))
    BY <2>6 DEF FiresLeft
  <2>8. FiresLeft(c)' + 1 <= FiresLeft(c)
    BY <2>4, <2>5, <2>7, CountsAre, CountsThen DEF FiresLeft
  <2>9. loop'.at = "running" /\ loop'.nap = 0
    BY <1>14 DEF Fire, TimersType, Loops
  <2>10. Rests(c)' = RunLasts + 1
    BY <2>9, Clocks DEF Rests
  <2>11. Rests(c)' <= Rests(c) + RunLasts + 1
    BY <1>9, <2>10, Clocks
  <2> QED
    BY <1>1, <2>8, <2>11, NoTimePasses
<1>15. CASE t \in loop.ripe /\ Passed(t) /\ due' = due
  <2>1. t \in Awaited
    BY <1>1, <1>2, <1>15 DEF Awaited
  <2>2. Cardinality(Awaited') + 1 <= Cardinality(Awaited)
    BY <1>3, <2>1, CountsAre, OneLess
  <2>3. Returning' \subseteq Returning \cup {t}
    BY <1>5, CountsThen
  <2>4. IsFiniteSet({t}) /\ Cardinality({t}) = 1
    BY FS_Singleton
  <2>5. Cardinality(Returning') <= Cardinality(Returning) + 1
    BY <2>3, <2>4, CountsAre, Together
  <2>6. FiresLeft(c)' <= FiresLeft(c)
    BY <1>1, <2>2, <2>5, FewerFires, CountsAre, CountsThen
  <2> QED
    BY <1>1, <1>9, <1>15, <2>6, NoTimePasses
<1> QED
  BY <1>8, <1>12, <1>13, <1>14, <1>15

\* Where the others come before it, a cron that fires is one less, and one that is passed over costs nothing.
LEMMA CronKeeps ==
  ASSUME TimersType, TimersType', Rounds, NEW c \in Cron \cap Steady, Needed[c] = 0, CronKept(c),
         NEW d \in Cron, LookAtCron(d)
  PROVE CronKept(c)'
<1>1. loop.at = "crons" /\ d \in loop.left /\ UNCHANGED <<on, due, clock>> /\ Stage = "crons"
  BY DEF LookAtCron, Stage
<1>2. Stage' = "crons" /\ (Passed(d) => loop'.at = "crons") /\ (Fire(d) => loop'.at = "running" /\ loop'.nap = 0)
  BY <1>1, ZenonT(60) DEF LookAtCron, Passed, Fire, Stage, TimersType, Loops
<1>3. Awaited' = {} /\ Awaited = {}
  BY <1>1, <1>2 DEF Awaited
<1>4. Returning' = Returning
  BY <1>1, <1>2, <1>3, SameRest DEF Returning, ComesTo
<1>5. \A x : Matches(x, Minute)' <=> Matches(x, Minute)
  BY <1>1 DEF Matches, Minute
<1>6. loop'.left = loop.left \ {d}
  BY DEF LookAtCron, Passed, Fire, TimersType, Loops
<1>7. CASE Matches(d, Minute) /\ d \notin handled
  <2>1. handled' = handled \cup {d} /\ (Fire(d) \/ Passed(d))
    BY <1>7 DEF LookAtCron, Marked
  <2>2. ASSUME d = c
        PROVE CronKept(c)'
    <3>1. \A channel \in ChannelAllows(c) : Ready(c, channel)
      <4>1. talk[c] >= 0
        BY DEF TimersType, Trigger
      <4>2. c \in Steady /\ Needed[c] = 0
        OBVIOUS
      <4> QED
        BY <4>1, <4>2 DEF ChannelAllows, Ready
    <3>2. said' = [said EXCEPT ![c] = "fired"]
      BY <1>7, <2>2, <3>1 DEF LookAtCron
    <3>3. said'[c] = "fired" /\ c \in handled'
      BY <2>1, <2>2, <3>2 DEF TimersType
    <3> QED
      BY <3>3 DEF CronKept
  <2>3. ASSUME d # c
        PROVE CronKept(c)'
    <3>1. said'[c] = said[c] /\ (c \in handled' <=> c \in handled)
      BY <1>7, <2>1, <2>3 DEF LookAtCron, TimersType
    <3>2. d \in StillOpen(c) /\ StillOpen(c)' = StillOpen(c) \ {d}
      BY <1>5, <1>7, <2>1, <2>3 DEF StillOpen
    <3>3. Cardinality(StillOpen(c)') + 1 <= Cardinality(StillOpen(c))
      BY <3>2, CountsAre, OneLess
    <3>4. FiresLeft(c)' + 1 <= FiresLeft(c)
      <4>1. FiresLeft(c)' = Cardinality(Awaited) + Cardinality(Returning) + Cardinality(StillOpen(c)')
        BY <1>3, <1>4 DEF FiresLeft
      <4> QED
        BY <3>3, <4>1, CountsAre, CountsThen DEF FiresLeft
    <3>5. Rests(c) \in {0, 1} /\ Rests(c)' <= Rests(c) + RunLasts + 1
      <4>1. Rests(c) = IF c \in loop.left THEN 0 ELSE 1
        BY <1>1 DEF Rests
      <4>2. CASE Fire(d)
        <5>1. Rests(c)' = RunLasts + 1
          BY <1>2, <4>2, Clocks DEF Rests
        <5> QED
          BY <4>1, <5>1, Clocks
      <4>3. CASE Passed(d)
        <5>1. Rests(c)' = IF c \in loop'.left THEN 0 ELSE 1
          BY <1>2, <4>3 DEF Rests
        <5> QED
          BY <1>6, <2>3, <4>1, <5>1, Clocks
      <4> QED
        BY <2>1, <4>2, <4>3
    <3>6. InTime(c) => InTime(c)'
      BY <1>1, <3>4, <3>5, StaysInTime
    <3> QED
      BY <1>1, <1>5, <3>1, <3>6 DEF CronKept
  <2> QED
    BY <2>2, <2>3
<1>8. CASE ~(Matches(d, Minute) /\ d \notin handled)
  <2>1. Passed(d) /\ UNCHANGED <<talk, handled, said>>
    BY <1>8 DEF LookAtCron
  <2>2. FiresLeft(c)' <= FiresLeft(c)
    <3>1. StillOpen(c)' = StillOpen(c)
      BY <1>5, <2>1 DEF StillOpen
    <3>2. FiresLeft(c)' = FiresLeft(c)
      BY <1>3, <1>4, <3>1 DEF FiresLeft
    <3> QED
      BY <3>2, CountsAre
  <2>3. c # d => Rests(c)' <= Rests(c)
    <3>1. Rests(c) = (IF c \in loop.left THEN 0 ELSE 1) /\ Rests(c)' = IF c \in loop'.left THEN 0 ELSE 1
      BY <1>1, <1>2, <2>1 DEF Rests
    <3> QED
      BY <1>6, <3>1
  <2>4. InTime(c) /\ c # d => InTime(c)'
    BY <1>1, <2>2, <2>3, StaysInTime
  <2> QED
    BY <1>1, <1>5, <1>8, <2>1, <2>4 DEF CronKept
<1> QED
  BY <1>7, <1>8

\* A round begins that has the cron in it, or ends when it has come to it.
LEMMA RoundKeeps ==
  ASSUME TimersType, TimersType', Rounds, NEW c \in Cron \cap Steady, CronKept(c), Crons \/ Sleep
  PROVE CronKept(c)'
<1>1. UNCHANGED <<on, due, clock, handled, said>> /\ loop.left = {} /\ loop.at \in {"timers", "crons"}
  BY DEF Crons, Sleep
<1>2. Stage' # "timers" /\ loop.at # "running" /\ (Stage = "timers" <=> loop.at = "timers")
  <2>1. loop'.at \in {"crons", "asleep"}
    <3>1. Crons => loop'.at = "crons"
      BY DEF Crons, TimersType, Loops
    <3>2. Sleep => loop'.at = "asleep"
      BY DEF Sleep, Asleep
    <3> QED
      BY <3>1, <3>2
  <2> QED
    BY <1>1, <2>1 DEF Stage
<1>3. Awaited = {} /\ Awaited' = {}
  BY <1>1, <1>2 DEF Awaited
<1>4. \A t : ~ComesTo(t) /\ ~ComesTo(t)'
  BY <1>1, <1>2, <1>3 DEF ComesTo
<1>5. Returning' = Returning
  BY <1>1, <1>4, SameRest DEF Returning
<1>6. FiresLeft(c)' <= FiresLeft(c)
  BY <1>1, <1>3, <1>5, FewerFires, CountsAre, CountsThen
<1>7. ASSUME Matches(c, Minute)
      PROVE Rests(c)' <= Rests(c)
  <2>1. CASE Crons
    <3>1. loop.at = "timers" /\ loop'.at = "crons" /\ loop'.left = on \cap DOMAIN Schedule
      BY <2>1 DEF Crons, TimersType, Loops
    <3>2. c \in loop'.left
      BY <1>7, <3>1 DEF Rounds, Matches
    <3>3. Rests(c) = 0 /\ Rests(c)' = 0
      BY <3>1, <3>2 DEF Rests
    <3> QED
      BY <3>3
  <2>2. CASE Sleep
    <3>1. loop.at = "crons" /\ c \notin loop.left /\ loop'.at = "asleep" /\ loop'.nap = 1
      BY <2>2 DEF Sleep, Asleep
    <3>2. Rests(c) = 1 /\ Rests(c)' = 1
      BY <3>1 DEF Rests
    <3> QED
      BY <3>2
  <2> QED
    BY <2>1, <2>2
<1> QED
  BY <1>1, <1>6, <1>7, NoTimePasses

\* A run that is over leaves its tick where it was, or the sleep after it, with those the tick had not come to.
LEMMA EndKeeps ==
  ASSUME TimersType, TimersType', Rounds, NEW c, CronKept(c), NEW how \in {"done", "raised", "cut"}, RunEnds(how)
  PROVE CronKept(c)'
<1>1. loop.at = "running" /\ UNCHANGED <<on, due, talk, clock, handled, said>>
  BY DEF RunEnds
<1>2. Rests(c) >= 1 /\ Rests(c) \in Int
  BY <1>1, Clocks DEF Rests, Rounds, TimersType, Loops
<1>3. CASE how = "done"
  <2>1. loop' = [loop EXCEPT !.at = loop.of, !.who = {}, !.nap = 0]
    BY <1>3 DEF RunEnds
  <2>2. /\ loop'.at = loop.of /\ loop.of \in {"timers", "crons"} /\ loop'.left = loop.left /\ loop'.ripe = loop.ripe
        /\ loop'.drift = loop.drift
    BY <1>1, <2>1 DEF Rounds, TimersType, Loops
  <2>3. Stage' = Stage
    BY <1>1, <2>2 DEF Stage
  <2>4. Awaited' = Awaited
    BY <2>2, <2>3 DEF Awaited
  <2>5. Returning' = Returning
    BY <1>1, <2>2, <2>3, <2>4, SameRest DEF Returning, ComesTo
  <2>6. FiresLeft(c)' <= FiresLeft(c)
    BY <1>1, <2>4, <2>5, FewerFires, CountsAre, CountsThen
  <2>7. Rests(c)' \in {0, 1}
    BY <2>2 DEF Rests
  <2> QED
    BY <1>1, <1>2, <2>6, <2>7, NoTimePasses
<1>4. CASE how = "raised"
  <2>1. loop' = Asleep(1)
    BY <1>4 DEF RunEnds, AfterRaise
  <2>2. loop'.at = "asleep" /\ loop'.nap = 1
    BY <2>1 DEF Asleep
  <2>3. Stage' = "asleep" /\ Awaited' = {} /\ \A t : ~ComesTo(t)'
    BY <2>2 DEF Stage, Awaited, ComesTo
  <2>4. Returning' \subseteq Returning \cup Awaited
    BY <1>1, <2>3, SameRest DEF Returning, ComesTo
  <2>5. Cardinality(Returning') <= Cardinality(Returning) + Cardinality(Awaited)
    BY <2>4, CountsAre, Together
  <2>6. Cardinality(Awaited') = 0
    BY <2>3, FS_EmptySet
  <2>7. FiresLeft(c)' <= FiresLeft(c)
    BY <1>1, <2>5, <2>6, FewerFires, CountsAre, CountsThen
  <2>8. Rests(c)' = 1
    BY <2>2 DEF Rests
  <2> QED
    BY <1>1, <1>2, <2>7, <2>8, NoTimePasses
<1>5. CASE how = "cut"
  <2>1. loop'.at = "cancelled"
    BY <1>5 DEF RunEnds, Asleep
  <2> QED
    BY <1>1, <2>1, NoTimePasses
<1> QED
  BY <1>3, <1>4, <1>5

\* Triggers may be no more than twice what they are: a timer the minute's last tick found, and again in the minute.
LEMMA MinuteIsLongEnough ==
  ASSUME TimersType', NEW c, c \in Cron, handled' = {}, Matches(c, Minute)', Minute' \in DOMAIN Local, TimeToSpare,
         Used' = 0, Rests(c)' <= RunLasts + 1
  PROVE InTime(c)'
<1> DEFINE named == {d \in Cron : Matches(d, Minute')}
           T == Cardinality(Timer)
           K == Cardinality(named)
           k == RunLasts + 1
           g == FiresLeft(c)'
           w == Rests(c)'
<1>1. \A x : Matches(x, Minute)' <=> Matches(x, Minute')
  BY DEF Matches, Schedule
<1>2. StillOpen(c)' \subseteq named \ {c} /\ c \in named
  BY <1>1 DEF StillOpen
<1>3. IsFiniteSet(Timer) /\ IsFiniteSet(named)
  <2>1. Timer \in SUBSET Trigger /\ named \in SUBSET Trigger
    BY DEF Trigger
  <2> QED
    BY <2>1, TimersAssumption, FS_Subset
<1>4. Cardinality(StillOpen(c)') + 1 <= K
  BY <1>2, <1>3, OneLess
<1>5. Cardinality(Awaited') <= T /\ Cardinality(Returning') <= T
  BY <1>3, CountsThen, Smaller
<1>6. T \in Nat /\ K \in Nat
  BY <1>3, FS_CardinalityType
<1>7. k * (2 * T + K) < MinuteTicks
  <2>1. Minute' \in DOMAIN Local
    OBVIOUS
  <2> QED
    BY <2>1 DEF TimeToSpare
<1>8. g \in Nat /\ w \in Int /\ g + 1 <= 2 * T + K /\ w <= k /\ k \in Nat
  <2>1. g = Cardinality(Awaited') + Cardinality(Returning') + Cardinality(StillOpen(c)')
    BY DEF FiresLeft
  <2> HIDE DEF T, K
  <2> QED
    BY <1>4, <1>5, <1>6, <2>1, CountsThen, Clocks
<1>9. InTime(c)' <=> 0 + (k * g + w) < MinuteTicks
  BY DEF InTime, Load
<1> DEFINE f == 2 * T + K
<1>10. f \in Nat /\ g + 1 <= f /\ k * f < MinuteTicks
  <2>1. 2 * T + K \in Nat
    <3> HIDE DEF T, K
    <3> QED
      BY <1>6
  <2> QED
    BY <1>7, <1>8, <2>1
<1> HIDE DEF f, k, g, w
<1>11. k * g \in Nat /\ k * f \in Nat /\ k * g + k <= k * f
  BY <1>8, <1>10, Products
<1> DEFINE x == k * f
           y == k * g
<1>12. x \in Nat /\ y \in Nat /\ y + k <= x /\ x < MinuteTicks
  BY <1>10, <1>11
<1> HIDE DEF x, y
<1>13. 0 + (y + w) < MinuteTicks
  BY <1>8, <1>12, Clocks
<1> QED
  BY <1>9, <1>13 DEF y

\* A tick of the minute passes: what comes to be due in the rest of it is no more than it was.
LEMMA PassKeeps ==
  ASSUME TimersType, TimersType', Rounds, Rounds', TimeToSpare, NEW c \in Cron, CronKept(c), Pass
  PROVE CronKept(c)'
<1>1. CASE loop.at = "cancelled"
  <2>1. loop' = loop
    BY <1>1 DEF Pass
  <2>2. (c \in handled => said[c] = "fired")'
    BY DEF Pass, CronKept
  <2> QED
    BY <1>1, <2>1, <2>2 DEF CronKept
<1>2. CASE loop.at # "cancelled"
  <2>1. /\ loop.at \in {"asleep", "running"} /\ loop'.at = loop.at /\ loop'.left = loop.left /\ loop'.ripe = loop.ripe
        /\ loop'.of = loop.of
        /\ IF loop.at = "asleep" THEN loop.nap > 0 /\ loop'.nap = loop.nap - 1 /\ loop'.drift = loop.drift
           ELSE loop.nap < RunLasts /\ loop'.nap = loop.nap + 1 /\ loop'.drift = loop.drift + 1
    BY <1>2 DEF Pass, TimersType, Loops
  <2>2. due' = [t \in Timer |-> IF due[t] > 0 THEN due[t] - 1 ELSE due[t]]
    BY DEF Pass
  <2>3. Rests(c)' = Rests(c) - 1 /\ Rests(c) >= 1 /\ Rests(c)' <= RunLasts + 1
    <3>1. loop.nap \in Nat /\ loop'.nap \in Nat
      BY DEF TimersType, Loops
    <3>2. CASE loop.at = "asleep"
      <4>1. Rests(c) = loop.nap /\ Rests(c)' = loop'.nap /\ loop.nap <= 1
        BY <2>1, <3>2 DEF Rests, Rounds
      <4> QED
        BY <2>1, <3>1, <3>2, <4>1, Clocks
    <3>3. CASE loop.at = "running"
      <4>1. Rests(c) = RunLasts - loop.nap + 1 /\ Rests(c)' = RunLasts - loop'.nap + 1
        BY <2>1, <3>3 DEF Rests
      <4> QED
        BY <2>1, <3>1, <3>3, <4>1, Clocks
    <3> QED
      BY <2>1, <3>2, <3>3
  <2>4. /\ Minute' \in DOMAIN Local /\ Used \in 0 .. MinuteTicks - 1
        /\ Used # MinuteTicks - 1 => Minute' = Minute /\ Used' = Used + 1
        /\ Used = MinuteTicks - 1 => Used' = 0
    BY ClockTurns DEF Pass, TimersType
  <2>5. Minute' = Minute => UNCHANGED <<handled, said>>
    BY DEF Pass, Minute
  <2>6. Minute' # Minute => handled' = {}
    BY DEF Pass, Minute
  <2>7. (c \in handled => said[c] = "fired")'
    BY <2>5, <2>6 DEF CronKept
  <2>8. CASE Minute' # Minute
    <3>1. Matches(c, Minute)' => InTime(c)'
      BY <2>3, <2>4, <2>6, <2>8, MinuteIsLongEnough
    <3> QED
      BY <2>7, <3>1 DEF CronKept
  <2>9. CASE Minute' = Minute /\ Used = MinuteTicks - 1
    <3>1. ~InTime(c)
      <4>1. (RunLasts + 1) * FiresLeft(c) \in Nat
        <5>1. RunLasts + 1 \in Nat /\ FiresLeft(c) \in Nat
          BY Clocks, CountsAre
        <5> QED
          BY <5>1, Products
      <4> DEFINE x == (RunLasts + 1) * FiresLeft(c)
      <4>2. x \in Nat
        BY <4>1
      <4>3. InTime(c) <=> Used + (x + Rests(c)) < MinuteTicks
        BY DEF InTime, Load
      <4> HIDE DEF x
      <4> QED
        BY <2>3, <2>9, <4>2, <4>3, Clocks, CountsAre
    <3>2. Matches(c, Minute) => c \in handled
      BY <1>2, <2>1, <3>1 DEF CronKept
    <3>3. Matches(c, Minute)' => Matches(c, Minute)
      BY <2>9 DEF Matches
    <3>4. handled' = handled
      BY <2>5, <2>9
    <3> QED
      BY <2>7, <3>2, <3>3, <3>4 DEF CronKept
  <2>10. CASE Minute' = Minute /\ Used # MinuteTicks - 1
    <3>1. Used' = Used + 1 /\ UNCHANGED <<handled, said>>
      BY <2>4, <2>5, <2>10
    <3>2. Rest' = Rest - 1 /\ Rest \in Nat /\ Rest' \in Nat
      <4>1. Rest \in Nat \ {0} /\ Used \in Nat
        BY CountsAre
      <4>2. Rest = MinuteTicks - Used /\ Rest' = MinuteTicks - Used'
        BY DEF Rest
      <4> QED
        BY <3>1, <4>1, <4>2, Clocks
    <3>3. Stage' = Stage
      BY <2>1 DEF Stage
    <3>4. Awaited' = Awaited
      BY <2>1, <3>3 DEF Awaited
    <3>5. \A t \in Timer : /\ due[t] \in Nat \cup {New} /\ Every[t] \in Nat
                           /\ due'[t] = IF due[t] > 0 THEN due[t] - 1 ELSE due[t]
      BY <2>2, TimersAssumption DEF TimersType
    <3>6. \A t \in Timer : ComesTo(t)' <=> ComesTo(t)
      BY <2>1, <3>3, <3>4, <3>5 DEF ComesTo, New
    <3>7. loop.drift \in Nat /\ loop'.drift \in Nat /\ loop'.drift <= loop.drift + 1
      BY <2>1 DEF TimersType, Loops
    <3>8. Returning' \subseteq Returning
      <4>1. ASSUME NEW t \in Timer, t \in Returning'
            PROVE t \in Returning
        <5>1. CASE ComesTo(t)
          <6>1. Every[t] < loop'.drift + Rest'
            BY <3>6, <4>1, <5>1 DEF Returning
          <6>2. Every[t] < loop.drift + Rest
            BY <3>2, <3>5, <3>7, <6>1
          <6> QED
            BY <5>1, <6>2 DEF Returning
        <5>2. CASE ~ComesTo(t)
          <6>1. due'[t] # New /\ due'[t] < Rest'
            BY <3>6, <4>1, <5>2 DEF Returning
          <6>2. due[t] # New /\ due[t] < Rest
            BY <3>2, <3>5, <6>1, CountsThen DEF New
          <6> QED
            BY <5>2, <6>2 DEF Returning
        <5> QED
          BY <5>1, <5>2
      <4> QED
        BY <4>1, CountsThen
    <3>9. StillOpen(c)' = StillOpen(c)
      BY <2>10, <3>1 DEF StillOpen, Matches
    <3>10. FiresLeft(c)' <= FiresLeft(c)
      <4>1. Cardinality(Returning') <= Cardinality(Returning)
        BY <3>8, CountsAre, Smaller
      <4>2. FiresLeft(c)' = Cardinality(Awaited) + Cardinality(Returning') + Cardinality(StillOpen(c))
        BY <3>4, <3>9 DEF FiresLeft
      <4> QED
        BY <4>1, <4>2, CountsAre, CountsThen DEF FiresLeft
    <3>11. InTime(c) => InTime(c)'
      BY <2>3, <3>1, <3>10, TimeInTime
    <3> QED
      BY <1>2, <2>1, <2>7, <2>10, <3>1, <3>11 DEF CronKept, Matches
  <2> QED
    BY <2>8, <2>9, <2>10
<1> QED
  BY <1>1, <1>2

LEMMA ElseKeeps ==
  ASSUME NEW c, CronKept(c), Line \/ \E x \in Trigger : SetEnabled(x)
  PROVE CronKept(c)'
<1>1. UNCHANGED <<due, clock, handled, loop, said>>
  BY DEF Line, SetEnabled
<1>2. Awaited' = Awaited /\ Rest' = Rest /\ Used' = Used /\ StillOpen(c)' = StillOpen(c) /\ Stage' = Stage
  BY <1>1 DEF Awaited, Rest, Used, StillOpen, Matches, Minute, Stage
<1>3. Returning' = Returning
  BY <1>1, <1>2 DEF Returning, ComesTo
<1>4. FiresLeft(c)' = FiresLeft(c) /\ Rests(c)' = Rests(c)
  BY <1>1, <1>2, <1>3 DEF FiresLeft, Rests
<1>5. InTime(c)' <=> InTime(c)
  BY <1>2, <1>4 DEF InTime, Load
<1>6. Matches(c, Minute)' <=> Matches(c, Minute)
  BY <1>1 DEF Matches, Minute
<1> QED
  BY <1>1, <1>5, <1>6 DEF CronKept

\* In the first minute nothing has been counted yet.
LEMMA FirstMinute ==
  ASSUME TimersType, TimersInit, TimeToSpare, NEW c \in Cron
  PROVE CronKept(c)
<1>1. handled = {} /\ loop.at = "asleep" /\ loop.nap = 0 /\ clock = 0 /\ due = [t \in Timer |-> New]
  BY DEF TimersInit, Asleep
<1>2. Used = 0 /\ Minute \in DOMAIN Local
  <2>1. 0 = MinuteTicks * 0 + 0
    BY Clocks
  <2>2. 0 \div MinuteTicks = 0 /\ 0 % MinuteTicks = 0
    BY <2>1, Clocks, DividedBy
  <2> QED
    BY <1>1, <2>2, Clocks DEF Used, Minute
<1>3. ASSUME Matches(c, Minute)
      PROVE InTime(c)
  <2> DEFINE named == {d \in Cron : Matches(d, Minute)}
             T == Cardinality(Timer)
             K == Cardinality(named)
             k == RunLasts + 1
             g == FiresLeft(c)
  <2>1. StillOpen(c) \subseteq named /\ Awaited = {}
    BY <1>1 DEF StillOpen, Awaited, Stage
  <2>2. Returning = {}
    BY <1>1, <2>1 DEF Returning, ComesTo, Stage
  <2>3. IsFiniteSet(Timer) /\ IsFiniteSet(named)
    <3>1. Timer \in SUBSET Trigger /\ named \in SUBSET Trigger
      BY DEF Trigger
    <3> QED
      BY <3>1, TimersAssumption, FS_Subset
  <2>4. T \in Nat /\ K \in Nat
    BY <2>3, FS_CardinalityType
  <2>5. Cardinality(StillOpen(c)) <= K
    BY <2>1, <2>3, Smaller
  <2>6. Cardinality(Awaited) = 0 /\ Cardinality(Returning) = 0
    BY <2>1, <2>2, FS_EmptySet
  <2>7. k * (2 * T + K) < MinuteTicks
    BY <1>2 DEF TimeToSpare
  <2>8. g \in Nat /\ g <= 2 * T + K
    <3> HIDE DEF T, K
    <3> QED
      BY <2>4, <2>5, <2>6, CountsAre DEF FiresLeft
  <2>9. Rests(c) = 0
    BY <1>1 DEF Rests
  <2>10. InTime(c) <=> 0 + (k * g + 0) < MinuteTicks
    BY <1>2, <2>9 DEF InTime, Load
  <2> DEFINE f == 2 * T + K
  <2>11. f \in Nat /\ g <= f /\ k * f < MinuteTicks /\ k \in Nat
    <3>1. 2 * T + K \in Nat
      <4> HIDE DEF T, K
      <4> QED
        BY <2>4
    <3> QED
      BY <2>7, <2>8, <3>1, Clocks
  <2> HIDE DEF f, k, g
  <2>12. k * g \in Nat /\ k * f \in Nat /\ k * g <= k * f
    BY <2>8, <2>11, Products
  <2> DEFINE x == k * f
             y == k * g
  <2>13. x \in Nat /\ y \in Nat /\ y <= x /\ x < MinuteTicks
    BY <2>11, <2>12
  <2> HIDE DEF x, y
  <2>14. 0 + (y + 0) < MinuteTicks
    BY <2>13, Clocks
  <2> QED
    BY <2>10, <2>14 DEF y
<1> QED
  BY <1>1, <1>3 DEF CronKept

LEMMA TimersStep ==
  ASSUME TimersInv, TimeToSpare, TimersNext
  PROVE TimersInv'
<1> USE DEF TimersInv
<1>1. CASE Tick
  <2>1. TimersType' /\ Rounds'
    BY <1>1, TickType
  <2> QED
    BY <1>1, <2>1, TickKeeps
<1>2. CASE Crons \/ Sleep
  <2>1. TimersType' /\ Rounds'
    BY <1>2, RoundType
  <2> QED
    BY <1>2, <2>1, RoundKeeps
<1>3. ASSUME NEW t \in Timer, LookAtTimer(t)
      PROVE TimersInv'
  <2>1. TimersType' /\ Rounds'
    BY <1>3, TimerType
  <2> QED
    BY <1>3, <2>1, TimerKeeps
<1>4. ASSUME NEW d \in Cron, LookAtCron(d)
      PROVE TimersInv'
  <2>1. TimersType' /\ Rounds'
    BY <1>4, CronType
  <2> QED
    BY <1>4, <2>1, CronKeeps
<1>5. ASSUME NEW how \in {"done", "raised", "cut"}, RunEnds(how)
      PROVE TimersInv'
  <2>1. TimersType' /\ Rounds'
    BY <1>5, EndType
  <2> QED
    BY <1>5, <2>1, EndKeeps
<1>6. CASE Pass
  <2>1. TimersType' /\ Rounds'
    BY <1>6, PassType
  <2> QED
    BY <1>6, <2>1, PassKeeps
<1>7. CASE Line \/ \E x \in Trigger : SetEnabled(x)
  <2>1. TimersType' /\ Rounds'
    BY <1>7, ElseType
  <2> QED
    BY <1>7, <2>1, ElseKeeps
<1> QED
  BY <1>1, <1>2, <1>3, <1>4, <1>5, <1>6, <1>7 DEF TimersNext, Scheduler

\* What is handed over to the next minute: its crons have all fired.
LEMMA MinuteEnds ==
  ASSUME TimersInv, TimersNext, clock' \div MinuteTicks # Minute,
         NEW c \in Cron \cap Steady, Needed[c] = 0, Matches(c, Minute)
  PROVE said[c] = "fired" \/ loop.at = "cancelled"
<1>1. CronKept(c) /\ TimersType /\ Rounds
  BY DEF TimersInv
<1>2. Pass
  <2>1. Minute = clock \div MinuteTicks
    BY DEF Minute
  <2>2. clock' # clock
    BY <2>1
  <2> QED
    BY <2>2 DEF TimersNext, Scheduler, Tick, Crons, Sleep, LookAtTimer, LookAtCron, RunEnds, Line, SetEnabled
<1>3. Used = MinuteTicks - 1
  BY <1>1, <1>2, ClockTurns DEF Pass, TimersType, Minute
<1>4. ASSUME loop.at # "cancelled"
      PROVE ~InTime(c)
  <2>1. Rests(c) >= 1
    <3>1. CASE loop.at = "asleep"
      <4>1. loop.nap > 0 /\ Rests(c) = loop.nap /\ loop.nap \in Nat
        BY <1>1, <1>2, <3>1 DEF Pass, Rests, TimersType, Loops
      <4> QED
        BY <4>1
    <3>2. CASE loop.at = "running"
      <4>1. loop.nap < RunLasts /\ Rests(c) = RunLasts - loop.nap + 1 /\ loop.nap \in Nat
        BY <1>1, <1>2, <3>2 DEF Pass, Rests, TimersType, Loops
      <4> QED
        BY <4>1, Clocks
    <3> QED
      BY <1>2, <1>4, <3>1, <3>2 DEF Pass
  <2>2. FiresLeft(c) \in Nat /\ Rests(c) \in Int
    BY <1>1, CountsAre
  <2>3. (RunLasts + 1) * FiresLeft(c) \in Nat
    <3>1. RunLasts + 1 \in Nat
      BY Clocks
    <3> QED
      BY <2>2, <3>1, Products
  <2> DEFINE x == (RunLasts + 1) * FiresLeft(c)
  <2>4. x \in Nat /\ (InTime(c) <=> Used + (x + Rests(c)) < MinuteTicks)
    BY <2>3 DEF InTime, Load
  <2> HIDE DEF x
  <2> QED
    BY <1>3, <2>1, <2>2, <2>4, Clocks
<1>5. loop.at # "off"
  BY <1>2 DEF Pass
<1> QED
  BY <1>1, <1>4, <1>5 DEF CronKept

LEMMA Unclocked ==
  ASSUME loop.at = "off", on = {}, due = [t \in Timer |-> New], talk = [x \in Trigger |-> 0], clock = 0, handled = {},
         said = [c \in Cron |-> "no"], loop = [Asleep(0) EXCEPT !.at = "off"]
  PROVE TimersInv
<1>1. loop = [at |-> "off", left |-> {}, ripe |-> {}, drift |-> 0, nap |-> 0, who |-> {}, of |-> "asleep"]
  BY DEF Asleep
<1>2. 0 < Minutes * MinuteTicks
  BY Clocks, Z3
<1>3. loop \in Loops
  BY <1>1 DEF Loops
<1>4. TimersType
  BY <1>2, <1>3 DEF TimersType, New
<1>5. Rounds
  BY <1>1 DEF Rounds, Stage
<1>6. \A c \in Cron : CronKept(c)
  BY DEF CronKept
<1> QED
  BY <1>4, <1>5, <1>6 DEF TimersInv

LEMMA TimersStart ==
  ASSUME TimeToSpare
  PROVE TriggersInit => TimersInv
<1>1. ASSUME TimersInit
      PROVE TimersInv
  <2>1. TimersType /\ Rounds
    BY <1>1, TimersBegin
  <2> QED
    BY <1>1, <2>1, FirstMinute DEF TimersInv
<1>2. ASSUME on = {}, due = [t \in Timer |-> New], talk = [x \in Trigger |-> 0], clock = 0, handled = {},
             said = [c \in Cron |-> "no"], loop = [Asleep(0) EXCEPT !.at = "off"]
      PROVE TimersInv
  <2>1. loop.at = "off"
    BY <1>2 DEF Asleep
  <2> QED
    BY <1>2, <2>1, Unclocked
<1> QED
  BY <1>1, <1>2 DEF TriggersInit

LEMMA TimersUnchanged ==
  ASSUME TimersInv, UNCHANGED timersVars
  PROVE TimersInv'
<1>1. UNCHANGED <<on, due, talk, clock, handled, loop, said>>
  BY DEF timersVars
<1>2. TimersType' /\ Rounds'
  BY <1>1 DEF TimersInv, TimersType, Rounds, Stage
<1>3. ASSUME NEW c, CronKept(c)
      PROVE CronKept(c)'
  <2>1. Awaited' = Awaited /\ Rest' = Rest /\ Used' = Used /\ StillOpen(c)' = StillOpen(c) /\ Stage' = Stage
    BY <1>1 DEF Awaited, Rest, Used, StillOpen, Matches, Minute, Stage
  <2>2. Returning' = Returning
    BY <1>1, <2>1 DEF Returning, ComesTo
  <2>3. FiresLeft(c)' = FiresLeft(c) /\ Rests(c)' = Rests(c)
    BY <1>1, <2>1, <2>2 DEF FiresLeft, Rests
  <2>4. (InTime(c)' <=> InTime(c)) /\ (Matches(c, Minute)' <=> Matches(c, Minute))
    BY <1>1, <2>1, <2>3 DEF InTime, Load, Matches, Minute
  <2> QED
    BY <1>1, <1>3, <2>4 DEF CronKept
<1> QED
  BY <1>2, <1>3 DEF TimersInv

\* A cron that may speak does so in every minute it names, unless a cancelled run has ended the task, when the
\* minute has time to spare (TimersNext, _loop and tick of triggers/timers.py).
THEOREM CronsFire ==
  ASSUME TimeToSpare
  PROVE TriggersSpec => FiresInItsMinute
<1> DEFINE each == \A c \in Cron \cap Steady : Needed[c] = 0 /\ Matches(c, Minute) => said[c] = "fired" \/ loop.at = "cancelled"
<1>1. TriggersInit => TimersInv
  BY TimersStart
<1>2. TimersInv /\ [TriggersNext]_<<timersVars, eventsVars>> => TimersInv'
  BY TimersStep, TimersUnchanged DEF TriggersNext
<1>3. TimersInv /\ [TriggersNext]_<<timersVars, eventsVars>> => [clock' \div MinuteTicks # Minute => each]_timersVars
  <2>1. TimersInv /\ TimersNext => (clock' \div MinuteTicks # Minute => each)
    BY MinuteEnds
  <2>2. UNCHANGED <<timersVars, eventsVars>> => UNCHANGED timersVars
    OBVIOUS
  <2> QED
    BY <2>1, <2>2 DEF TriggersNext
<1>4. TriggersSpec => [][clock' \div MinuteTicks # Minute => each]_timersVars
  BY <1>1, <1>2, <1>3, PTL DEF TriggersSpec
<1> QED
  BY <1>4 DEF FiresInItsMinute

=============================================================================
