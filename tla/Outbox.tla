------------------------------- MODULE Outbox -------------------------------
(***************************************************************************)
(* The outbox (core/outbox.py): the only way out of the bot into Twitch    *)
(* chat.  Every Outbox.send call is a coroutine; the members of Send are   *)
(* the calls, and the model interleaves them at their awaits: the reply    *)
(* hold, the per-channel lock, the sleep for a token, the Helix call and   *)
(* the leave that follows a 403.                                           *)
(*                                                                         *)
(* Time is counted in ticks and kept relative (ages, remaining sleeps,     *)
(* bucket levels), so no clock grows without bound.  A bucket level is     *)
(* kept in units of 1/Per of a token: a tick refills `cap` units, and one  *)
(* token is Per units, which is TokenBucket's linear refill exactly.       *)
(***************************************************************************)
EXTENDS Integers, Sequences

CONSTANTS
  Channel,     \* channel ids
  Send,        \* calls of Outbox.send
  ChannelOf,   \* the channel each call is for
  Parts,       \* chunk(filtered): the one or two texts each call sends
  Replies,     \* the calls that answer a chat message; timers and notices do not
  Holds,       \* what hold_ms_for may answer, in ticks
  Answers,     \* what a Helix call may come to
  Capacities,  \* the capacities rate_for may answer (20 or 90 per Per seconds)
  Per,         \* ticks in which a whole bucket refills
  Ttl,         \* ttl_s, in ticks
  NoText       \* _last_text has no entry

ASSUME OutboxAssumption ==
  /\ ChannelOf \in [Send -> Channel]
  /\ \A s \in Send : Parts[s] \in Seq(STRING) /\ Len(Parts[s]) \in {1, 2}
  /\ Replies \subseteq Send
  /\ Holds \subseteq Nat
  /\ Answers \subseteq {"sent", "rejected", "send_error", "banned"} /\ Answers # {}
  /\ Capacities \subseteq Nat \ {0} /\ Capacities # {}
  /\ Per \in Nat \ {0}
  /\ Ttl \in Nat

VARIABLES
  pc,       \* where each call is
  timer,    \* ticks left of the sleep a call is in
  age,      \* ticks since the call was made, capped just above Ttl
  part,     \* the chunk a call is at
  results,  \* the SendResults of a call and the outbound_msgs rows they left
  lockq,    \* per channel: the lock's holder, then its waiters in order
  rate,     \* per channel: the capacity rate_for answers now
  bucket,   \* per channel: the token bucket
  last,     \* per channel: _last_text
  invalid,  \* is_invalidated() of each call, as moderation would answer it
  handed    \* per channel: the chunks given to send_chat, oldest first

vars == <<pc, timer, age, part, results, lockq, rate, bucket, last, invalid, handed>>

\* At a chunk: the coroutine is inside `async with lock`.
Inside == {"ready", "waiting", "sending", "leaving"}
Location == {"idle", "holding", "queued", "done"} \cup Inside
\* SendResult.dropped_reason, with "sent" for None.
Outcome == {"sent", "rejected", "send_error", "banned", "ttl", "moderated", "filter_block"}
\* Outcomes after which `send` returns without looking at the other chunks.
Final == {"banned", "ttl", "moderated", "filter_block"}
\* An outbound_msgs row: its outcome and whether it carries the run's run_ref.
Row == [outcome : Outcome, linked : BOOLEAN]
\* A chunk's text, with or without DUPLICATE_SUFFIX.
Wording == [text : STRING, suffixed : BOOLEAN]
Handed == [send : Send, part : 1..2, wording : Wording, ago : 0..Per]

Init ==
  /\ pc = [s \in Send |-> "idle"]
  /\ timer = [s \in Send |-> 0]
  /\ age = [s \in Send |-> 0]
  /\ part = [s \in Send |-> 1]
  /\ results = [s \in Send |-> <<>>]
  /\ lockq = [c \in Channel |-> <<>>]
  /\ rate \in [Channel -> Capacities]
  /\ bucket = [c \in Channel |-> [cap |-> rate[c], level |-> rate[c] * Per]]
  /\ last = [c \in Channel |-> NoText]
  /\ invalid = [s \in Send |-> FALSE]
  /\ handed = [c \in Channel |-> <<>>]

-----------------------------------------------------------------------------
(* The token bucket and the lock. *)

\* Mutant: every chunk gets a new bucket.
BucketAlwaysNew(c) == [cap |-> rate[c], level |-> rate[c] * Per]

\* _bucket: the channel's bucket, a new and full one when the rate changed.
BucketOf(c) == IF bucket[c].cap = rate[c] THEN bucket[c]
               ELSE [cap |-> rate[c], level |-> rate[c] * Per]

\* wait_time: ticks until the bucket holds one token.
WaitTime(b) == IF b.level >= Per THEN 0 ELSE (Per - b.level + b.cap - 1) \div b.cap

\* take: one token less.
Take(b) == [b EXCEPT !.level = @ - Per]

\* TokenBucket._refill over one tick.
Refill(b) == [b EXCEPT !.level = IF @ + b.cap > b.cap * Per THEN b.cap * Per ELSE @ + b.cap]

\* Mutant: the lock is released and no waiter is woken.
ReleaseWakesNobody(s) ==
  /\ lockq' = [lockq EXCEPT ![ChannelOf[s]] = Tail(@)]
  /\ pc' = [pc EXCEPT ![s] = "done"]

\* The lock is released: the next waiter, if any, is inside.
Release(s) ==
  LET c == ChannelOf[s]
  IN /\ lockq' = [lockq EXCEPT ![c] = Tail(@)]
     /\ pc' = [t \in Send |-> IF t = s THEN "done"
                              ELSE IF Len(lockq[c]) > 1 /\ t = lockq[c][2] THEN "ready"
                              ELSE pc[t]]

\* Mutant: a dropped message leaves no row.
DropSilently(s, o) == UNCHANGED results

\* A result and its row.  The rows send() writes itself carry run_ref; the ones
\* _drop writes do not: it takes run_ref and leaves it out of the call.
Report(s, o) == results' = [results EXCEPT ![s] = Append(@, [outcome |-> o, linked |-> TRUE])]
Drop(s, o)   == results' = [results EXCEPT ![s] = Append(@, [outcome |-> o, linked |-> FALSE])]

\* What is sent for chunk p: marked when Twitch would refuse it as a repeat.
WordingOf(s, p) ==
  LET plain == [text |-> Parts[s][p], suffixed |-> FALSE]
  IN IF last[ChannelOf[s]] = plain THEN [plain EXCEPT !.suffixed = TRUE] ELSE plain

-----------------------------------------------------------------------------
(* Outbox.send, from await to await. *)

\* After the hold: the content filter blocks the text, or the call asks for the lock.
Filtered(s) ==
  LET c == ChannelOf[s]
  IN \/ /\ Drop(s, "filter_block")
        /\ pc' = [pc EXCEPT ![s] = "done"]
        /\ UNCHANGED lockq
     \/ /\ lockq' = [lockq EXCEPT ![c] = Append(@, s)]
        /\ pc' = [pc EXCEPT ![s] = IF lockq[c] = <<>> THEN "ready" ELSE "queued"]
        /\ UNCHANGED results

Begin(s) ==
  /\ pc[s] = "idle"
  /\ \E h \in Holds :
       IF h > 0
       THEN /\ pc' = [pc EXCEPT ![s] = "holding"]
            /\ timer' = [timer EXCEPT ![s] = h]
            /\ UNCHANGED <<results, lockq>>
       ELSE Filtered(s) /\ UNCHANGED timer
  /\ UNCHANGED <<age, part, rate, bucket, last, invalid, handed>>

HoldOver(s) ==
  /\ pc[s] = "holding" /\ timer[s] = 0
  /\ Filtered(s)
  /\ UNCHANGED <<timer, age, part, rate, bucket, last, invalid, handed>>

\* The bucket a chunk is measured against.  It is looked up once per chunk: a
\* call that slept for a token keeps the bucket it slept on.
AtBucket(s) ==
  \/ pc[s] = "ready"
  \/ pc[s] = "waiting" /\ timer[s] = 0

BucketAt(s) == IF pc[s] = "ready" THEN BucketOf(ChannelOf[s]) ELSE bucket[ChannelOf[s]]

KeepBucket(s) == bucket' = [bucket EXCEPT ![ChannelOf[s]] = BucketAt(s)]

\* Too long to wait for a token: drop the rest of the message.
Expire(s) ==
  /\ AtBucket(s)
  /\ WaitTime(BucketAt(s)) > 0
  /\ age[s] + WaitTime(BucketAt(s)) > Ttl
  /\ Drop(s, "ttl")
  /\ Release(s)
  /\ KeepBucket(s)
  /\ UNCHANGED <<timer, age, part, rate, last, invalid, handed>>

\* Mutant: the TTL is compared with the age now, not with the age after the sleep.
SleepUntilTtl(s) ==
  /\ AtBucket(s)
  /\ WaitTime(BucketAt(s)) > 0
  /\ age[s] <= Ttl
  /\ pc' = [pc EXCEPT ![s] = "waiting"]
  /\ timer' = [timer EXCEPT ![s] = WaitTime(BucketAt(s))]
  /\ KeepBucket(s)
  /\ UNCHANGED <<age, part, results, lockq, rate, last, invalid, handed>>

\* The sleep for a token, when it ends within the TTL.
Sleep(s) ==
  /\ AtBucket(s)
  /\ WaitTime(BucketAt(s)) > 0
  /\ age[s] + WaitTime(BucketAt(s)) <= Ttl
  /\ pc' = [pc EXCEPT ![s] = "waiting"]
  /\ timer' = [timer EXCEPT ![s] = WaitTime(BucketAt(s))]
  /\ KeepBucket(s)
  /\ UNCHANGED <<age, part, results, lockq, rate, last, invalid, handed>>

\* The moderation recheck, right before the Helix call.
Moderated(s) ==
  /\ AtBucket(s)
  /\ WaitTime(BucketAt(s)) = 0
  /\ invalid[s]
  /\ Drop(s, "moderated")
  /\ Release(s)
  /\ KeepBucket(s)
  /\ UNCHANGED <<timer, age, part, rate, last, invalid, handed>>

\* take() and send_chat, with no await between them.
HandOver(s) ==
  LET c == ChannelOf[s]
  IN /\ AtBucket(s)
     /\ WaitTime(BucketAt(s)) = 0
     /\ ~invalid[s]
     /\ bucket' = [bucket EXCEPT ![c] = Take(BucketAt(s))]
     /\ handed' = [handed EXCEPT ![c] =
                     Append(@, [send |-> s, part |-> part[s],
                                wording |-> WordingOf(s, part[s]), ago |-> 0])]
     /\ pc' = [pc EXCEPT ![s] = "sending"]
     /\ UNCHANGED <<timer, age, part, results, lockq, rate, last, invalid>>

\* Mutant: the lock covers a chunk, not the message.
AnswerPerChunk(s) ==
  LET c == ChannelOf[s]
      q == Append(Tail(lockq[c]), s)
  IN /\ pc[s] = "sending"
     /\ \E o \in Answers : Report(s, o)
     /\ IF part[s] < Len(Parts[s])
        THEN /\ part' = [part EXCEPT ![s] = @ + 1]
             /\ lockq' = [lockq EXCEPT ![c] = q]
             /\ pc' = [t \in Send |-> IF t = Head(q) THEN "ready" ELSE IF t = s THEN "queued" ELSE pc[t]]
        ELSE Release(s) /\ UNCHANGED part
     /\ UNCHANGED <<timer, age, rate, bucket, last, invalid, handed>>

\* Twitch answers, refuses or the call fails; then the next chunk, or the end.
Answer(s) ==
  LET c == ChannelOf[s]
  IN /\ pc[s] = "sending"
     /\ \E o \in Answers :
          /\ Report(s, o)
          /\ last' = IF o = "sent" THEN [last EXCEPT ![c] = WordingOf(s, part[s])] ELSE last
          /\ IF o = "banned"
             THEN pc' = [pc EXCEPT ![s] = "leaving"] /\ UNCHANGED <<part, lockq>>
             ELSE IF part[s] < Len(Parts[s])
             THEN /\ part' = [part EXCEPT ![s] = @ + 1]
                  /\ pc' = [pc EXCEPT ![s] = "ready"]
                  /\ UNCHANGED lockq
             ELSE Release(s) /\ UNCHANGED part
     /\ UNCHANGED <<timer, age, rate, bucket, invalid, handed>>

\* _banned: on_banned returned or raised, either way the call is over.
Left(s) ==
  /\ pc[s] = "leaving"
  /\ Release(s)
  /\ UNCHANGED <<timer, age, part, results, rate, bucket, last, invalid, handed>>

-----------------------------------------------------------------------------
(* What the outbox's callers and the clock do to it. *)

\* A moderator deletes the message the call answers, or clears its author or the
\* chat.  A call that answers no message has the default is_invalidated, never true.
Invalidate(s) ==
  /\ s \in Replies /\ pc[s] # "done" /\ ~invalid[s]
  /\ invalid' = [invalid EXCEPT ![s] = TRUE]
  /\ UNCHANGED <<pc, timer, age, part, results, lockq, rate, bucket, last, handed>>

\* The bot gains or loses moderator status in a channel: rate_for answers differently.
\* What was handed over before is then too old for the history variable to count.
ChangeRate(c) ==
  /\ rate' \in {[rate EXCEPT ![c] = cap] : cap \in Capacities \ {rate[c]}}
  /\ handed' = [d \in Channel |-> [i \in DOMAIN handed[d] |->
                  [handed[d][i] EXCEPT !.ago = IF d = c THEN Per ELSE @]]]
  /\ UNCHANGED <<pc, timer, age, part, results, lockq, bucket, last, invalid>>

Live(s) == pc[s] \notin {"idle", "done"}

Tick ==
  /\ timer' = [s \in Send |-> IF timer[s] > 0 THEN timer[s] - 1 ELSE 0]
  /\ age' = [s \in Send |-> IF Live(s) /\ age[s] <= Ttl THEN age[s] + 1 ELSE age[s]]
  /\ bucket' = [c \in Channel |-> Refill(bucket[c])]
  /\ handed' = [c \in Channel |-> [i \in DOMAIN handed[c] |->
                  [handed[c][i] EXCEPT !.ago = IF @ < Per THEN @ + 1 ELSE @]]]
  /\ UNCHANGED <<pc, part, results, lockq, rate, last, invalid>>

SendStep(s) ==
  \/ HoldOver(s) \/ Expire(s) \/ Sleep(s) \/ Moderated(s) \/ HandOver(s)
  \/ Answer(s) \/ Left(s)

Next ==
  \/ \E s \in Send : Begin(s) \/ SendStep(s) \/ Invalidate(s)
  \/ \E c \in Channel : ChangeRate(c)
  \/ Tick

Spec == Init /\ [][Next]_vars

\* Each coroutine is resumed when it can be, the clock advances, and every
\* Helix call ends (the HTTP client's timeout makes it raise if Twitch is silent).
Fairness == WF_vars(Tick) /\ \A s \in Send : WF_vars(SendStep(s))

FairSpec == Spec /\ Fairness

-----------------------------------------------------------------------------
(* Properties. *)

\* Every variable has its type; a bucket never goes negative nor above its capacity.
TypeOK ==
  /\ pc \in [Send -> Location]
  /\ timer \in [Send -> Nat]
  /\ age \in [Send -> 0..(Ttl + 1)]
  /\ part \in [Send -> {1, 2}]
  /\ \A s \in Send : part[s] <= Len(Parts[s])
  /\ results \in [Send -> Seq(Row)]
  /\ lockq \in [Channel -> Seq(Send)]
  /\ rate \in [Channel -> Capacities]
  /\ bucket \in [Channel -> [cap : Capacities, level : Nat]]
  /\ \A c \in Channel : bucket[c].level <= bucket[c].cap * Per
  /\ last \in [Channel -> Wording \cup {NoText}]
  /\ invalid \in [Send -> BOOLEAN]
  /\ handed \in [Channel -> Seq(Handed)]

\* One call at a time talks to a channel: the first of the lock's queue is inside
\* it, the others wait, no call is in it twice, and every call that is inside or
\* waiting is in it, so that the lock always passes on.
LockDiscipline ==
  \A c \in Channel :
    LET q == lockq[c]
    IN /\ \A i \in DOMAIN q :
            /\ ChannelOf[q[i]] = c
            /\ IF i = 1 THEN pc[q[i]] \in Inside ELSE pc[q[i]] = "queued"
       /\ \A i, j \in DOMAIN q : q[i] = q[j] => i = j
       /\ \A s \in Send : ChannelOf[s] = c /\ pc[s] \in Inside \cup {"queued"} =>
            \E i \in DOMAIN q : q[i] = s

\* The chunks of one message reach a channel together and in order: no chunk of
\* another message lands between them, however many calls wait and sleep.
Contiguous ==
  \A c \in Channel : \A i, j \in DOMAIN handed[c] :
    (i < j /\ handed[c][i].send = handed[c][j].send) =>
      \A k \in i..(j - 1) :
        /\ handed[c][k + 1].send = handed[c][i].send
        /\ handed[c][k].part < handed[c][k + 1].part

\* The token bucket's promise since the rate last changed: in any stretch of `ago`
\* ticks no more chunks are handed to Twitch than a full bucket plus what was
\* refilled in it, plus the one of a call that slept on the bucket before this one.
\* (ago is exact below its cap of Per.)
RateBound ==
  \A c \in Channel : \A i \in DOMAIN handed[c] :
    LET n == Len(handed[c]) - i + 1
        a == handed[c][i].ago
    IN a < Per => (n - 1) * Per <= bucket[c].cap * (Per + a)

\* Every call that ended accounts for all of its message, one outcome per chunk or
\* the reason it stopped at a chunk; and at every moment the chunks given to Twitch
\* are the ones with a row that says so, once each: the transcript and the outbound
\* log agree whatever fails in between.
Accounted ==
  \A s \in Send :
    LET r == results[s]
        h == handed[ChannelOf[s]]
        given == {i \in DOMAIN h : h[i].send = s}
        rows  == {i \in DOMAIN r : r[i].outcome \notin {"ttl", "moderated", "filter_block"}}
    IN /\ pc[s] = "done" =>
            /\ r # <<>>
            /\ Len(r) = Len(Parts[s]) \/ (Len(r) < Len(Parts[s]) /\ r[Len(r)].outcome \in Final)
            /\ \A i \in 1..(Len(r) - 1) : r[i].outcome \notin Final
       /\ {h[i].part : i \in given} = rows \cup (IF pc[s] = "sending" THEN {part[s]} ELSE {})
       /\ \A i, j \in given : h[i].part = h[j].part => i = j

\* The sleep for a token ends within the message's TTL and it suffices, also when
\* the rate changes meanwhile: a call that slept finds its token, it neither sleeps
\* again for the same chunk nor drops it as too old.
OneSleepSuffices ==
  [][\A s \in Send : pc[s] = "waiting" =>
       /\ timer[s] > 0 => age[s] + timer[s] <= Ttl
       /\ timer'[s] <= timer[s]
       /\ results'[s] # results[s] => results'[s][Len(results'[s])].outcome # "ttl"]_vars

\* Every call returns: no call is left behind a lock, a hold or a bucket.
EveryCallReturns == \A s \in Send : pc[s] # "idle" ~> pc[s] = "done"
=============================================================================
