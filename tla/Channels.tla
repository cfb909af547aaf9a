------------------------------ MODULE Channels ------------------------------
(***************************************************************************)
(* A channel the bot is in, or was: joining, leaving and being banned      *)
(* (core/channels.py), what the bot may do there (core/capabilities.py),   *)
(* the snapshot of the settings and the lock under which they change       *)
(* (policy/service.py), the client's record of what is subscribed, and the *)
(* broadcaster's grant (__main__.py).                                      *)
(*                                                                         *)
(* A member of Call is a coroutine: a chat command, a request, a refused   *)
(* send, a start of the client, or the hourly probe.  It gives up the loop *)
(* at each await, and `wait` is the one it is at.  The channel is not the  *)
(* bot's own.                                                              *)
(***************************************************************************)
EXTENDS Integers, Sequences, FiniteSets, SequencesExt

CONSTANTS
  Call,      \* coroutines
  Hourly,    \* the one of CapabilityProbe._loop
  MaxTurns   \* bound: changes from outside (the badge, failures, cut calls, authorizations)

ASSUME ChannelsAssumption == Hourly \in Call /\ MaxTurns \in Nat

VARIABLES
  row,         \* the channel's row of `channels`
  snap,        \* the channel's settings in the policy's snapshot
  policyq,     \* PolicyService._write_lock: its holder, then those that wait
  call,        \* per call: what it is, the await it is at, and the writes it has yet to make
  subscribed,  \* the channel is in TwitchClient._subscribed
  session,     \* the channel is in ChatLogWriter._sessions
  connected,   \* a token of the broadcaster's is stored
  modded,      \* the bot is a moderator there
  refused,     \* history: the last attempt to subscribe failed, was cut, or missed a cut change
  stale,       \* history: a change was cut before its reload
  torn,        \* history: a change was cut between the capabilities and the tier
  barred,      \* history: banned, and nobody has asked for more since
  turns        \* changes from outside so far

policyVars == <<row, snap, stale, torn>>
vars == <<policyVars, policyq, call, subscribed, session, connected, modded, refused, barred, turns>>

\* "moderate" stands for MODERATOR_CAPABILITIES, "full" for FULL_CAPABILITIES; every channel has CHAT.
TierFor(caps) == IF "full" \in caps THEN "full" ELSE IF "moderate" \in caps THEN "moderator" ELSE "basic"

NoRow == [status |-> "none", active |-> FALSE, caps |-> {}, tier |-> "basic"]
NewRow == [status |-> "joined", active |-> TRUE, caps |-> {}, tier |-> "basic"]

\* _is_joined
Joined(settings) == settings.active /\ settings.status = "joined"

Locking == {"marking", "parting", "storing", "granting", "revoking"}

At(kind, wait) == [kind |-> kind, wait |-> wait, todo |-> <<>>, to |-> NoRow]
Idle == At("none", "idle")
Changing(kind, wait, todo, to) == [kind |-> kind, wait |-> wait, todo |-> todo, to |-> to]

Init ==
  /\ row = NoRow /\ snap = NoRow /\ stale = FALSE /\ torn = FALSE
  /\ policyq = <<>> /\ call = [c \in Call |-> Idle]
  /\ subscribed = FALSE /\ session = FALSE /\ connected = FALSE /\ modded = FALSE
  /\ refused = FALSE /\ barred = FALSE /\ turns = 0

-----------------------------------------------------------------------------
(* Where a call goes after an await.  What is passed without one is passed at once. *)

\* _store: a change to capabilities that are not what the snapshot has.
Stored(settings, kind, wait, caps, otherwise) ==
  IF settings.caps = caps /\ settings.tier = TierFor(caps) THEN otherwise
  ELSE Changing(kind, wait, <<"caps", "tier">>, [settings EXCEPT !.caps = caps, !.tier = TierFor(caps)])

\* The capabilities are stored: an authorization goes on to the grant; a start probes once more
\* (probe_all) and then hands over the broadcaster's token.
Probed(settings, kind) ==
  IF kind = "authorize" THEN Stored(settings, kind, "granting", settings.caps \cup {"full"}, At(kind, "using"))
  ELSE IF kind = "start" /\ Joined(settings) THEN At("restore", "probing")
  ELSE IF kind \in {"start", "restore"} /\ connected THEN At("restore", "using")
  ELSE Idle

\* The channel is marked joined: _subscribe, which passes over what is there already.
Marked(kind) ==
  At(kind, IF ~subscribed THEN "subscribing" ELSE IF ~session THEN "logging" ELSE "probing")

\* Call c goes on with `next`, and to the end of the lock's queue q if that takes the lock.
GoOn(c, next, q) ==
  /\ call' = [call EXCEPT ![c] = next]
  /\ policyq' = IF next.wait \in Locking THEN Append(q, c) ELSE q

Turn == turns < MaxTurns /\ turns' = turns + 1

-----------------------------------------------------------------------------
(* Calls that begin. *)

Begins(c) == c # Hourly /\ call[c] = Idle

\* Mutant: join asks nothing about a ban.
JoinUnchecked(c, kind) ==
  /\ Begins(c)
  /\ GoOn(c, IF Joined(snap) THEN Marked(kind)
             ELSE Changing(kind, "marking", <<"row", "status", "active">>, NewRow), policyq)
  /\ barred' = (barred /\ kind = "join")
  /\ UNCHANGED <<policyVars, subscribed, session, modded, refused>>

\* join: a banned channel stays left unless the caller says otherwise.
Join(c, kind) ==
  /\ Begins(c) /\ (snap.status = "banned" => kind # "join")
  /\ GoOn(c, IF Joined(snap) THEN Marked(kind)
             ELSE Changing(kind, "marking", <<"row", "status", "active">>, NewRow), policyq)
  /\ barred' = (barred /\ kind = "join")
  /\ UNCHANGED <<policyVars, subscribed, session, modded, refused>>

JoinAsked(c) == \E kind \in {"join", "rejoin"} : Join(c, kind) /\ UNCHANGED <<connected, turns>>

\* on_broadcaster_authorized, once the token is stored.
Authorized(c) == Join(c, "authorize") /\ connected' = TRUE /\ Turn

Parting(kind, status) ==
  Changing(kind, "parting", <<"status", "active">>, [snap EXCEPT !.status = status, !.active = FALSE])

\* part: `!part` asks whether the bot is there, the API does not.
Part(c) ==
  /\ Begins(c) /\ snap # NoRow
  /\ GoOn(c, Parting("part", "parted"), policyq)
  /\ barred' = FALSE
  /\ UNCHANGED <<policyVars, subscribed, session, connected, modded, refused, turns>>

\* leave_banned: a send was refused.
LeaveBanned(c) ==
  /\ Begins(c) /\ Joined(snap)
  /\ GoOn(c, Parting("ban", "banned"), policyq)
  /\ UNCHANGED <<policyVars, subscribed, session, connected, modded, refused, barred, turns>>

\* start_twitch: a new client, which has subscribed to nothing.  A restart ended the sessions.
StartTwitch(c) ==
  /\ Begins(c)
  /\ subscribed' = FALSE /\ session' \in {session, FALSE}
  /\ GoOn(c, IF Joined(snap) THEN At("start", "subscribing") ELSE Probed(snap, "start"), policyq)
  /\ refused' = (refused \/ stale)
  /\ UNCHANGED <<policyVars, connected, modded, barred, turns>>

\* probe: the hourly one, or one asked for on the web.
Probe(c) ==
  /\ call[c] = Idle /\ (IF c = Hourly THEN Joined(snap) ELSE snap # NoRow)
  /\ GoOn(c, At("probe", "probing"), policyq)
  /\ UNCHANGED <<policyVars, subscribed, session, connected, modded, refused, barred, turns>>

-----------------------------------------------------------------------------
(* mutate: the writes, each a transaction of its own, then the reload. *)

Holds(c) == policyq # <<>> /\ Head(policyq) = c

\* ensure_channel and set_channel_field; a row that is not there is not updated.
Written(field, to) ==
  IF field = "row" THEN IF row = NoRow THEN NewRow ELSE row
  ELSE IF row = NoRow THEN row ELSE [row EXCEPT ![field] = to[field]]

Write(c) ==
  /\ Holds(c) /\ call[c].todo # <<>>
  /\ row' = Written(Head(call[c].todo), call[c].to)
  /\ call' = [call EXCEPT ![c].todo = Tail(@)]
  /\ UNCHANGED <<snap, stale, torn, policyq, subscribed, session, connected, modded, refused, barred, turns>>

\* What follows the reload, up to the next await.
Changed(c) ==
  LET kind == call[c].kind
  IN CASE call[c].wait = "marking"  -> Marked(kind)
       [] call[c].wait = "storing"  -> Probed(row, kind)
       [] call[c].wait = "granting" -> At(kind, "using")
       [] call[c].wait = "revoking" -> Idle
       [] call[c].wait = "parting"  -> At(kind, "unsubscribing")

\* No other call is about to change whether the bot is there.
Alone(c) == \A d \in Call \ {c} : call[d].wait \notin {"marking", "parting"}

\* reload, and on to the next await: a part forgets the subscription as it goes.
Reload(c) ==
  /\ Holds(c) /\ call[c].todo = <<>>
  /\ snap' = row /\ stale' = FALSE
  /\ GoOn(c, Changed(c), Tail(policyq))
  /\ subscribed' = (subscribed /\ call[c].wait # "parting")
  /\ barred' = (barred \/ (call[c].kind = "ban" /\ call[c].wait = "parting" /\ Alone(c)))
  /\ UNCHANGED <<row, torn, session, connected, modded, refused, turns>>

-----------------------------------------------------------------------------
(* The other awaits. *)

\* subscribe_channel: all five subscriptions, or a failure.
Subscribe(c) ==
  /\ call[c].wait = "subscribing"
  /\ \/ /\ subscribed' = TRUE /\ refused' = FALSE
        /\ GoOn(c, At(call[c].kind, IF session THEN "probing" ELSE "logging"), policyq)
     \/ /\ refused' = TRUE /\ UNCHANGED subscribed
        /\ GoOn(c, Probed(snap, call[c].kind), policyq)
  /\ UNCHANGED <<policyVars, session, connected, modded, barred, turns>>

\* start_session
Log(c) ==
  /\ call[c].wait = "logging"
  /\ session' = TRUE /\ GoOn(c, At(call[c].kind, "probing"), policyq)
  /\ UNCHANGED <<policyVars, subscribed, connected, modded, refused, barred, turns>>

\* Mutant: what was found once is kept.
MeasuredKeeping(ok) == (IF ok THEN {"moderate"} ELSE {}) \cup snap.caps

\* probe: the answer, and what is stored of it.  A request that fails says no; an answer may be overtaken.
Measured(ok) == (IF ok THEN {"moderate"} ELSE {}) \cup (snap.caps \cap {"full"})

Measure(c) ==
  /\ call[c].wait = "probing"
  /\ \E ok \in BOOLEAN :
       /\ IF ok = modded THEN UNCHANGED turns ELSE Turn
       /\ GoOn(c, Stored(snap, call[c].kind, "storing", Measured(ok), Probed(snap, call[c].kind)), policyq)
  /\ UNCHANGED <<policyVars, subscribed, session, connected, modded, refused, barred>>

\* use_broadcaster: the token is taken, or the grant is gone (forget_broadcaster, revoke_full).
Use(c) ==
  /\ call[c].wait = "using"
  /\ \/ UNCHANGED connected /\ GoOn(c, Idle, policyq)
     \/ /\ connected' = FALSE
        /\ GoOn(c, Stored(snap, call[c].kind, "revoking", snap.caps \ {"full"}, Idle), policyq)
  /\ UNCHANGED <<policyVars, subscribed, session, modded, refused, barred, turns>>

\* Mutant: a part forgets the subscription when Twitch has deleted it.
UnsubscribeLate(c) ==
  /\ call[c].wait = "unsubscribing"
  /\ session' = FALSE /\ subscribed' = FALSE /\ GoOn(c, Idle, policyq)
  /\ UNCHANGED <<policyVars, connected, modded, refused, barred, turns>>

\* unsubscribe_channel has deleted what Twitch had, then end_session.
Unsubscribe(c) ==
  /\ call[c].wait = "unsubscribing"
  /\ session' = FALSE /\ GoOn(c, Idle, policyq)
  /\ UNCHANGED <<policyVars, subscribed, connected, modded, refused, barred, turns>>

Step(c) ==
  \/ Write(c) \/ Reload(c) \/ Subscribe(c) \/ Log(c) \/ Measure(c) \/ Use(c) \/ Unsubscribe(c)

\* A call waits for the lock, or holds it, once.
Without(q, c) ==
  IF \E i \in DOMAIN q : q[i] = c THEN RemoveAt(q, CHOOSE i \in DOMAIN q : q[i] = c) ELSE q

\* The stage timeout cuts a chat command wherever it waits; the lock is released.
Cut(c) ==
  /\ call[c].kind \in {"join", "rejoin", "part"} /\ Turn
  /\ call' = [call EXCEPT ![c] = Idle] /\ policyq' = Without(policyq, c)
  /\ stale' = (stale \/ (Holds(c) /\ row # snap))
  /\ torn' = (torn \/ (Holds(c) /\ call[c].wait = "storing" /\ call[c].todo = <<"tier">>))
  /\ refused' = (refused \/ call[c].kind # "part")
  /\ UNCHANGED <<row, snap, subscribed, session, connected, modded, barred>>

\* The broadcaster makes the bot a moderator, or takes it back.
Badge ==
  /\ Turn /\ modded' = ~modded
  /\ UNCHANGED <<policyVars, policyq, call, subscribed, session, connected, refused, barred>>

Next ==
  \/ \E c \in Call : \/ JoinAsked(c) \/ Authorized(c) \/ Part(c) \/ LeaveBanned(c) \/ StartTwitch(c)
                     \/ Probe(c) \/ Step(c) \/ Cut(c)
  \/ Badge

Spec == Init /\ [][Next]_vars

\* The loop resumes what is ready, requests end (the client has a timeout), the lock is a FIFO, and
\* the hourly task sleeps and probes.
FairSpec == Spec /\ (\A c \in Call : WF_vars(Step(c))) /\ WF_vars(Probe(Hourly))
-----------------------------------------------------------------------------

Rows == [status : {"none", "joined", "parted", "banned"}, active : BOOLEAN,
         caps : SUBSET {"moderate", "full"}, tier : {"basic", "moderator", "full"}]

\* A channel that is joined is listened to: when no call is under way, its chat is subscribed,
\* unless the subscriptions failed, which the caller was told.
JoinedIsSubscribed ==
  (\A c \in Call : call[c] = Idle) /\ Joined(snap) /\ ~refused => subscribed

\* Nothing brings the bot back by accident (architecture 10): once it has left for a ban with no
\* other join or part under way, the channel stays banned until a rejoin or a part is asked for.
BanHolds == barred => row.status = "banned"

\* What the bot may do follows what Twitch allows: in a channel that stays joined, once the badge
\* stays as it is, the capabilities come to agree with it for good.
ModeratorFollows == <>[]Joined(snap) => <>[]("moderate" \in snap.caps <=> modded)

=============================================================================
