------------------------------- MODULE Fetch -------------------------------
(***************************************************************************)
(* HttpFetcher.get (webfetch/fetcher.py): a GET of a listed host, answered *)
(* from the cache, shared with the same GET that is on its way, refused by *)
(* a limit, or sent, hop by hop.  A run calls it inside a stage that has   *)
(* three seconds, as the request has.                                      *)
(***************************************************************************)
EXTENDS Integers, Sequences, FiniteSets

CONSTANTS
  Run,           \* coroutines that may ask
  Url,
  HostOf,        \* [Url -> hosts]
  ChannelOf,     \* [Run -> channels]
  PerChannel,    \* requests a minute of a channel, 10
  PerHost,       \* requests a minute of a host, 60
  MaxRedirects,  \* 3
  Window,        \* a minute, and the life of a cached answer, in steps of the clock
  MaxAsks        \* bound: gets that one run makes

None == "none"
Nobody == [nobody |-> TRUE]
Hosts == {HostOf[u] : u \in Url}
Channels == {ChannelOf[r] : r \in Run}

\* A channel and a host are never the same: the code keeps a window of each kind.
ASSUME FetchAssumption ==
  /\ PerChannel \in Nat /\ PerHost \in Nat /\ MaxRedirects \in Nat /\ Window \in Nat \ {0} /\ MaxAsks \in Nat
  /\ DOMAIN HostOf = Url /\ DOMAIN ChannelOf = Run
  /\ Nobody \notin Run /\ Channels \cap Hosts = {}

VARIABLES
  listed,    \* hosts of the allow-list that decides, HostStore._entries
  get,       \* per run: where its get is, what it asked for, the hop it is at, and how the last one ended
  inflight,  \* _inflight: per URL, who fetches it
  cached,    \* _cache: per URL, how long ago its answer came, or Window when it is of no use
  hits       \* per_channel and per_host: the ages of the requests in the window, the oldest first

fetchVars == <<listed, get, inflight, cached, hits>>

NotAsking == [at |-> "idle", url |-> None, hop |-> None, hops |-> 0, ended |-> None, asks |-> 0]

FetchInit ==
  /\ listed = Hosts
  /\ get = [r \in Run |-> NotAsking]
  /\ inflight = [u \in Url |-> Nobody] /\ cached = [u \in Url |-> Window]
  /\ hits = [k \in Channels \cup Hosts |-> <<>>]

-----------------------------------------------------------------------------

\* Requests of the last minute.
Recent(k) == Len(hits[k])

Limit(k) == IF k \in Channels THEN PerChannel ELSE PerHost

\* Mutant: one more than the limit.
FullPastLimit(k) == Recent(k) > Limit(k)

\* _Window.full
Full(k) == Recent(k) >= Limit(k)

Allowed(u) == HostOf[u] \in listed

\* Mutant: a request on its way is not looked for.
OnItsWayUnseen(u) == FALSE

\* The same GET is on its way already.
OnItsWay(u) == inflight[u] # Nobody

Began(r, at, u, ended) ==
  [get[r] EXCEPT !.at = at, !.url = u, !.hop = IF at = "asking" THEN u ELSE None, !.ended = ended, !.asks = @ + 1]

Goes(r, u) == Allowed(u) /\ cached[u] = Window /\ ~OnItsWay(u) /\ ~Full(ChannelOf[r]) /\ ~Full(HostOf[u])

\* get, up to its first await.
Get(r, u) ==
  /\ get[r].at = "idle" /\ get[r].asks < MaxAsks
  /\ \/ /\ Goes(r, u)
        /\ get' = [get EXCEPT ![r] = Began(r, "asking", u, None)]
        /\ inflight' = [inflight EXCEPT ![u] = r]
        /\ hits' = [hits EXCEPT ![ChannelOf[r]] = Append(@, 0), ![HostOf[u]] = Append(@, 0)]
     \/ /\ Allowed(u) /\ cached[u] = Window /\ OnItsWay(u)
        /\ get' = [get EXCEPT ![r] = Began(r, "sharing", u, None)]
        /\ UNCHANGED <<inflight, hits>>
     \/ /\ Allowed(u) /\ cached[u] < Window
        /\ get' = [get EXCEPT ![r] = Began(r, "idle", None, "answered")]
        /\ UNCHANGED <<inflight, hits>>
     \/ /\ ~Allowed(u) \/ (cached[u] = Window /\ ~OnItsWay(u) /\ (Full(ChannelOf[r]) \/ Full(HostOf[u])))
        /\ get' = [get EXCEPT ![r] = Began(r, "idle", None, "refused")]
        /\ UNCHANGED <<inflight, hits>>
  /\ UNCHANGED <<listed, cached>>

Ended(r, how) == [get[r] EXCEPT !.at = "idle", !.url = None, !.hop = None, !.hops = 0, !.ended = how]

\* Mutant: a request that is cut says nothing to those who share it.
SharersToldUnlessCut(r, how) ==
  IF how = "expired" THEN {} ELSE {s \in Run : get[s].at = "sharing" /\ get[s].url = get[r].url}

\* Who awaits the future of r's request.
SharersTold(r, how) == {s \in Run : get[s].at = "sharing" /\ get[s].url = get[r].url}

\* The request is over, and its future ends the same for those who share it: they are cut by the
\* cancellation that `except BaseException` put into it, when the asker's stage expired.
Done(r, how) ==
  /\ get' = [s \in Run |-> IF s = r THEN Ended(s, how)
                           ELSE IF s \in SharersTold(r, how) THEN Ended(s, IF how = "expired" THEN "cut" ELSE how)
                           ELSE get[s]]
  /\ inflight' = [inflight EXCEPT ![get[r].url] = Nobody]
  /\ cached' = IF how = "answered" THEN [cached EXCEPT ![get[r].url] = 0] ELSE cached

\* A redirect is followed to a listed host, MaxRedirects times.
Follows(r, v) == get[r].hops < MaxRedirects /\ Allowed(v)

\* _follow and _read: a hop is answered with a redirect, a value or an error, or not in three seconds.
Answer(r) ==
  /\ get[r].at = "asking"
  /\ \/ \E v \in Url : /\ Follows(r, v)
                       /\ get' = [get EXCEPT ![r].hop = v, ![r].hops = @ + 1]
                       /\ UNCHANGED <<inflight, cached>>
     \/ Done(r, "answered")
     \/ Done(r, "refused")
  /\ UNCHANGED <<listed, hits>>

\* The stage around a get has used its time: who asks ends the request, who shares leaves it.
Expire(r) ==
  /\ \/ get[r].at = "asking" /\ Done(r, "expired")
     \/ /\ get[r].at = "sharing" /\ get' = [get EXCEPT ![r] = Ended(r, "expired")]
        /\ UNCHANGED <<inflight, cached>>
  /\ UNCHANGED <<listed, hits>>

\* The requests of a window a tick later, without those that leave it (popleft).
Later(ages) ==
  LET gone == Cardinality({i \in DOMAIN ages : ages[i] = Window - 1})
  IN [i \in 1 .. Len(ages) - gone |-> ages[i + gone] + 1]

\* Time passes, in the windows and in the cache.
Age ==
  /\ hits' = [k \in DOMAIN hits |-> Later(hits[k])]
  /\ cached' = [u \in Url |-> IF cached[u] = Window THEN Window ELSE cached[u] + 1]
  /\ UNCHANGED <<listed, get, inflight>>

\* allow and deny, as far as the reload.
Relist(h) ==
  /\ listed' = IF h \in listed THEN listed \ {h} ELSE listed \cup {h}
  /\ UNCHANGED <<get, inflight, cached, hits>>

FetchNext ==
  \/ \E r \in Run : (\E u \in Url : Get(r, u)) \/ Answer(r) \/ Expire(r)
  \/ Age
  \/ \E h \in Hosts : Relist(h)

FetchSpec == FetchInit /\ [][FetchNext]_fetchVars
-----------------------------------------------------------------------------

\* _inflight says who is fetching what, and nothing else: one request per URL, and whoever shares one
\* waits for a request that is still on its way.
InflightExact ==
  /\ \A u \in Url, r \in Run : inflight[u] = r <=> get[r].at = "asking" /\ get[r].url = u
  /\ \A s \in Run : get[s].at = "sharing" => inflight[get[s].url] # Nobody

\* However requests are shared, answered from the cache or cut, no more go out in a minute than
\* the limits of the channel and the host allow.
LimitsHeld == \A k \in DOMAIN hits : Recent(k) <= Limit(k)

=============================================================================
