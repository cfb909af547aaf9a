------------------------------- MODULE SignIn -------------------------------
(***************************************************************************)
(* Sessions of the web admin and the API's keys: signing in through Twitch *)
(* or vex-auth (twitch/signin.py, api/routes/auth.py) or with the password *)
(* (api/sessions.py, api/routes/session.py), a session's role brought up   *)
(* to date before a request is served (api/access.py), keys                *)
(* (api/keys.py), and leaving.  One user, in several browsers, with        *)
(* several requests at once.                                               *)
(***************************************************************************)
EXTENDS Access

CONSTANTS
  Browser,
  Request,    \* coroutines that serve requests
  State,      \* sign-in states, secrets.token_urlsafe
  Token,      \* session tokens
  Key,        \* API keys' ids
  Config,     \* how the bot may be set up, and what Twitch, vex-auth and the policy may come to say of the user there:
              \* [provider, password, networks, keys, worlds], each world a [person, moderates, revoked]
  Route,      \* the routes asked for
  Attempts    \* LoginLimiter.attempts

VARIABLES
  config,    \* the setup, which does not change while the bot runs
  world,     \* what is so now
  issued,    \* states handed out so far
  states,    \* _states: those a callback may still use
  cookie,    \* per browser: the state in its sign-in cookie, and the token in its session cookie
  sessions,  \* AdminAuth._sessions: per token, whether it was made, its role, its channels, whether a user is behind
             \* it and whether it was checked lately
  keys,      \* api_keys: per id, its scopes, none before it is made, and whether it is revoked
  failures,  \* LoginLimiter._failures: failed logins of the user's address still inside the window
  req,       \* per coroutine: what it serves and how far it is
  amiss      \* history: a request was served that is not due, or a view's that its viewer would not see

signInVars == <<config, world, issued, states, cookie, sessions, keys, failures, req, amiss>>

Nothing == [is |-> None, of |-> {}]
Idle == [at |-> "idle", by |-> None, token |-> None, asked |-> FALSE, found |-> {}, answer |-> Nothing]
Unmade == [is |-> "unmade", role |-> None, channels |-> {}, user |-> FALSE, fresh |-> FALSE]
Ended == [Unmade EXCEPT !.is = "over"]

SignInInit ==
  /\ config \in Config /\ world \in config.worlds /\ issued = {} /\ states = {} /\ failures = 0 /\ amiss = FALSE
  /\ cookie = [b \in Browser |-> [state |-> None, token |-> None]]
  /\ sessions = [t \in Token |-> Unmade]
  /\ keys = [k \in Key |-> [scopes |-> {}, revoked |-> FALSE]]
  /\ req = [r \in Request |-> Idle]

\* Coroutines, states and tokens are alike: the first that is free is taken.
Begins(r) == req[r] = Idle /\ r = CHOOSE q \in Request : req[q] = Idle
NewToken == CHOOSE t \in Token : sessions[t] = Unmade

\* Token bounds the sessions made: as many logins are begun as there are tokens for.
TokenLeft ==
  Cardinality({r \in Request : req[r].at \in {"redeeming", "right"}})
    < Cardinality({t \in Token : sessions[t] = Unmade})

Live(t) == t \in Token /\ sessions[t].is = "live"

\* AdminAuth.logout, and the end of a session's eight hours.
Over(t) == IF Live(t) THEN [sessions EXCEPT ![t] = Ended] ELSE sessions

\* AdminAuth.login, in place of the session the request came with.
New(old, t, access, user) ==
  [Over(old) EXCEPT ![t] = [is |-> "live", role |-> access.role, channels |-> access.channels,
                            user |-> user, fresh |-> TRUE]]

-----------------------------------------------------------------------------
\* Signing in.

\* GET /auth/admin/login: a new state, in the cookie of the browser too.
Start(b) ==
  /\ config.provider # None
  /\ State # issued
  /\ LET s == CHOOSE s \in State \ issued : TRUE IN
       /\ issued' = issued \cup {s} /\ states' = states \cup {s}
       /\ cookie' = [cookie EXCEPT ![b].state = s]
  /\ UNCHANGED <<config, world, sessions, keys, failures, req, amiss>>

\* STATE_TTL_S.
StateExpires(s) ==
  /\ s \in states /\ states' = states \ {s}
  /\ UNCHANGED <<config, world, issued, cookie, sessions, keys, failures, req, amiss>>

\* GET /auth/admin/callback, of any state, which is taken before the provider is asked: what another browser
\* began, what was used and what the user refused go back to the login page.
Callback(r, b, s) ==
  /\ Begins(r) /\ s \in issued
  /\ states' = states \ {s}
  /\ \/ /\ s \in states /\ cookie[b].state = s /\ TokenLeft
        /\ req' = [req EXCEPT ![r] = [Idle EXCEPT !.at = "redeeming", !.by = b, !.token = cookie[b].token]]
        /\ UNCHANGED cookie
     \/ /\ cookie' = [cookie EXCEPT ![b].state = None]
        /\ UNCHANGED req
  /\ UNCHANGED <<config, world, issued, sessions, keys, failures, amiss>>

Says(is, of) == [is |-> is, of |-> of]

\* What Twitch says of the channels the user moderates; an access token that expired is refreshed on the way.
TwitchSays == IF world.revoked THEN Says("revoked", {}) ELSE Says("moderates", world.moderates)

\* What vex-auth says of its session, and then of the channels.
VexSays(asked) == IF world.revoked \/ asked THEN TwitchSays ELSE Says("active", {})

\* The provider answers for the user as things are when it is asked, or the request fails.
Answers(r) ==
  /\ req[r].at \in {"redeeming", "refreshing"} /\ req[r].answer = Nothing
  /\ \E answer \in {Says("failed", {}), IF config.provider = "vex" THEN VexSays(req[r].asked) ELSE TwitchSays} :
       req' = [req EXCEPT ![r].answer = answer]
  /\ UNCHANGED <<config, world, issued, states, cookie, sessions, keys, failures, amiss>>

\* vex-auth's answer about its session: whoever is no admin by now has their channels asked for next.
AsksOn(r) ==
  /\ req[r].answer.is = "active" /\ ~world.person.admin
  /\ req' = [req EXCEPT ![r].answer = Nothing, ![r].asked = TRUE]
  /\ UNCHANGED <<config, world, issued, states, cookie, sessions, keys, failures, amiss>>

\* The provider needs to be asked nothing more.
Told(r) == req[r].answer.is = "moderates" \/ (req[r].answer.is = "active" /\ world.person.admin)

\* The end of the callback: the session of the request's cookie makes way for a new one.
SignedIn(r) ==
  /\ req[r].at = "redeeming" /\ Told(r)
  /\ sessions' = New(req[r].token, NewToken, AccessFor(world.person, req[r].answer.of), TRUE)
  /\ cookie' = [cookie EXCEPT ![req[r].by] = [state |-> None, token |-> NewToken]]
  /\ req' = [req EXCEPT ![r] = Idle]
  /\ UNCHANGED <<config, world, issued, states, keys, failures, amiss>>

\* It is sent back to the login page.
SignInFails(r) ==
  /\ req[r].at = "redeeming" /\ req[r].answer.is \in {"revoked", "failed"}
  /\ cookie' = [cookie EXCEPT ![req[r].by].state = None]
  /\ req' = [req EXCEPT ![r] = Idle]
  /\ UNCHANGED <<config, world, issued, states, sessions, keys, failures, amiss>>

\* password_allowed: from the local network only, and a request some proxy passed on only by the address it names.
PasswordAllowed(from) == config.networks = "any" \/ (from.address = "local" /\ from.forwarded \in {None, "same"})

\* LoginLimiter.retry_after.
MustWait == failures >= Attempts

\* POST /session: the password is hashed in a thread.
PasswordSent(r, b, from, right) ==
  /\ Begins(r) /\ config.password /\ PasswordAllowed(from) /\ ~MustWait /\ (right => TokenLeft)
  /\ LET at == IF right THEN "right" ELSE "wrong"
     IN req' = [req EXCEPT ![r] = [Idle EXCEPT !.at = at, !.by = b, !.token = cookie[b].token]]
  /\ UNCHANGED <<config, world, issued, states, cookie, sessions, keys, failures, amiss>>

\* A wrong password is counted; the right one clears the address and makes an admin's session with no user.
PasswordChecked(r) ==
  \/ /\ req[r].at = "wrong" /\ failures' = failures + 1 /\ req' = [req EXCEPT ![r] = Idle]
     /\ UNCHANGED <<config, world, issued, states, cookie, sessions, keys, amiss>>
  \/ /\ req[r].at = "right" /\ failures' = 0 /\ req' = [req EXCEPT ![r] = Idle]
     /\ sessions' = New(req[r].token, NewToken, [role |-> "admin", channels |-> Channel], FALSE)
     /\ cookie' = [cookie EXCEPT ![req[r].by].token = NewToken]
     /\ UNCHANGED <<config, world, issued, states, keys, amiss>>

\* The oldest failure leaves the window.
FailureAges ==
  /\ failures > 0 /\ failures' = failures - 1
  /\ UNCHANGED <<config, world, issued, states, cookie, sessions, keys, req, amiss>>

-----------------------------------------------------------------------------
\* Requests.

\* Mutant: a write is let through by the session as it was found.
CsrfOfFound(t) == TRUE

\* valid_csrf looks the session up again.
Csrf(t) == Live(t)

\* Due to the user: nothing is written for a session that ended or through a view, and nobody has more than the
\* session says they have now and the policy gives them.
Due(s, alive, route, h) ==
  /\ route.scope = "write" => alive /\ h = NoHeader
  /\ s.role = "admin" \/ (h = NoHeader /\ MayUse(CallerForSession(s), world.person, route))

\* A view shows what its viewer would be shown.
ShowsTheViewers(route, h) ==
  LET view == ParseViewAs(h)
      asAdmin == [role |-> "admin", channels |-> Channel, user |-> TRUE]
  IN Status(asAdmin, TRUE, Viewer(NoView), route, h) = 200 =>
       /\ view.channel \in Channel \cup {None}
       /\ Status(ViewersSession(view), TRUE, Viewer(view), route, NoHeader) = 200
       /\ PreviewJson(view) = ChannelAccess(CallerForSession(ViewersSession(view)), Viewer(view))
ViewsShowTheViewers == \A route \in Route, h \in Headers : ShowsTheViewers(route, h)

\* What a session is served as it stands, asked for everything, found live or not when it is looked at again.
Serves(s, t) ==
  amiss' = (amiss \/ ~ViewsShowTheViewers \/
            \E route \in Route, h \in Headers \cup {NoHeader} :
              Status(s, Csrf(t), world.person, route, h) = 200 /\ ~Due(s, Live(t), route, h))

\* POST /keys and DELETE /keys: for an admin's session.
ChangesKeys(s, t) ==
  \E k \in Key, h \in Headers \cup {NoHeader} :
    /\ config.keys /\ KeysStatus(s, Csrf(t), "write", h) = 200
    /\ amiss' = (amiss \/ ~Live(t) \/ s.role # "admin" \/ h # NoHeader)
    /\ \/ \E scopes \in SUBSET {"read", "write"} :
            keys[k].scopes = {} /\ scopes # {} /\ keys' = [keys EXCEPT ![k].scopes = scopes]
       \/ keys[k].scopes # {} /\ ~keys[k].revoked /\ keys' = [keys EXCEPT ![k].revoked = TRUE]

Serve(s, t) == (Serves(s, t) /\ UNCHANGED keys) \/ ChangesKeys(s, t)

\* Mutant: the role of an admin is not asked for again.
StaleUnlessAdmin(t) == ~sessions[t].fresh /\ sessions[t].role # "admin"

\* REFRESH_S is over for a session with a grant.
Stale(t) == ~sessions[t].fresh

MustRefresh(t) == Live(t) /\ sessions[t].user /\ config.provider # None /\ Stale(t)

\* Twitch is asked nothing about an admin.
AskedNothing == config.provider = "twitch" /\ world.person.admin

\* A request whose session needs no answer first.
Asked(b) ==
  LET t == cookie[b].token IN
  /\ Live(t) /\ ~MustRefresh(t) /\ Serve(sessions[t], t)
  /\ UNCHANGED <<config, world, issued, states, cookie, sessions, failures, req>>

\* An admin's session is brought up to date without an answer, and the request is served at once.
AdminAgain(t) == [sessions[t] EXCEPT !.role = "admin", !.channels = Channel, !.fresh = TRUE]
StaysAdmin(b) ==
  LET t == cookie[b].token IN
  /\ MustRefresh(t) /\ AskedNothing
  /\ sessions' = [sessions EXCEPT ![t] = AdminAgain(t)]
  /\ UNCHANGED <<config, world, issued, states, cookie, failures, req>>
AskedAsAdmin(b) == StaysAdmin(b) /\ Serve(AdminAgain(cookie[b].token), cookie[b].token)

\* refresh marks the session as checked before it asks.
Refresh(r, b) ==
  LET t == cookie[b].token IN
  /\ Begins(r) /\ MustRefresh(t) /\ ~AskedNothing
  /\ sessions' = [sessions EXCEPT ![t].fresh = TRUE]
  /\ req' = [req EXCEPT ![r] = [Idle EXCEPT !.at = "refreshing", !.by = b, !.token = t]]
  /\ UNCHANGED <<config, world, issued, states, cookie, keys, failures, amiss>>

\* What the request has for its session then: one that ended meanwhile is whatever it was.
Brought(r) ==
  LET t == req[r].token
      access == AccessFor(world.person, req[r].answer.of)
      found == IF Live(t) THEN sessions[t] ELSE [Ended EXCEPT !.role = "admin", !.channels = Channel, !.user = TRUE]
  IN IF Told(r) THEN [found EXCEPT !.role = access.role, !.channels = access.channels] ELSE found

\* The answer is taken into the session, if it has not ended meanwhile; one that could not be checked stays as
\* it was; a session the provider no longer stands for ends.
TakesIn(r) ==
  LET t == req[r].token IN
  /\ req[r].at = "refreshing" /\ (req[r].answer.is = "failed" \/ Told(r))
  /\ sessions' = IF Live(t) THEN [sessions EXCEPT ![t] = Brought(r)] ELSE sessions
  /\ req' = [req EXCEPT ![r] = Idle]
  /\ UNCHANGED <<config, world, issued, states, cookie, failures>>

SignedOut(r) ==
  /\ req[r].at = "refreshing" /\ req[r].answer.is = "revoked"
  /\ sessions' = Over(req[r].token) /\ req' = [req EXCEPT ![r] = Idle]
  /\ UNCHANGED <<config, world, issued, states, cookie, keys, failures, amiss>>

\* Then the request is served.
Refreshed(r) == TakesIn(r) /\ Serve(Brought(r), req[r].token)

\* A key is looked up, and its use noted after that.
KeyPresented(r, k) ==
  /\ Begins(r) /\ config.keys /\ keys[k].scopes # {} /\ ~keys[k].revoked
  /\ req' = [req EXCEPT ![r] = [Idle EXCEPT !.at = "key", !.found = keys[k].scopes]]
  /\ UNCHANGED <<config, world, issued, states, cookie, sessions, keys, failures, amiss>>

\* ApiKey.allows: to write is to read too.
Allows(scopes, scope) == scope \in scopes \/ (scope = "read" /\ "write" \in scopes)

\* The request is then served as an admin's, within the scopes the key had.
KeyUsed(r) ==
  /\ req[r].at = "key"
  /\ \E scope \in {"read", "write"} :
       amiss' = (amiss \/ (Allows(req[r].found, scope) /\ scope = "write" /\ "write" \notin req[r].found))
  /\ req' = [req EXCEPT ![r] = Idle]
  /\ UNCHANGED <<config, world, issued, states, cookie, sessions, keys, failures>>

\* DELETE /session.
Logout(b) ==
  /\ Live(cookie[b].token)
  /\ sessions' = Over(cookie[b].token) /\ cookie' = [cookie EXCEPT ![b].token = None]
  /\ UNCHANGED <<config, world, issued, states, keys, failures, req, amiss>>

\* SESSION_TTL_S.
SessionExpires(t) ==
  /\ Live(t) /\ sessions' = Over(t)
  /\ UNCHANGED <<config, world, issued, states, cookie, keys, failures, req, amiss>>

\* REFRESH_S passes for a session.
TimeToAsk(t) ==
  /\ Live(t) /\ sessions[t].user /\ sessions[t].fresh
  /\ sessions' = [sessions EXCEPT ![t].fresh = FALSE]
  /\ UNCHANGED <<config, world, issued, states, cookie, keys, failures, req, amiss>>

\* The user gains or loses a role, or takes the grant back.
Change ==
  /\ \E now \in config.worlds \ {world} : world' = now
  /\ UNCHANGED <<config, issued, states, cookie, sessions, keys, failures, req, amiss>>

From == [address : {"local", "elsewhere"}, forwarded : {None, "same", "other"}]

SignInNext ==
  \/ \E b \in Browser : Start(b) \/ Logout(b) \/ Asked(b) \/ AskedAsAdmin(b)
  \/ \E s \in State : StateExpires(s)
  \/ \E r \in Request :
       \/ \E b \in Browser :
            \/ \E s \in State : Callback(r, b, s)
            \/ \E from \in From, right \in BOOLEAN : PasswordSent(r, b, from, right)
            \/ Refresh(r, b)
       \/ \E k \in Key : KeyPresented(r, k)
       \/ Answers(r) \/ AsksOn(r) \/ SignedIn(r) \/ SignInFails(r) \/ PasswordChecked(r)
       \/ Refreshed(r) \/ SignedOut(r) \/ KeyUsed(r)
  \/ \E t \in Token : SessionExpires(t) \/ TimeToAsk(t)
  \/ FailureAges \/ Change

SignInSpec == SignInInit /\ [][SignInNext]_signInVars

\* Time passes, every browser asks again and finds a coroutine to serve it, and the provider does not fail for ever.
SignInFairSpec ==
  /\ SignInSpec
  /\ \A t \in Token : WF_signInVars(TimeToAsk(t))
  /\ \A b \in Browser :
       SF_signInVars((\E r \in Request : Refresh(r, b)) \/ (StaysAdmin(b) /\ UNCHANGED <<keys, amiss>>))
  /\ \A r \in Request :
       /\ SF_signInVars(Answers(r) /\ req'[r].answer.is # "failed")
       /\ WF_signInVars(AsksOn(r) \/ SignedIn(r) \/ SignInFails(r) \/ PasswordChecked(r) \/ SignedOut(r) \/ KeyUsed(r)
                        \/ (TakesIn(r) /\ UNCHANGED <<keys, amiss>>))
-----------------------------------------------------------------------------

\* Nothing is served that is not due: a request that waited for the provider while its session ended changes
\* nothing, nobody goes beyond the role the session has, a view changes nothing, and what it shows is what the
\* viewer it stands for would be shown.
ServedItsDue == ~amiss

\* A session the browser uses comes to have the role and the channels its user has now, or to end with the grant.
RoleFollows ==
  \A b \in Browser, now \in UNION {c.worlds : c \in Config} :
    LET access == AccessFor(now.person, now.moderates)
        t == cookie[b].token
    IN <>[](world = now /\ Live(t) /\ sessions[t].user)
       => <>[](Live(t) /\ sessions[t].role = access.role /\ sessions[t].channels = access.channels
               /\ (now.revoked => AskedNothing))
=============================================================================
