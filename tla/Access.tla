------------------------------- MODULE Access -------------------------------
(***************************************************************************)
(* Who calls the API and what they may use (api/access.py, the JSON of     *)
(* api/routes/session.py, access_for of twitch/signin.py): callers,        *)
(* areas, ranks, and the views an admin may look through.  Decisions only; *)
(* when they are taken is SignIn's part.                                   *)
(***************************************************************************)
EXTENDS Integers, FiniteSets

CONSTANT Channel  \* the channels the bot knows

None == "none"
Unknown == "unknown"   \* a channel the bot does not know

\* Nothing is not a channel.
ASSUME AccessAssumption == None \notin Channel

\* Ranks, policy/roles.py.
Moderator == 80
Broadcaster == 100
BotAdmin == 1000

\* A person is [admin, own, custom, joined]: whether the policy has them as a bot admin, the channel that
\* is theirs, the rank of their custom role in each channel, and the channels the bot is in.

\* access_for, with the channels Twitch says they moderate.
AccessFor(person, moderated) ==
  LET mine == person.joined \cap ({person.own} \cup moderated)
  IN IF person.admin THEN [role |-> "admin", channels |-> Channel]
     ELSE [role |-> IF mine = {} THEN "user" ELSE "moderator", channels |-> mine]

-----------------------------------------------------------------------------
\* X-View-As: [what, at, n], what = None when the request has none.
Headers == [what : {"signed-out", "user"}, at : {None}, n : {0}]
           \cup [what : {"moderator", "broadcaster"}, at : Channel \cup {None, Unknown}, n : {0}]
           \cup [what : {"rank"}, at : Channel, n : {0, 45, 99, 100}]
NoHeader == [what |-> None, at |-> None, n |-> 0]

NoView == [kind |-> None, channel |-> None, rank |-> 0]
Bad(code) == [kind |-> "refused", channel |-> None, rank |-> code]

ParseViewAs(h) ==
  CASE h.what \in {"signed-out", "user"} -> [NoView EXCEPT !.kind = h.what]
    [] h.what = "moderator" /\ h.at # None -> [kind |-> "moderator", channel |-> h.at, rank |-> Moderator]
    [] h.what = "broadcaster" /\ h.at # None -> [kind |-> "broadcaster", channel |-> h.at, rank |-> Broadcaster]
    [] h.what = "rank" /\ h.at # None /\ h.n \in 1..99 -> [kind |-> "custom", channel |-> h.at, rank |-> h.n]
    [] OTHER -> Bad(400)

\* view_as: only an admin's session may send it, for a channel that is known.
ViewAs(session, h) ==
  IF h = NoHeader THEN NoView
  ELSE IF session.role # "admin" THEN Bad(403)
  ELSE LET view == ParseViewAs(h) IN IF view.channel = Unknown THEN Bad(400) ELSE view

Listed(view) == view.kind \in {"moderator", "broadcaster"}

-----------------------------------------------------------------------------
\* A session is [role, channels, user]: user is FALSE for the password's, an admin with no user.
CallerForSession(s) == [role |-> s.role, channels |-> s.channels, user |-> s.user, view |-> NoView]

Previewing(caller, view) ==
  [caller EXCEPT !.role = IF Listed(view) THEN "moderator" ELSE "user",
                 !.channels = IF Listed(view) THEN {view.channel} ELSE {}, !.view = view]

Admin(caller) == caller.role = "admin"

ChannelRole(caller, person, c) ==
  IF caller.view # NoView THEN IF caller.view.channel = c /\ Listed(caller.view) THEN caller.view.kind ELSE None
  ELSE IF Admin(caller) \/ ~caller.user \/ c \notin caller.channels THEN None
  ELSE IF c = person.own THEN "broadcaster" ELSE "moderator"

\* The rank chat would give: the Twitch role as a badge, raised by a custom role.
RankIn(caller, person, c) ==
  IF caller.view # NoView THEN IF caller.view.channel = c THEN caller.view.rank ELSE 0
  ELSE IF Admin(caller) THEN BotAdmin
  ELSE IF ~caller.user THEN 0
  ELSE LET ranks == {0, person.custom[c]} \cup (IF c = person.own THEN {Broadcaster} ELSE {})
                    \cup (IF ChannelRole(caller, person, c) = None THEN {} ELSE {Moderator})
                    \cup (IF person.admin THEN {BotAdmin} ELSE {})
       IN CHOOSE n \in ranks : \A m \in ranks : m <= n

-----------------------------------------------------------------------------
\* A route asks for [scope, area, channel, min, role]: the channel it names and the lowest rank there, and
\* the role one of the channel's settings asks for, each None or 0 where the route has none.
CheckArea(caller, route) ==
  \/ Admin(caller) \/ route.area = "personal"
  \/ route.area = "channel" /\ (route.channel = None \/ route.channel \in caller.channels)

\* check_rank, which a channel that is not known passes: it is not found later.
CheckRank(caller, person, route) ==
  Admin(caller) \/ route.channel \notin Channel \/ RankIn(caller, person, route.channel) >= route.min

\* check_setting_role, for roles that have a rank: a custom one here, whose rank is 45.
RankOf(role) == CASE role = "moderator" -> Moderator [] role = "broadcaster" -> Broadcaster [] role = "regular" -> 45
CheckSettingRole(caller, person, route) ==
  Admin(caller) \/ route.channel \notin Channel \/ RankIn(caller, person, route.channel) >= RankOf(route.role)

\* require: the area, and the rank where it is above what managing the channel gives.
MayUse(caller, person, route) ==
  /\ CheckArea(caller, route)
  /\ (route.area = "channel" /\ route.channel # None /\ route.min > Moderator) => CheckRank(caller, person, route)
  /\ route.role # None => CheckSettingRole(caller, person, route)

\* What authenticate does with the session it has: the caller, or the status it answers with.
\* A write needs the session again, by its CSRF token.
Authenticate(session, valid, scope, h) ==
  LET view == ViewAs(session, h)
      caller == CallerForSession(session)
  IN IF view.kind = "refused" THEN [code |-> view.rank, caller |-> caller]
     ELSE IF scope # "read" /\ (view # NoView \/ ~valid) THEN [code |-> 403, caller |-> caller]
     ELSE IF view.kind = "signed-out" THEN [code |-> 401, caller |-> caller]
     ELSE [code |-> 200, caller |-> IF view = NoView THEN caller ELSE Previewing(caller, view)]

\* The status a route's request gets, from a session.
Status(session, valid, person, route, h) ==
  LET found == Authenticate(session, valid, route.scope, h)
  IN IF found.code = 200 /\ ~MayUse(found.caller, person, route) THEN 403 ELSE found.code

\* require_session: the keys' routes, for an admin's session that looks through no view.
KeysStatus(session, valid, scope, h) ==
  LET view == ViewAs(session, h)
  IN IF view.kind = "refused" THEN view.rank
     ELSE IF view # NoView \/ session.role # "admin" \/ (scope = "write" /\ ~valid) THEN 403 ELSE 200

\* GET /session: the role, the channels, and the role and rank in each of them.
ChannelAccess(caller, person) ==
  [role |-> caller.role, channels |-> caller.channels,
   roles |-> [c \in caller.channels |-> ChannelRole(caller, person, c)],
   ranks |-> [c \in caller.channels |-> RankIn(caller, person, c)]]

\* _preview_json.
PreviewJson(view) ==
  LET listed == IF Listed(view) THEN {view.channel} ELSE {}
  IN [role |-> IF Listed(view) THEN "moderator" ELSE "user", channels |-> listed,
      roles |-> [c \in listed |-> view.kind], ranks |-> [c \in listed |-> view.rank]]

-----------------------------------------------------------------------------
\* For the properties: the viewer a view stands for, as they would be and as they would have signed in.
Viewer(view) ==
  [admin |-> FALSE, own |-> IF view.kind = "broadcaster" THEN view.channel ELSE None, joined |-> Channel,
   custom |-> [c \in Channel |-> IF view.kind = "custom" /\ view.channel = c THEN view.rank ELSE 0]]
ViewersSession(view) ==
  LET access == AccessFor(Viewer(view), IF view.kind = "moderator" THEN {view.channel} ELSE {})
  IN [role |-> access.role, channels |-> access.channels, user |-> TRUE]
=============================================================================
