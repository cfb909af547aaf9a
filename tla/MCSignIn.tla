------------------------------ MODULE MCSignIn ------------------------------
EXTENDS SignIn, TLC

CONSTANTS b1, r1, r2, s1, s2, t1, t2, k1, ours, theirs

Person(admin, rank) == [admin |-> admin, own |-> ours, joined |-> Channel, custom |-> (ours :> 0) @@ (theirs :> rank)]
NotHere == [Person(FALSE, 45) EXCEPT !.joined = {}]

Boss == [person |-> Person(TRUE, 0), moderates |-> {}, revoked |-> FALSE]
Mod == [person |-> Person(FALSE, 0), moderates |-> {theirs}, revoked |-> FALSE]   \* and the owner of the other
Gone == [person |-> NotHere, moderates |-> {}, revoked |-> FALSE]                 \* the bot left the channels
Left == [Mod EXCEPT !.revoked = TRUE]                                             \* the grant is taken back

\* Twitch alone; vex-auth alone; Twitch, the password and keys.
MCConfig ==
  LET C(provider, password, keyed, worlds) ==
        [provider |-> provider, password |-> password, networks |-> "local", keys |-> keyed, worlds |-> worlds]
  IN {C("twitch", FALSE, FALSE, {Boss, Mod, Gone}), C("twitch", FALSE, FALSE, {Mod, Left}),
      C("vex", FALSE, FALSE, {Boss, Left}),
      C(None, TRUE, TRUE, {Boss, Mod}), C("twitch", TRUE, FALSE, {Mod, Left})}

R(scope, area, channel, min, role) == [scope |-> scope, area |-> area, channel |-> channel, min |-> min, role |-> role]
MCRoute ==
  {R("read", "personal", None, 0, None), R("write", "personal", None, 0, None), R("read", "admin", None, 0, None),
   R("read", "channel", theirs, Moderator, None), R("write", "channel", theirs, Moderator, None),
   R("write", "channel", ours, Broadcaster, None), R("read", "channel", theirs, Broadcaster, None),
   R("read", "channel", theirs, Moderator, "regular")}
=============================================================================
