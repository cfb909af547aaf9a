---------------------------- MODULE PolicyTables ----------------------------
(***************************************************************************)
(* The policy tables of one channel and of every channel (ADR-0006): what  *)
(* the runtime reads from them and what each repository write does to      *)
(* them.  `t` is the tables, `m` the snapshot the runtime holds of them;   *)
(* both have the same shape.  A write is a record `w`; it gives whether    *)
(* the transaction succeeds, the tables after it and the rows its audit    *)
(* entries are about.                                                      *)
(*                                                                         *)
(* A row that can be changed a field at a time keeps its fields in a       *)
(* function.  Two commands stand for all: "cmd" is built in, "pack" is a   *)
(* pack's member, whose required role is a floor (ADR-0033).               *)
(***************************************************************************)
EXTENDS Integers, FiniteSets, Sequences, SequencesExt, TLC

NoFields == [x \in {} |-> "none"]

CONSTANT Broadcaster

\* What a request asks for, and each write it leads to.
Blank == [ask |-> "", door |-> "chat", who |-> "", scope |-> "here", key |-> "", user |-> "",
          num |-> 0, f |-> NoFields, op |-> "", id |-> 0, rank |-> 0]

Put(rows, key, row) == [k \in DOMAIN rows \cup {key} |-> IF k = key THEN row ELSE rows[k]]
Without(rows, keys) == Restrict(rows, DOMAIN rows \ keys)

Done(t, said) == [ok |-> TRUE, t |-> t, said |-> said]
Fails(t) == [ok |-> FALSE, t |-> t, said |-> {}]

-----------------------------------------------------------------------------
(* Ranks.                                                                  *)

BuiltinRanks == [everyone |-> 0, subscriber |-> 20, vip |-> 60, moderator |-> 80,
                 broadcaster |-> 100, bot_admin |-> 1000, bot_owner |-> 10000]
NoRank == -1

\* What a role made in a channel may be called, and its rank.
CustomRanks == 1..99
CustomName(name) == name \notin DOMAIN BuiltinRanks \cup {"none"}

RoleNamed(m, name) == {i \in DOMAIN m.roles : m.roles[i].name = name}

RankOf(m, name) ==
  IF RoleNamed(m, name) # {} THEN m.roles[CHOOSE i \in RoleNamed(m, name) : TRUE].rank
  ELSE IF name \in DOMAIN BuiltinRanks THEN BuiltinRanks[name] ELSE NoRank

\* A chatter's roles: the badge's, the custom ones held here and the bot admins'.
RolesOf(m, user, badge) ==
  {"everyone", badge} \cup {m.roles[i].name : i \in {i \in DOMAIN m.roles : <<i, user>> \in DOMAIN m.members}}
    \cup (IF user \in m.admins THEN {"bot_admin"} ELSE {})

RankOfChatter(m, user, badge) == Max({RankOf(m, r) : r \in RolesOf(m, user, badge)})

\* Only roles ranked below one's own; the broadcaster manages all of the channel's.
CanManage(rank, isBroadcaster, role) == (isBroadcaster /\ role \in CustomRanks) \/ role < rank

-----------------------------------------------------------------------------
(* Rules.                                                                  *)

Floor(command) == IF command = "pack" THEN "vip" ELSE "none"
SpecRole(command) == IF command = "pack" THEN "vip" ELSE "everyone"
Rule(required, allowed) == [required |-> required, allowed |-> allowed]

BelowFloor(m, command, role) ==
  Floor(command) # "none" /\ RankOf(m, role) < RankOf(m, Floor(command))

\* The rule that applies: the channel's, else the bot-wide one.
RuleFor(m, scope, command) ==
  IF <<scope, command>> \in DOMAIN m.rules THEN m.rules[<<scope, command>>]
  ELSE IF <<"everywhere", command>> \in DOMAIN m.rules THEN m.rules[<<"everywhere", command>>]
  ELSE Rule("none", "none")

\* Mutant: the floor is only looked at when a rule is written.
RequiresAsStored(m, scope, command) ==
  LET rule == RuleFor(m, scope, command)
  IN Rule(IF rule["required"] = "none" THEN SpecRole(command) ELSE rule["required"], rule["allowed"])

\* What a command requires, and who else may use it: a pack's rank is a floor under both.
Requires(m, scope, command) ==
  LET rule == RuleFor(m, scope, command)
      stated == IF rule["required"] = "none" THEN SpecRole(command) ELSE rule["required"]
  IN Rule(IF BelowFloor(m, command, stated) THEN Floor(command) ELSE stated,
          IF rule["allowed"] # "none" /\ BelowFloor(m, command, rule["allowed"]) THEN "none" ELSE rule["allowed"])

Permits(m, command, user, badge) ==
  LET rule == Requires(m, "here", command)
      needed == RankOf(m, rule["required"])
  IN \/ rule["allowed"] \in RolesOf(m, user, badge)
     \/ needed # NoRank /\ RankOfChatter(m, user, badge) >= needed

ModuleOn(m) ==
  /\ ~("everywhere" \in DOMAIN m.modules /\ m.modules["everywhere"] = "off")
  /\ "here" \in DOMAIN m.modules => m.modules["here"] = "on"

IgnoredBy(m, scope, user) ==
  IF <<scope, user>> \in DOMAIN m.ignored THEN m.ignored[<<scope, user>>] ELSE "none"

\* The dispatcher hears nobody who is ignored, but a self-ignored chatter's `unignore me`.
Heard(m, q) ==
  LET by == {IgnoredBy(m, s, q.who) : s \in {"here", "everywhere"}} \ {"none"}
  IN by = {} \/ (by = {q.who} /\ q.ask = "unignore.me")

-----------------------------------------------------------------------------
(* Writes: each is one transaction together with its audit row.            *)

\* A NULL is refused by the column.
SetField(w, t) ==
  IF w.f[w.key] = "null" THEN Fails(t) ELSE Done([t EXCEPT !.channel[w.key] = w.f[w.key]], {<<"channel", w.key>>})

CreateRole(w, t, new) ==
  IF RoleNamed(t, w.key) # {} THEN Fails(t)  \* UNIQUE (channel_id, name)
  ELSE Done([t EXCEPT !.roles = Put(@, new, [name |-> w.key, rank |-> w.num])], {<<"roles", new>>})

\* The memberships go with it.
DeleteRole(w, t) ==
  IF w.id \notin DOMAIN t.roles THEN Done(t, {})
  ELSE Done([t EXCEPT !.roles = Without(@, {w.id}),
                      !.members = Without(@, {x \in DOMAIN t.members : x[1] = w.id})], {<<"roles", w.id>>})

\* `above` keeps, for the properties, whether whoever gave the role could manage it.
AddMember(w, t) ==
  IF w.id \notin DOMAIN t.roles THEN Fails(t)  \* the foreign key
  ELSE LET above == CanManage(w.rank, w.who = Broadcaster, t.roles[w.id].rank)
       IN Done([t EXCEPT !.members = Put(@, <<w.id, w.user>>, above)], {<<"members", <<w.id, w.user>>>>})

RemoveMember(w, t) ==
  IF <<w.id, w.user>> \notin DOMAIN t.members THEN Done(t, {})
  ELSE Done([t EXCEPT !.members = Without(@, {<<w.id, w.user>>})], {<<"members", <<w.id, w.user>>>>})

SetAdmin(w, t) ==
  Done([t EXCEPT !.admins = IF w.ask = "admin.add" THEN @ \cup {w.user} ELSE @ \ {w.user}], {<<"admins", w.user>>})

SetModule(w, t) ==
  Done([t EXCEPT !.modules = IF w.f["enabled"] = "inherit" THEN Without(@, {w.scope})
                             ELSE Put(@, w.scope, w.f["enabled"])], {<<"modules", w.scope>>})

\* Mutant: what isn't given is written as unset.
SetSwitchWhole(w, t) ==
  LET key == <<w.scope, w.key>>
      unset == "enabled" :> "inherit" @@ "level" :> "none"
      row == w.f @@ unset
  IN Done([t EXCEPT !.switches = IF row = unset THEN Without(@, {key}) ELSE Put(@, key, row)], {<<"switches", key>>})

\* The row is read in the transaction, so what isn't given stays as it is now.
SetSwitch(w, t) ==
  LET key == <<w.scope, w.key>>
      unset == "enabled" :> "inherit" @@ "level" :> "none"
      row == w.f @@ (IF key \in DOMAIN t.switches THEN t.switches[key] ELSE unset)
  IN Done([t EXCEPT !.switches = IF row = unset THEN Without(@, {key}) ELSE Put(@, key, row)], {<<"switches", key>>})

SetRule(w, t) ==
  LET key == <<w.scope, w.key>>
  IN Done([t EXCEPT !.rules = IF w.f = Rule("none", "none") THEN Without(@, {key}) ELSE Put(@, key, w.f)],
          {<<"rules", key>>})

SetCooldown(w, t) ==
  LET key == <<w.scope, w.key>>
  IN Done([t EXCEPT !.cooldowns = IF w.num = 0 THEN Without(@, {key}) ELSE Put(@, key, w.num)],
          {<<"cooldowns", key>>})

SetCallback(w, t) ==
  Done([t EXCEPT !.callbacks = IF w.f["expr"] = "none" THEN Without(@, {w.key}) ELSE Put(@, w.key, w.f["expr"])],
       {<<"callbacks", w.key>>})

SetIgnored(w, t) ==
  LET key == <<w.scope, w.user>>
  IN Done([t EXCEPT !.ignored = IF w.op = "ignore" THEN Put(@, key, w.who) ELSE Without(@, {key})],
          {<<"ignored", key>>})
=============================================================================
