-------------------------- MODULE SettingsRequests --------------------------
(***************************************************************************)
(* What each command of `core_admin`, `automod`, `automation` and `filters`*)
(* and each route of the API checks in memory, and the calls it then makes *)
(* of the services.  A handler gives a sequence of calls, each the writes  *)
(* of one `mutate` or of one method of a registry; an empty sequence is a  *)
(* refusal, or a request with nothing to change.                           *)
(***************************************************************************)
EXTENDS Registries

CONSTANT Badges  \* The badge each chatter has in the channel.

Call(service, writes) == [service |-> service, writes |-> writes]
Change(w) == <<Call("policy", <<w>>)>>
One(service, w) == <<Call(service, <<w>>)>>
Refused == << >>
When(allowed, calls) == IF allowed THEN calls ELSE Refused

Rank(m, q) == RankOfChatter(m, q.who, Badges[q.who])

\* The bot-wide scope is a bot admin's.
ScopeAllowed(m, q) == q.scope # "everywhere" \/ Rank(m, q) >= 1000

-----------------------------------------------------------------------------
(* Roles.                                                                  *)

ManagesRole(m, q, role) == CanManage(Rank(m, q), q.who = Broadcaster, role)

RoleChange(m, q) ==
  LET found == RoleNamed(m, q.key)
      id == CHOOSE i \in found : TRUE
      w == [q EXCEPT !.op = q.ask, !.id = id, !.rank = Rank(m, q)]
  IN IF q.ask = "role.create"
     THEN When(found = {} /\ ManagesRole(m, q, q.num), Change([q EXCEPT !.op = q.ask]))
     ELSE IF found = {} THEN Refused ELSE When(ManagesRole(m, q, m.roles[id].rank), Change(w))

\* Both check and write alike; chat makes the channel's row first, which a joined channel has.
RoleCommand(m, q) == RoleChange(m, q)
RoleRoutes(m, q) == RoleChange(m, q)

-----------------------------------------------------------------------------
(* Who may use a command, when and how often.                              *)

Known(m, q, roles) == \A r \in roles : RankOf(m, r) # NoRank /\ ~BelowFloor(m, q.key, r)

\* "allow" keeps what the command requires as it is in memory, which is then the stored rule.
PermCommand(m, q) ==
  IF q.ask = "perm.clear" THEN Change([q EXCEPT !.op = "rule", !.f = Rule("none", "none")])
  ELSE LET role == IF q.ask = "perm.set" THEN q.f["required"] ELSE q.f["allowed"]
           rule == IF q.ask = "perm.set" THEN Rule(role, "none")
                   ELSE Rule(Requires(m, q.scope, q.key)["required"], role)
       IN When(Known(m, q, {role}), Change([q EXCEPT !.op = "rule", !.f = rule]))

CooldownCommand(m, q) == Change([q EXCEPT !.op = "cooldown"])

CmdCommand(m, q) ==
  When("level" \in DOMAIN q.f \/ (q.key # "pack" /\ ScopeAllowed(m, q)), Change([q EXCEPT !.op = "switch"]))

\* One change of a command's switch, rule and cooldown, each only if it is sent.
Only(f, fields) == Restrict(f, DOMAIN f \cap fields)

RuleRoute(m, q) ==
  LET switch == Only(q.f, {"enabled", "level"})
      rule == Only(q.f, {"required", "allowed"})
      writes == (IF DOMAIN switch = {} THEN << >> ELSE <<[q EXCEPT !.op = "switch", !.f = switch]>>)
             \o (IF DOMAIN rule = {} THEN << >> ELSE <<[q EXCEPT !.op = "rule.sent", !.f = rule]>>)
             \o (IF "cooldown" \in DOMAIN q.f THEN <<[q EXCEPT !.op = "cooldown"]>> ELSE << >>)
  IN When("enabled" \in DOMAIN q.f => q.key # "pack",
          When(Known(m, q, {rule[x] : x \in DOMAIN rule} \ {"none"}), <<Call("policy", writes)>>))

\* What isn't sent is as memory has it when it is written, within the floor; with no role it is the command's own.
RuleSent(m, w) ==
  LET now == Requires(m, w.scope, w.key)
      rule == w.f @@ now
  IN IF rule["required"] = "none" THEN Rule("none", "none") ELSE rule

ResetRoute(m, q) ==
  LET cleared == {"required"} \cup (IF q.key = "pack" THEN {} ELSE {"enabled"})
                   \cup (IF <<q.scope, q.key>> \in DOMAIN m.cooldowns THEN {"cooldown"} ELSE {})
      f == [x \in cleared |-> IF x = "enabled" THEN "inherit" ELSE "none"]
  IN RuleRoute(m, [q EXCEPT !.f = f])

ModuleCommand(m, q) == When(ScopeAllowed(m, q), Change([q EXCEPT !.op = "module"]))
ModuleRoute(m, q) == When(ScopeAllowed(m, q), Change([q EXCEPT !.op = "module"]))

CallbackCommand(m, q) == Change([q EXCEPT !.op = "callback"])
CallbackRoutes(m, q) ==
  When(q.f["expr"] = "none" => q.key \in DOMAIN m.callbacks, Change([q EXCEPT !.op = "callback"]))

-----------------------------------------------------------------------------
(* Whom the bot hears, and who manages it.                                 *)

IgnoreCommand(m, q) ==
  IF q.ask = "ignore.me" THEN Change([q EXCEPT !.op = "ignore", !.user = q.who])
  ELSE When(Rank(m, q) >= 80 /\ ScopeAllowed(m, q),
            Change([q EXCEPT !.op = IF q.ask = "ignore.add" THEN "ignore" ELSE "hear"]))

Unignore(m, q) == When(IgnoredBy(m, "here", q.who) = q.who, Change([q EXCEPT !.op = "hear", !.user = q.who]))

IgnoreRoutes(m, q) ==
  LET own == q.user = q.who /\ q.scope = "here"
      manages == Rank(m, q) >= 80
      by == IgnoredBy(m, q.scope, q.user)
  IN IF q.ask = "ignore.add" THEN When(manages /\ ScopeAllowed(m, q), Change([q EXCEPT !.op = "ignore"]))
     ELSE When(ScopeAllowed(m, q) /\ by # "none" /\ (manages \/ (own /\ by = q.user)),
               Change([q EXCEPT !.op = "hear"]))

AdminCommand(m, q) == When(Rank(m, q) >= 10000, Change([q EXCEPT !.op = "admin"]))
AdminRoutes(m, q) ==
  When(Rank(m, q) >= 10000 /\ (q.ask = "admin.remove" => q.user \in m.admins), Change([q EXCEPT !.op = "admin"]))

-----------------------------------------------------------------------------
(* The channel's own fields.                                               *)

FieldRank(column) == IF column = "publish_min_role" THEN 100 ELSE 80

Field(q, column) == [q EXCEPT !.op = "field", !.key = column]
FieldSent(q, column) == IF column \in DOMAIN q.f THEN <<Field(q, column)>> ELSE << >>

PrefixCommand(m, q) == Change(Field(q, "prefix"))

\* A change of its own for each, the seconds first.
AutomodCommand(m, q) ==
  When(Rank(m, q) >= 80,
       (IF "automod_timeout_s" \in DOMAIN q.f THEN Change(Field(q, "automod_timeout_s")) ELSE << >>)
         \o Change(Field(q, "automod_action")))

\* One change for all, a transaction for each; one field above the caller's rank refuses them all.
FieldRoute(m, q) ==
  LET writes == FieldSent(q, "prefix") \o FieldSent(q, "automod_action")
                  \o FieldSent(q, "automod_timeout_s") \o FieldSent(q, "publish_min_role")
  IN When(writes # << >> /\ \A c \in DOMAIN q.f : Rank(m, q) >= FieldRank(c), <<Call("policy", writes)>>)

-----------------------------------------------------------------------------
(* Triggers: a channel's own are changed by id, or a listener by its name. *)

Trigger(w, op) == One("triggers", [w EXCEPT !.op = op])
TriggerId(m, q) ==
  IF q.key = "" THEN {q.id} ELSE IF ListenerNamed(m, q.key) = {} THEN {} ELSE {CHOOSE i \in ListenerNamed(m, q.key) : TRUE}

\* Whether memory has it as the channel's own, or doesn't have it at all; a pack's is refused.
Own(m, i) == i \in InChannel(m) /\ m.triggers[i].scope = "here"
Free(m, i) == i \in InChannel(m) => Own(m, i)

\* Fields that aren't given are written as memory has them.
Edited(m, q, i, f) ==
  LET new == f @@ m.triggers[i].f
  IN IF new = m.triggers[i].f THEN << >> ELSE Trigger([q EXCEPT !.id = i, !.f = new], "trigger.update")

AddCommand(m, q) == When(ListenerNamed(m, q.key) = {}, Trigger(q, "trigger.add"))

RemoveOrToggle(m, q) ==
  LET ids == {i \in TriggerId(m, q) : Free(m, i)}
  IN IF ids = {} THEN Refused ELSE Trigger([q EXCEPT !.id = CHOOSE i \in ids : TRUE], q.ask)

CooldownOfTrigger(m, q) ==
  LET ids == {i \in TriggerId(m, q) : Own(m, i)}
  IN IF ids = {} THEN Refused ELSE Edited(m, q, CHOOSE i \in ids : TRUE, q.f)

PatchTrigger(m, q) ==
  LET f == Only(q.f, {"expr", "cooldown"})
      enable == IF "enabled" \in DOMAIN q.f THEN Trigger(q, "trigger.enable") ELSE << >>
  IN IF DOMAIN f = {} THEN When(Free(m, q.id), enable)
     ELSE IF Own(m, q.id) THEN Edited(m, q, q.id, f) \o enable ELSE Refused

TriggerCommands(m, q) ==
  IF q.ask = "trigger.add" THEN AddCommand(m, q)
  ELSE IF q.ask = "trigger.edit" THEN CooldownOfTrigger(m, q) ELSE RemoveOrToggle(m, q)

TriggerRoutes(m, q) ==
  IF q.ask = "trigger.add" THEN Trigger(q, "trigger.add")
  ELSE IF q.ask = "trigger.edit" THEN PatchTrigger(m, q) ELSE When(Free(m, q.id), Trigger(q, "trigger.remove"))

\* A pack's triggers are its owner's, and changed by their key.
SetPackTrigger(m, q) ==
  LET found == PackTrigger(m, q.key)
      held == "cooldown" :> IF found = {} THEN 0 ELSE m.triggers[CHOOSE i \in found : TRUE].f["cooldown"]
  IN When(found # {} \/ Cardinality(PackTriggers(m)) < MaxPackTriggers,
          Trigger([q EXCEPT !.f = @ @@ held], "pack.set"))

PackCooldown(m, q) ==
  LET found == PackTrigger(m, q.key)
      id == CHOOSE i \in found : TRUE
  IN When(found # {} /\ q.f["cooldown"] # m.triggers[id].f["cooldown"],
          Trigger([q EXCEPT !.id = id, !.f = Only(@, {"cooldown"})], "pack.edit"))

PackTriggerCommand(m, q) ==
  CASE q.ask = "pack.set" -> SetPackTrigger(m, q)
    [] q.ask = "pack.edit" ->
         IF "cooldown" \in DOMAIN q.f THEN PackCooldown(m, q) ELSE Trigger(q, "pack.enable")
    [] q.ask = "pack.remove" -> Trigger(q, "pack.remove")

PackTriggerRoutes(m, q) ==
  CASE q.ask = "pack.set" -> SetPackTrigger(m, q)
    [] q.ask = "pack.edit" ->
         When(PackTrigger(m, q.key) # {},
              (IF "cooldown" \in DOMAIN q.f THEN PackCooldown(m, q) ELSE << >>)
                \o (IF "enabled" \in DOMAIN q.f THEN Trigger(q, "pack.enable") ELSE << >>))
    [] q.ask = "pack.remove" -> When(PackTrigger(m, q.key) # {}, Trigger(q, "pack.remove"))

-----------------------------------------------------------------------------
(* The word filter and the hosts.                                          *)

Filter(w, op) == One("filters", [w EXCEPT !.op = op])

FilterCommand(m, q) == When(ScopeAllowed(m, q), Filter(q, q.ask))

\* Fields that aren't sent are written as memory has them.
PatchFilter(m, q) ==
  LET f == Only(q.f, {"pattern", "action"})
      enable == IF "enabled" \in DOMAIN q.f THEN Filter(q, "filter.enable") ELSE << >>
  IN IF DOMAIN f = {} THEN enable
     ELSE IF ~FilterRow(q, m) THEN Refused
     ELSE LET new == f @@ m.filters[q.id].f
          IN (IF new = m.filters[q.id].f THEN << >> ELSE Filter([q EXCEPT !.f = new], "filter.update")) \o enable

FilterRoutes(m, q) == IF q.ask = "filter.edit" THEN PatchFilter(m, q) ELSE Filter(q, q.ask)

HostMethods(m, q) ==
  CASE q.ask = "host.allow" -> One("hosts", [q EXCEPT !.op = q.ask])
    [] q.ask \in {"host.deny", "host.secret"} -> When(q.key \in DOMAIN m.hosts, One("hosts", [q EXCEPT !.op = q.ask]))
    [] q.ask = "limits" -> One("hosts", [q EXCEPT !.op = q.ask, !.f = @ @@ m.limits])

\* Chat can only clear a secret; both are the bot owner's.
HostCommand(m, q) == When(q.ask = "host.secret" => q.f["secret"] = "none", HostMethods(m, q))
HostRoutes(m, q) == HostMethods(m, q)
=============================================================================
