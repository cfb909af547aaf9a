----------------------------- MODULE MCSettings -----------------------------
(***************************************************************************)
(* Two requests at a time, three in all, about one part of the settings.   *)
(***************************************************************************)
EXTENDS Settings

MCBadges == [caster |-> "broadcaster", mod |-> "moderator", vera |-> "everyone", sub |-> "subscriber", adam |-> "everyone",
             owner |-> "bot_owner"]

Ask(ask, door, who) == [Blank EXCEPT !.ask = ask, !.door = door, !.who = who]
Doors == {"chat", "web"}

Empty == [channel |-> NoFields, roles |-> << >>, members |-> << >>, admins |-> {"adam"}, modules |-> << >>,
          switches |-> << >>, rules |-> << >>, cooldowns |-> << >>, callbacks |-> << >>, ignored |-> << >>,
          triggers |-> << >>, filters |-> << >>, hosts |-> << >>, limits |-> NoFields]

Trig(expr, cooldown) == "expr" :> expr @@ "cooldown" :> cooldown
Word(pattern, action) == "pattern" :> pattern @@ "action" :> action

MCFirstTables(part) ==
  CASE part = "roles" -> [Empty EXCEPT !.roles = 1 :> [name |-> "low", rank |-> 10]]
    [] part = "rules" -> [Empty EXCEPT !.roles = 1 :> [name |-> "high", rank |-> 70], !.members = <<1, "vera">> :> TRUE]
    [] part = "channel" -> [Empty EXCEPT !.channel = "prefix" :> "!" @@ "automod_action" :> "off"
                                             @@ "automod_timeout_s" :> "600" @@ "publish_min_role" :> "moderator"]
    [] part = "triggers" -> [Empty EXCEPT !.triggers = 1 :> Row("here", "hello", Trig("a", 0)) @@ 2 :> Row("pack", "tick", Trig("a", 0))]
    [] part = "packs" -> [Empty EXCEPT !.triggers = 2 :> Row("pack", "tick", Trig("a", 0))]
    [] part = "filters" -> [Empty EXCEPT !.filters = 1 :> Row("here", "", Word("bad", "mask"))]
    [] part = "hosts" -> [Empty EXCEPT !.hosts = "api" :> ("plain" :> "no" @@ "secret" :> "none"),
                                        !.limits = "channel" :> 10 @@ "host" :> 60]
    [] OTHER -> Empty

MCRequests(part) ==
  CASE part = "roles" ->
         {[Ask("role.create", d, "caster") EXCEPT !.key = "low", !.num = n] : d \in Doors, n \in {10, 90}}
           \cup {[Ask("role.delete", "chat", "caster") EXCEPT !.key = "low"]}
           \cup {[Ask(a, d, "mod") EXCEPT !.key = "low", !.user = "vera"] : a \in {"role.add", "role.remove"}, d \in Doors}
    [] part = "rules" ->
         {[Ask("role.create", "web", "caster") EXCEPT !.key = "high", !.num = 10],
          [Ask("role.delete", "web", "caster") EXCEPT !.key = "high"],
          [Ask("perm.set", "chat", "mod") EXCEPT !.key = "pack", !.f = "required" :> "high"],
          [Ask("perm.allow", "chat", "mod") EXCEPT !.key = "cmd", !.f = "allowed" :> "high"],
          [Ask("perm.allow", "chat", "mod") EXCEPT !.key = "pack", !.f = "allowed" :> "high"],
          [Ask("perm.clear", "chat", "mod") EXCEPT !.key = "pack"],
          [Ask("rule", "web", "mod") EXCEPT !.key = "pack", !.f = "allowed" :> "high"],
          [Ask("rule", "web", "mod") EXCEPT !.key = "cmd", !.f = "required" :> "vip"],
          [Ask("rule", "web", "mod") EXCEPT !.key = "cmd", !.f = "required" :> "none"],
          [Ask("reset", "web", "mod") EXCEPT !.key = "pack"]}
    [] part = "switches" ->
         {[Ask("cmd", "chat", "mod") EXCEPT !.key = "cmd", !.f = "enabled" :> e] : e \in {"off", "inherit"}}
           \cup {[Ask("cmd", "chat", "mod") EXCEPT !.key = "cmd", !.f = "level" :> "all"],
                 [Ask("cmd", "chat", "adam") EXCEPT !.key = "cmd", !.scope = "everywhere", !.f = "enabled" :> "off"],
                 [Ask("rule", "web", "mod") EXCEPT !.key = "cmd", !.f = "enabled" :> "on" @@ "level" :> "off"],
                 [Ask("rule", "web", "mod") EXCEPT !.key = "cmd", !.f = "level" :> "off"],
                 [Ask("rule", "web", "mod") EXCEPT !.key = "cmd", !.num = 5, !.f = "enabled" :> "off" @@ "cooldown" :> "set"],
                 [Ask("cooldown", "chat", "mod") EXCEPT !.key = "cmd", !.num = 9],
                 [Ask("reset", "web", "mod") EXCEPT !.key = "cmd"]}
    [] part = "others" ->
         {[Ask("module", d, "adam") EXCEPT !.scope = s, !.f = "enabled" :> e] :
             d \in Doors, s \in {"here", "everywhere"}, e \in {"off", "inherit"}}
           \cup {[Ask("callback", d, "mod") EXCEPT !.key = "channel", !.f = "expr" :> e] : d \in Doors, e \in {"a", "none"}}
           \cup {[Ask(a, d, "owner") EXCEPT !.user = "vera"] : a \in {"admin.add", "admin.remove"}, d \in Doors}
    [] part = "ignored" ->
         {Ask("ignore.me", "chat", "vera"), Ask("unignore.me", "chat", "vera"),
          [Ask("ignore.remove", "web", "vera") EXCEPT !.user = "vera"],
          [Ask("ignore.remove", "web", "mod") EXCEPT !.user = "vera"],
          [Ask("ignore.add", "web", "mod") EXCEPT !.user = "vera"],
          [Ask("ignore.add", "chat", "mod") EXCEPT !.user = "vera"],
          [Ask("ignore.remove", "chat", "adam") EXCEPT !.user = "vera", !.scope = "everywhere"],
          [Ask("ignore.add", "web", "adam") EXCEPT !.user = "vera", !.scope = "everywhere"]}
    [] part = "channel" ->
         {[Ask("prefix", "chat", "mod") EXCEPT !.f = "prefix" :> "?"],
          [Ask("fields", "web", "mod") EXCEPT !.f = "prefix" :> "#" @@ "automod_action" :> "null"],
          [Ask("fields", "web", "caster") EXCEPT !.f = "prefix" :> "#" @@ "publish_min_role" :> "vip"],
          [Ask("fields", "web", "mod") EXCEPT !.f = "publish_min_role" :> "vip"],
          [Ask("automod", "chat", "mod") EXCEPT !.f = "automod_action" :> "delete"],
          [Ask("automod", "chat", "mod") EXCEPT !.f = "automod_action" :> "timeout" @@ "automod_timeout_s" :> "60"]}
    [] part = "triggers" ->
         {[Ask("trigger.add", d, "mod") EXCEPT !.key = "hello", !.f = Trig("b", 0)] : d \in Doors}
           \cup {[Ask("trigger.edit", "chat", "mod") EXCEPT !.key = "hello", !.f = "cooldown" :> 30],
                 [Ask("trigger.edit", "web", "mod") EXCEPT !.id = 1, !.f = "expr" :> "c"],
                 [Ask("trigger.edit", "web", "mod") EXCEPT !.id = 1, !.f = "cooldown" :> 5 @@ "enabled" :> "off"],
                 [Ask("trigger.edit", "web", "mod") EXCEPT !.id = 2, !.f = "enabled" :> "off"],
                 [Ask("trigger.enable", "chat", "mod") EXCEPT !.key = "hello", !.f = "enabled" :> "off"],
                 [Ask("trigger.enable", "chat", "mod") EXCEPT !.id = 1, !.f = "enabled" :> "on"],
                 [Ask("trigger.remove", "chat", "mod") EXCEPT !.id = 1],
                 [Ask("trigger.remove", "web", "mod") EXCEPT !.id = 1]}
    [] part = "packs" ->
         {[Ask("pack.set", d, "mod") EXCEPT !.key = k, !.f = "expr" :> "b"] : d \in Doors, k \in {"tick", "tock"}}
           \cup {[Ask("pack.edit", d, "mod") EXCEPT !.key = "tick", !.f = "cooldown" :> 30] : d \in Doors}
           \cup {[Ask("pack.edit", "chat", "mod") EXCEPT !.key = "tick", !.f = "enabled" :> "off"],
                 [Ask("pack.edit", "web", "mod") EXCEPT !.key = "tick", !.f = "cooldown" :> 5 @@ "enabled" :> "off"],
                 [Ask("pack.remove", "chat", "mod") EXCEPT !.key = "tick"],
                 [Ask("pack.remove", "web", "mod") EXCEPT !.key = "tick"]}
    [] part = "filters" ->
         {[Ask("filter.add", "chat", "mod") EXCEPT !.f = Word("worse", "mask")],
          [Ask("filter.add", "web", "mod") EXCEPT !.f = Word("worse", "mask")],
          [Ask("filter.edit", "web", "mod") EXCEPT !.id = 1, !.f = "pattern" :> "good"],
          [Ask("filter.edit", "web", "mod") EXCEPT !.id = 1, !.f = "action" :> "block" @@ "enabled" :> "off"],
          [Ask("filter.enable", "chat", "mod") EXCEPT !.id = 1, !.f = "enabled" :> "off"],
          [Ask("filter.remove", "chat", "mod") EXCEPT !.id = 1],
          [Ask("filter.remove", "web", "mod") EXCEPT !.id = 1]}
    [] part = "hosts" ->
         {[Ask("host.allow", d, "owner") EXCEPT !.key = "api", !.f = "plain" :> "yes"] : d \in Doors}
           \cup {[Ask("host.deny", d, "owner") EXCEPT !.key = "api"] : d \in Doors}
           \cup {[Ask("host.secret", "web", "owner") EXCEPT !.key = "api", !.f = "secret" :> "set"],
                 [Ask("host.secret", "chat", "owner") EXCEPT !.key = "api", !.f = "secret" :> "none"],
                 [Ask("limits", "chat", "owner") EXCEPT !.f = "channel" :> 20],
                 [Ask("limits", "web", "owner") EXCEPT !.f = "host" :> 30]}
=============================================================================
