------------------------------ MODULE Settings ------------------------------
(***************************************************************************)
(* The policy service, the trigger, filter and host registries, and the    *)
(* chat commands and web requests that change them (ADR-0006, ADR-0029).   *)
(*                                                                         *)
(* A request checks what is in memory, may look up a user, then makes its  *)
(* calls.  A policy call holds the policy's lock over its transactions and *)
(* the reload; a registry's call is one transaction and a reload beside    *)
(* whatever else runs, on the connection everything shares: a reload sees  *)
(* the uncommitted rows of whichever transaction is open.                  *)
(*                                                                         *)
(* A chat command is cut where its stage times out; a web request is not.  *)
(* The requests of one behaviour are about one part of the settings, its   *)
(* `theme`: what is written under one part is never read for another.      *)
(***************************************************************************)
EXTENDS SettingsRequests

CONSTANTS Slots, MaxRequests,
          Themes, FirstTables(_), Requests(_)  \* The tables and the requests of each theme.

VARIABLES tables, memory,
          open,      \* The transaction on the connection.
          lock,      \* Who holds the policy's write lock.
          runs,      \* What each request is doing.
          theme, lastId,
          behind,    \* Services whose memory isn't brought up to date before the next change.
          asked

vars == <<tables, memory, open, lock, runs, theme, lastId, behind, asked>>

None == 0
NoTransaction == [run |-> None]
Services == {"policy", "triggers", "filters", "hosts"}
PartsOf(service) ==
  CASE service = "policy" -> {"channel", "roles", "members", "admins", "modules", "switches", "rules",
                              "cooldowns", "callbacks", "ignored"}
    [] service = "triggers" -> {"triggers"}
    [] service = "filters" -> {"filters"}
    [] service = "hosts" -> {"hosts", "limits"}
Parts == UNION {PartsOf(s) : s \in Services}
ServiceOf(part) == CHOOSE s \in Services : part \in PartsOf(s)

\* The requests there are: a role's name and rank are looked at first of all, a filter is edited from the web
\* only, and a rule sends something to change.
Asks == {"role.create", "role.delete", "role.add", "role.remove", "perm.set", "perm.allow", "perm.clear", "rule", "reset",
         "cooldown", "cmd", "module", "callback", "ignore.me", "ignore.add", "ignore.remove", "unignore.me", "admin.add",
         "admin.remove", "prefix", "automod", "fields", "trigger.add", "trigger.edit", "trigger.enable", "trigger.remove",
         "pack.set", "pack.edit", "pack.remove", "filter.add", "filter.edit", "filter.enable", "filter.remove",
         "host.allow", "host.deny", "host.secret", "limits"}
Request(q) ==
  /\ DOMAIN q = DOMAIN Blank
  /\ q.ask \in Asks
  /\ q.ask = "role.create" => CustomName(q.key) /\ q.num \in CustomRanks
  /\ q.ask = "filter.edit" => q.door = "web"
  /\ q.ask = "rule" => DOMAIN q.f \cap {"enabled", "level", "required", "allowed", "cooldown"} # {}

ASSUME RequestsAssumption == \A th \in Themes : \A q \in Requests(th) : Request(q)

\* Every part is there, and the triggers' rows are a function of their ids.
Tables(t) ==
  /\ DOMAIN t = Parts
  /\ t = [p \in Parts |-> t[p]]
  /\ t["triggers"] = [i \in DOMAIN t["triggers"] |-> t["triggers"][i]]

ASSUME TablesAssumption == \A th \in Themes : Tables(FirstTables(th))

FirstId == 10
CustomRoles(roles) == \A i \in DOMAIN roles : CustomName(roles[i].name) /\ roles[i].rank \in CustomRanks

ASSUME RolesAssumption ==
  \A th \in Themes :
     /\ CustomRoles(FirstTables(th).roles)
     /\ DOMAIN FirstTables(th).roles \subseteq 1..FirstId
     /\ \A x \in DOMAIN FirstTables(th).members : FirstTables(th).members[x]
ASSUME BadgesAssumption == \A u \in DOMAIN Badges : Badges[u] \in DOMAIN BuiltinRanks

\* `wrote`: committed and not read again yet.  `mine`, `beside`: what it changed, and what others
\* changed that it may not have seen, for the properties.
Idle == [at |-> "idle", q |-> Blank, calls |-> << >>, wrote |-> FALSE, mine |-> {}, beside |-> {}]

-----------------------------------------------------------------------------
(* A setting as it applies: <<part, row, field>> and its value.            *)

Flat(part, rows) == {<<part, k, "row", rows[k]>> : k \in DOMAIN rows}
Columns(part, rows) ==  \* but for what is left to inherit
  UNION {{<<part, k, x, rows[k][x]>> : x \in {x \in DOMAIN rows[k] : rows[k][x] \notin {"none", "inherit"}}} : k \in DOMAIN rows}
OfEntries(part, rows) ==
  {<<part, i, "on", rows[i].enabled>> : i \in DOMAIN rows}
    \cup UNION {{<<part, i, x, rows[i].f[x]>> : x \in DOMAIN rows[i].f} : i \in DOMAIN rows}
OfRules(t) ==
  UNION {{<<"rules", c, x, Requires(t, "here", c)[x]>> : x \in {"required", "allowed"}} : c \in {"cmd", "pack"}}

Settings(t) ==
  {<<"channel", "row", x, t.channel[x]>> : x \in DOMAIN t.channel} \cup {<<"limits", "row", x, t.limits[x]>> : x \in DOMAIN t.limits}
    \cup Flat("roles", t.roles) \cup Flat("members", t.members) \cup Flat("modules", t.modules)
    \cup Flat("cooldowns", t.cooldowns) \cup Flat("callbacks", t.callbacks) \cup Flat("ignored", t.ignored)
    \cup {<<"admins", u, "row", "on">> : u \in t.admins}
    \cup Columns("switches", t.switches) \cup Columns("hosts", t.hosts)
    \cup OfEntries("triggers", t.triggers) \cup OfEntries("filters", t.filters) \cup OfRules(t)

Changes(t, u) ==
  LET a == Settings(t)
      b == Settings(u)
  IN {<<c[1], c[2], c[3]>> : c \in (a \ b) \cup (b \ a)}

-----------------------------------------------------------------------------

Init ==
  /\ theme \in Themes
  /\ tables = FirstTables(theme)
  /\ memory = FirstTables(theme)
  /\ open = NoTransaction
  /\ lock = None
  /\ runs = [r \in Slots |-> Idle]
  /\ lastId = FirstId
  /\ behind = {}
  /\ asked = 0

Busy(r) == runs[r].at # "idle"
Service(r) == Head(runs[r].calls).service

\* The calls of a request, from what is in memory when it comes.
Handled(m, q) ==
  LET chat == q.door = "chat"
  IN CASE q.ask \in {"role.create", "role.delete", "role.add", "role.remove"} ->
            IF chat THEN RoleCommand(m, q) ELSE RoleRoutes(m, q)
       [] q.ask \in {"perm.set", "perm.allow", "perm.clear"} -> PermCommand(m, q)
       [] q.ask = "rule" -> RuleRoute(m, q)
       [] q.ask = "reset" -> ResetRoute(m, q)
       [] q.ask = "cooldown" -> CooldownCommand(m, q)
       [] q.ask = "cmd" -> CmdCommand(m, q)
       [] q.ask = "module" -> IF chat THEN ModuleCommand(m, q) ELSE ModuleRoute(m, q)
       [] q.ask = "callback" -> IF chat THEN CallbackCommand(m, q) ELSE CallbackRoutes(m, q)
       [] q.ask \in {"ignore.me", "ignore.add", "ignore.remove"} ->
            IF chat THEN IgnoreCommand(m, q) ELSE IgnoreRoutes(m, q)
       [] q.ask = "unignore.me" -> Unignore(m, q)
       [] q.ask \in {"admin.add", "admin.remove"} -> IF chat THEN AdminCommand(m, q) ELSE AdminRoutes(m, q)
       [] q.ask = "prefix" -> PrefixCommand(m, q)
       [] q.ask = "automod" -> AutomodCommand(m, q)
       [] q.ask = "fields" -> FieldRoute(m, q)
       [] q.ask \in {"trigger.add", "trigger.edit", "trigger.enable", "trigger.remove"} ->
            IF chat THEN TriggerCommands(m, q) ELSE TriggerRoutes(m, q)
       [] q.ask \in {"pack.set", "pack.edit", "pack.remove"} ->
            IF chat THEN PackTriggerCommand(m, q) ELSE PackTriggerRoutes(m, q)
       [] q.ask \in {"filter.add", "filter.edit", "filter.enable", "filter.remove"} ->
            IF chat THEN FilterCommand(m, q) ELSE FilterRoutes(m, q)
       [] q.ask \in {"host.allow", "host.deny", "host.secret", "limits"} ->
            IF chat THEN HostCommand(m, q) ELSE HostRoutes(m, q)

\* The requests that ask Twitch who is meant, between what they checked and what they write.
LooksUp(q) ==
  \/ q.ask \in {"role.add", "role.remove", "ignore.add", "admin.add", "admin.remove"}
  \/ q.ask = "ignore.remove" /\ q.door = "chat"

Apply(w, t, m, new) ==
  CASE w.op = "field" -> SetField(w, t)
    [] w.op = "role.create" -> CreateRole(w, t, new)
    [] w.op = "role.delete" -> DeleteRole(w, t)
    [] w.op = "role.add" -> AddMember(w, t)
    [] w.op = "role.remove" -> RemoveMember(w, t)
    [] w.op = "admin" -> SetAdmin(w, t)
    [] w.op = "module" -> SetModule(w, t)
    [] w.op = "switch" -> SetSwitch(w, t)
    [] w.op = "rule" -> SetRule(w, t)
    [] w.op = "rule.sent" -> SetRule([w EXCEPT !.f = RuleSent(m, w)], t)
    [] w.op = "cooldown" -> SetCooldown(w, t)
    [] w.op = "callback" -> SetCallback(w, t)
    [] w.op \in {"ignore", "hear"} -> SetIgnored(w, t)
    [] w.op = "trigger.add" -> AddTrigger(w, t, new)
    [] w.op = "trigger.update" -> UpdateTrigger(w, t)
    [] w.op = "trigger.remove" -> RemoveTrigger(w, t)
    [] w.op = "trigger.enable" -> EnableTrigger(w, t)
    [] w.op = "pack.set" -> WritePackTrigger(w, t, new)
    [] w.op = "pack.edit" -> EditPackTrigger(w, t)
    [] w.op = "pack.enable" -> EnablePackTrigger(w, t)
    [] w.op = "pack.remove" -> RemovePackTrigger(w, t)
    [] w.op = "filter.add" -> AddFilter(w, t, new)
    [] w.op = "filter.update" -> UpdateFilter(w, t)
    [] w.op = "filter.remove" -> RemoveFilter(w, t)
    [] w.op = "filter.enable" -> EnableFilter(w, t)
    [] w.op = "host.allow" -> AllowHost(w, t)
    [] w.op = "host.deny" -> DenyHost(w, t)
    [] w.op = "host.secret" -> SetSecret(w, t)
    [] w.op = "limits" -> SetLimits(w, t)

-----------------------------------------------------------------------------
(* A request.                                                              *)

Unseen(r) ==
  UNION {runs[x].mine : x \in Slots \ {r}}
    \cup (IF open = NoTransaction THEN {} ELSE Changes(tables, open.t))
    \cup {<<c[1], c[2], c[3]>> : c \in {c \in Settings(tables) \cup Settings(memory) : ServiceOf(c[1]) \in behind}}

Begin(r, q) ==
  /\ ~Busy(r)
  /\ \A x \in Slots : x < r => Busy(x)
  /\ asked < MaxRequests
  /\ q.door = "chat" => Heard(memory, q)
  /\ LET calls == Handled(memory, q)
     IN /\ calls # Refused
        /\ runs' = [runs EXCEPT ![r] = [at |-> IF LooksUp(q) THEN "lookup" ELSE "ready", q |-> q, calls |-> calls,
                                        wrote |-> FALSE, mine |-> {}, beside |-> Unseen(r)]]
  /\ asked' = asked + 1
  /\ UNCHANGED <<tables, memory, open, lock, theme, lastId, behind>>

\* Twitch knows the user, or the request ends.
LookedUp(r) ==
  /\ runs[r].at = "lookup"
  /\ \/ runs' = [runs EXCEPT ![r].at = "ready"]
     \/ runs' = [runs EXCEPT ![r] = Idle]
  /\ UNCHANGED <<tables, memory, open, lock, theme, lastId, behind, asked>>

Unlocked(r) == IF lock = r THEN None ELSE lock
Stale(r) == IF runs[r].wrote THEN behind \cup {Service(r)} ELSE behind

\* The next write starts its transaction: the connection is free, and so is the policy's lock.  A write that
\* fails ends the request, and what it wrote before isn't read again.
Write(r) ==
  /\ runs[r].at = "ready"
  /\ open = NoTransaction
  /\ Service(r) = "policy" => lock \in {None, r}
  /\ LET w == Head(Head(runs[r].calls).writes)
         res == Apply(w, tables, memory, lastId + 1)
     IN \/ /\ res.ok
           /\ open' = [run |-> r, t |-> res.t, said |-> res.said, read |-> FALSE]
           /\ lock' = IF Service(r) = "policy" THEN r ELSE lock
           /\ runs' = [runs EXCEPT ![r].at = "open"]
           /\ UNCHANGED behind
        \/ /\ ~res.ok
           /\ behind' = Stale(r)
           /\ lock' = Unlocked(r)
           /\ runs' = [runs EXCEPT ![r] = Idle]
           /\ UNCHANGED open
  /\ LET w == Head(Head(runs[r].calls).writes)
     IN lastId' = IF w.op \in {"role.create", "trigger.add", "pack.set", "filter.add"} THEN lastId + 1 ELSE lastId
  /\ UNCHANGED <<tables, memory, theme, asked>>

\* The transaction ends; the next one of the call follows, or the reload.  A registry's write that
\* touched no row ends its call.
Ended(run) == IF Len(run.calls) = 1 THEN Idle ELSE [run EXCEPT !.at = "ready", !.calls = Tail(@), !.wrote = FALSE]

\* Mutant: a filter that is turned on or off isn't read again.
CommitWithoutReload(r) ==
  /\ runs[r].at = "open"
  /\ LET changed == Changes(tables, open.t)
         writes == Tail(Head(runs[r].calls).writes)
         run == [runs[r] EXCEPT !.mine = @ \cup changed]
         left == IF writes # << >> THEN [run EXCEPT !.at = "ready", !.calls[1].writes = writes, !.wrote = TRUE]
                 ELSE IF Service(r) # "policy" /\ (open.said = {} \/ Head(Head(runs[r].calls).writes).op = "filter.enable") THEN Ended(run)
                 ELSE [run EXCEPT !.at = "reload", !.wrote = TRUE]
     IN runs' = [x \in Slots |-> IF x = r THEN left
                                 ELSE IF Busy(x) THEN [runs[x] EXCEPT !.beside = @ \cup changed] ELSE runs[x]]
  /\ tables' = open.t
  /\ open' = NoTransaction
  /\ UNCHANGED <<memory, lock, theme, lastId, behind, asked>>

Commit(r) ==
  /\ runs[r].at = "open"
  /\ LET changed == Changes(tables, open.t)
         writes == Tail(Head(runs[r].calls).writes)
         run == [runs[r] EXCEPT !.mine = @ \cup changed]
         left == IF writes # << >> THEN [run EXCEPT !.at = "ready", !.calls[1].writes = writes, !.wrote = TRUE]
                 ELSE IF Service(r) # "policy" /\ open.said = {} THEN Ended(run)
                 ELSE [run EXCEPT !.at = "reload", !.wrote = TRUE]
     IN runs' = [x \in Slots |-> IF x = r THEN left
                                 ELSE IF Busy(x) THEN [runs[x] EXCEPT !.beside = @ \cup changed] ELSE runs[x]]
  /\ tables' = open.t
  /\ open' = NoTransaction
  /\ UNCHANGED <<memory, lock, theme, lastId, behind, asked>>

\* Every row of the service is read again, those of an open transaction as it has them.
Reload(r) ==
  /\ runs[r].at = "reload"
  /\ LET seen == IF open = NoTransaction THEN tables ELSE open.t
     IN memory' = [p \in DOMAIN memory |-> IF p \in PartsOf(Service(r)) THEN seen[p] ELSE memory[p]]
  /\ open' = IF open = NoTransaction THEN open ELSE [open EXCEPT !.read = TRUE]
  /\ behind' = behind \ {Service(r)}
  /\ lock' = Unlocked(r)
  /\ runs' = [runs EXCEPT ![r] = Ended(@)]
  /\ UNCHANGED <<tables, theme, lastId, asked>>

\* A chat command's stage times out: its transaction is rolled back, its lock given back, its reload left out.
Cut(r) ==
  /\ Busy(r)
  /\ runs[r].q.door = "chat"
  /\ behind' = IF runs[r].at = "open" /\ open.read THEN behind \cup {Service(r)} ELSE Stale(r)
  /\ open' = IF runs[r].at = "open" THEN NoTransaction ELSE open
  /\ lock' = Unlocked(r)
  /\ runs' = [runs EXCEPT ![r] = Idle]
  /\ UNCHANGED <<tables, memory, theme, lastId, asked>>

\* The process ends and starts: everything is read from the tables.
Restart ==
  /\ \E r \in Slots : Busy(r)
  /\ memory' = tables
  /\ open' = NoTransaction
  /\ lock' = None
  /\ runs' = [r \in Slots |-> Idle]
  /\ behind' = {}
  /\ UNCHANGED <<tables, theme, lastId, asked>>

\* Every request was answered; anything else that stops is a lock that is kept.
AllAnswered ==
  /\ asked = MaxRequests
  /\ \A r \in Slots : ~Busy(r)
  /\ UNCHANGED vars

Next ==
  \/ \E r \in Slots : \E q \in Requests(theme) : Begin(r, q)
  \/ \E r \in Slots : LookedUp(r) \/ Write(r) \/ Commit(r) \/ Reload(r) \/ Cut(r)
  \/ Restart
  \/ AllAnswered

Spec == Init /\ [][Next]_vars

-----------------------------------------------------------------------------
(* Properties.                                                             *)

\* With nothing under way, memory is what the tables hold, for every service whose last change was read
\* again: neither two changes at once nor rows read while another's transaction is open leave it otherwise.
MemoryLevel ==
  (\A r \in Slots : ~Busy(r)) =>
     \A s \in Services \ behind : \A p \in PartsOf(s) : memory[p] = tables[p]

\* Nobody holds a role that whoever gave it couldn't manage, though roles are deleted and made again
\* under the same name while a user is looked up.
GrantedFromAbove == \A x \in DOMAIN tables.members : tables.members[x]

\* Whatever rules are stored and whatever becomes of the roles they name, nobody below a pack's own rank
\* may use its command (ADR-0033).
FloorHolds ==
  \A u \in DOMAIN Badges : Permits(memory, "pack", u, Badges[u]) => RankOfChatter(memory, u, Badges[u]) >= 60

\* Roles and packs give nobody what is above them.
NobodyAbove == GrantedFromAbove /\ FloorHolds

\* What a request is about: all of a part, or the fields it sends.
Whole(q) ==
  CASE q.ask \in {"role.create", "role.delete"} -> {"roles", "members", "rules"}
    [] q.ask \in {"role.add", "role.remove"} -> {"members"}
    [] q.ask \in {"perm.set", "perm.clear"} -> {"rules"}
    [] q.ask = "reset" -> {"rules", "cooldowns"}
    [] q.ask = "rule" /\ "cooldown" \in DOMAIN q.f -> {"cooldowns"}
    [] q.ask = "cooldown" -> {"cooldowns"}
    [] q.ask = "module" -> {"modules"}
    [] q.ask = "callback" -> {"callbacks"}
    [] q.ask \in {"ignore.add", "ignore.remove"} -> {"ignored"}
    [] q.ask \in {"admin.add", "admin.remove"} -> {"admins"}
    [] q.ask \in {"trigger.add", "trigger.remove", "pack.remove"} -> {"triggers"}
    [] q.ask \in {"filter.add", "filter.remove"} -> {"filters"}
    [] q.ask = "host.deny" -> {"hosts"}
    [] OTHER -> {}

Sent(q, c) ==
  \/ c[3] \in DOMAIN q.f
  \/ c[3] = "on" /\ "enabled" \in DOMAIN q.f
  \/ c[3] = "enabled" /\ q.ask = "reset"
  \/ c[1] = "rules" /\ q.ask = "rule" /\ "required" \in DOMAIN q.f /\ q.f["required"] = "none"
  \/ c[1] \in {"triggers", "filters"} /\ c[2] \notin DOMAIN tables[c[1]]  \* a new row
  \/ c[1] = "ignored" /\ q.ask \in {"ignore.me", "unignore.me"} /\ c[2] = <<"here", q.who>>
       /\ IgnoredBy(tables, "here", q.who) \in {"none", q.who}

\* A change leaves alone what it wasn't asked to change, unless another request was changing that beside it:
\* nothing that was answered before it came is undone.
OnlyWhatWasAsked ==
  [][\A r \in Slots : \A c \in (IF runs[r].at = "open" /\ tables' # tables THEN Changes(tables, tables') ELSE {}) :
        c[1] \in Whole(runs[r].q) \/ Sent(runs[r].q, c) \/ c \in runs[r].beside]_vars
=============================================================================
