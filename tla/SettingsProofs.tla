--------------------------- MODULE SettingsProofs ---------------------------
(***************************************************************************)
(* For any slots, any requests and any first tables: what memory holds     *)
(* agrees with the tables (MemoryLevel), and roles and packs give nobody   *)
(* what is above them (NobodyAbove).                                       *)
(*                                                                         *)
(* MemoryLevel speaks of the moments when nothing is under way, so it isn't*)
(* inductive.  What is kept at every step is that each service is covered: *)
(* it is known to be behind, a request that wrote will read it again, it   *)
(* has read the rows of a transaction that is still open, or it is level.  *)
(* That rests on what a write touches: the parts of its own service, and   *)
(* nothing at all where a registry says that no row was found.             *)
(*                                                                         *)
(* A role may be given long after it was checked, so NobodyAbove rests on  *)
(* RolesInv: what is still to be written is of a role its giver may manage *)
(* wherever that role is still held.                                       *)
(***************************************************************************)
EXTENDS Settings, WellFoundedInduction, TLAPS

-----------------------------------------------------------------------------
(* What a write does to the tables.                                        *)

OpsOf(service) ==
  CASE service = "policy" -> {"field", "role.create", "role.delete", "role.add", "role.remove", "admin", "module", "switch",
                              "rule", "rule.sent", "cooldown", "callback", "ignore", "hear"}
    [] service = "triggers" -> {"trigger.add", "trigger.update", "trigger.remove", "trigger.enable",
                                "pack.set", "pack.edit", "pack.enable", "pack.remove"}
    [] service = "filters" -> {"filter.add", "filter.update", "filter.remove", "filter.enable"}
    [] service = "hosts" -> {"host.allow", "host.deny", "host.secret", "limits"}

\* The outcome of a write of a service, from the tables t.
Within(service, t, res) ==
  /\ Tables(res.t)
  /\ \A p \in Parts \ PartsOf(service) : res.t[p] = t[p]
  /\ service # "policy" /\ res.said = {} => res.t = t

\* Each part belongs to one service.
LEMMA PartsAre ==
  /\ Parts = {"channel", "roles", "members", "admins", "modules", "switches", "rules", "cooldowns", "callbacks",
              "ignored", "triggers", "filters", "hosts", "limits"}
  /\ PartsOf("policy") = Parts \ {"triggers", "filters", "hosts", "limits"}
  /\ PartsOf("triggers") = {"triggers"}
  /\ PartsOf("filters") = {"filters"}
  /\ PartsOf("hosts") = {"hosts", "limits"}
<1>1. /\ PartsOf("policy") = {"channel", "roles", "members", "admins", "modules", "switches", "rules", "cooldowns",
                              "callbacks", "ignored"}
      /\ PartsOf("triggers") = {"triggers"}
      /\ PartsOf("filters") = {"filters"}
      /\ PartsOf("hosts") = {"hosts", "limits"}
  BY DEF PartsOf
<1>2. Parts = PartsOf("policy") \cup PartsOf("triggers") \cup PartsOf("filters") \cup PartsOf("hosts")
  BY DEF Parts, Services
<1> QED
  BY <1>1, <1>2

\* Writing one part of a service leaves the others as they are.
LEMMA OnePart ==
  ASSUME NEW service \in Services, NEW t, Tables(t), NEW p \in PartsOf(service), NEW rows, NEW said,
         p = "triggers" => rows = [i \in DOMAIN rows |-> rows[i]],
         said # {} \/ service = "policy" \/ rows = t[p]
  PROVE  Within(service, t, Done([t EXCEPT ![p] = rows], said))
<1> DEFINE u == [t EXCEPT ![p] = rows]
<1>1. p \in Parts
  BY DEF Parts
<1>2. Tables(u)
  BY <1>1 DEF Tables
<1>3. \A x \in Parts : x # p => u[x] = t[x]
  BY DEF Tables
<1>4. rows = t[p] => u = t
  BY <1>1 DEF Tables
<1>5. Done(u, said).t = u /\ Done(u, said).said = said
  BY DEF Done
<1> QED
  BY <1>2, <1>3, <1>4, <1>5 DEF Within

\* So does a write that finds nothing to do.
LEMMA NoPart ==
  ASSUME NEW service \in Services, NEW t, Tables(t), NEW said
  PROVE  Within(service, t, Done(t, said))
BY DEF Within, Done, Tables

LEMMA RowsStayAFunction ==
  ASSUME NEW rows, NEW k, NEW row
  PROVE  Put(rows, k, row) = [i \in DOMAIN Put(rows, k, row) |-> Put(rows, k, row)[i]]
BY DEF Put

LEMMA PolicyWritesWithin ==
  ASSUME NEW w, w.op \in OpsOf("policy"), NEW t, Tables(t), NEW m, NEW new, Apply(w, t, m, new).ok
  PROVE  Within("policy", t, Apply(w, t, m, new))
<1> DEFINE res == Apply(w, t, m, new)
<1>a. "policy" \in Services /\ PartsOf("policy") = Parts \ {"triggers", "filters", "hosts", "limits"}
  BY PartsAre DEF Services
<1>b. ASSUME NEW p \in {"channel", "roles", "members", "admins", "modules", "switches", "rules", "cooldowns",
                        "callbacks", "ignored"}, NEW rows, NEW said
      PROVE  Within("policy", t, Done([t EXCEPT ![p] = rows], said))
  BY <1>a, PartsAre, OnePart
<1>f. ~Fails(t).ok
  BY DEF Fails
<1>1. CASE w.op = "field"
  <2>1. res = SetField(w, t)
    BY <1>1 DEF Apply
  <2> QED
    BY <2>1, <1>b, <1>f DEF SetField
<1>2. CASE w.op = "role.create"
  <2>1. res = CreateRole(w, t, new)
    BY <1>2 DEF Apply
  <2> QED
    BY <2>1, <1>b, <1>f DEF CreateRole
<1>3. CASE w.op = "role.delete"
  <2>1. res = DeleteRole(w, t)
    BY <1>3 DEF Apply
  <2>2. CASE w.id \notin DOMAIN t.roles
    BY <2>1, <2>2, <1>a, NoPart DEF DeleteRole
  <2>3. CASE w.id \in DOMAIN t.roles
    <3> DEFINE roles == Without(t.roles, {w.id})
               members == Without(t.members, {x \in DOMAIN t.members : x[1] = w.id})
               u == [t EXCEPT !["roles"] = roles]
               v == [u EXCEPT !["members"] = members]
               said == {<<"roles", w.id>>}
    <3>1. Within("policy", t, Done(u, said))
      BY <1>b
    <3>2. Tables(u) /\ \A p \in Parts \ PartsOf("policy") : u[p] = t[p]
      BY <3>1 DEF Within, Done
    <3>3. Within("policy", u, Done(v, said))
      BY <3>2, <1>a, PartsAre, OnePart
    <3>4. Within("policy", t, Done(v, said))
      BY <3>2, <3>3 DEF Within, Done
    <3>5. [t EXCEPT !.roles = roles, !.members = members] = v
      BY DEF Tables
    <3>6. res = Done(v, said)
      BY <2>1, <2>3, <3>5 DEF DeleteRole
    <3> QED
      BY <3>4, <3>6
  <2> QED
    BY <2>2, <2>3
<1>4. CASE w.op = "role.add"
  <2>1. res = AddMember(w, t)
    BY <1>4 DEF Apply
  <2> QED
    BY <2>1, <1>b, <1>f DEF AddMember
<1>5. CASE w.op = "role.remove"
  <2>1. res = RemoveMember(w, t)
    BY <1>5 DEF Apply
  <2> QED
    BY <2>1, <1>b, <1>a, NoPart DEF RemoveMember
<1>6. CASE w.op = "admin"
  <2>1. res = SetAdmin(w, t)
    BY <1>6 DEF Apply
  <2> QED
    BY <2>1, <1>b DEF SetAdmin
<1>7. CASE w.op = "module"
  <2>1. res = SetModule(w, t)
    BY <1>7 DEF Apply
  <2> QED
    BY <2>1, <1>b DEF SetModule
<1>8. CASE w.op = "switch"
  <2>1. res = SetSwitch(w, t)
    BY <1>8 DEF Apply
  <2> QED
    BY <2>1, <1>b DEF SetSwitch
<1>9. CASE w.op = "rule"
  <2>1. res = SetRule(w, t)
    BY <1>9 DEF Apply
  <2> QED
    BY <2>1, <1>b DEF SetRule
<1>10. CASE w.op = "rule.sent"
  <2>1. res = SetRule([w EXCEPT !.f = RuleSent(m, w)], t)
    BY <1>10 DEF Apply
  <2> QED
    BY <2>1, <1>b DEF SetRule
<1>11. CASE w.op = "cooldown"
  <2>1. res = SetCooldown(w, t)
    BY <1>11 DEF Apply
  <2> QED
    BY <2>1, <1>b DEF SetCooldown
<1>12. CASE w.op = "callback"
  <2>1. res = SetCallback(w, t)
    BY <1>12 DEF Apply
  <2> QED
    BY <2>1, <1>b DEF SetCallback
<1>13. CASE w.op = "ignore"
  <2>1. res = SetIgnored(w, t)
    BY <1>13 DEF Apply
  <2> QED
    BY <2>1, <1>b DEF SetIgnored
<1>14. CASE w.op = "hear"
  <2>1. res = SetIgnored(w, t)
    BY <1>14 DEF Apply
  <2> QED
    BY <2>1, <1>b DEF SetIgnored
<1> QED
  BY <1>1, <1>2, <1>3, <1>4, <1>5, <1>6, <1>7, <1>8, <1>9, <1>10, <1>11, <1>12, <1>13, <1>14 DEF OpsOf

LEMMA TriggerWritesWithin ==
  ASSUME NEW w, w.op \in OpsOf("triggers"), NEW t, Tables(t), NEW m, NEW new, Apply(w, t, m, new).ok
  PROVE  Within("triggers", t, Apply(w, t, m, new))
<1> DEFINE res == Apply(w, t, m, new)
<1>a. "triggers" \in Services /\ "triggers" \in PartsOf("triggers")
  BY PartsAre DEF Services
<1>b. ASSUME NEW rows, NEW said, rows = [i \in DOMAIN rows |-> rows[i]], said # {} \/ rows = t.triggers
      PROVE  Within("triggers", t, Done([t EXCEPT !["triggers"] = rows], said))
  BY <1>a, <1>b, OnePart
<1>d. ASSUME NEW said
      PROVE  Within("triggers", t, Done(t, said))
  BY <1>a, NoPart
<1>e. t.triggers = [i \in DOMAIN t.triggers |-> t.triggers[i]]
  BY DEF Tables
<1>1. CASE w.op = "trigger.add"
  <2>1. res = AddTrigger(w, t, new)
    BY <1>1 DEF Apply
  <2> DEFINE rows == Put(t.triggers, new, Row("here", w.key, w.f))
             said == {<<"triggers", new>>}
  <2>2. rows = [i \in DOMAIN rows |-> rows[i]]
    BY RowsStayAFunction
  <2>3. res = Done([t EXCEPT !["triggers"] = rows], said) /\ said # {}
    BY <2>1 DEF AddTrigger
  <2> HIDE DEF rows, said
  <2> QED
    BY <2>2, <2>3, <1>b
<1>2. CASE w.op = "trigger.update"
  <2>1. res = UpdateTrigger(w, t)
    BY <1>2 DEF Apply
  <2> QED
    BY <2>1, <1>b, <1>d DEF UpdateTrigger
<1>3. CASE w.op = "trigger.remove"
  <2>1. res = RemoveTrigger(w, t)
    BY <1>3 DEF Apply
  <2> QED
    BY <2>1, <1>b, <1>d DEF RemoveTrigger, Without, Restrict
<1>4. CASE w.op = "trigger.enable"
  <2>1. res = EnableTrigger(w, t)
    BY <1>4 DEF Apply
  <2> QED
    BY <2>1, <1>b, <1>d DEF EnableTrigger
<1>5. CASE w.op = "pack.set"
  <2>1. res = WritePackTrigger(w, t, new)
    BY <1>5 DEF Apply
  <2> DEFINE found == PackTrigger(t, w.key)
             i == CHOOSE i \in found : TRUE
  <2>2. CASE found = {}
    <3> DEFINE rows == Put(t.triggers, new, Row("pack", w.key, w.f))
               said == {<<"triggers", new>>}
    <3>1. rows = [x \in DOMAIN rows |-> rows[x]]
      BY RowsStayAFunction
    <3>2. res = Done([t EXCEPT !["triggers"] = rows], said) /\ said # {}
      BY <2>1, <2>2 DEF WritePackTrigger
    <3> HIDE DEF rows, said
    <3> QED
      BY <3>1, <3>2, <1>b
  <2>3. CASE found # {} /\ t.triggers[i].f = w.f
    BY <2>1, <2>3, <1>d DEF WritePackTrigger
  <2>4. CASE found # {} /\ t.triggers[i].f # w.f
    <3> DEFINE rows == [t.triggers EXCEPT ![i].f = w.f]
               said == {<<"triggers", i>>}
    <3>1. rows = [x \in DOMAIN rows |-> rows[x]]
      <4> HIDE DEF i
      <4> QED
        OBVIOUS
    <3>2. res = Done([t EXCEPT !["triggers"] = rows], said) /\ said # {}
      BY <2>1, <2>4 DEF WritePackTrigger
    <3> HIDE DEF rows, said
    <3> QED
      BY <3>1, <3>2, <1>b
  <2> QED
    BY <2>2, <2>3, <2>4
<1>6. CASE w.op = "pack.edit"
  <2>1. res = EditPackTrigger(w, t)
    BY <1>6 DEF Apply
  <2> QED
    BY <2>1, <1>b, <1>d DEF EditPackTrigger
<1>7. CASE w.op = "pack.enable"
  <2>1. res = EnablePackTrigger(w, t)
    BY <1>7 DEF Apply
  <2> DEFINE found == PackTrigger(t, w.key)
             rows == [i \in DOMAIN t.triggers |-> IF i \in found THEN [t.triggers[i] EXCEPT !.enabled = w.f["enabled"]]
                                                  ELSE t.triggers[i]]
             said == {<<"triggers", i>> : i \in found}
  <2>2. rows = [i \in DOMAIN rows |-> rows[i]]
    OBVIOUS
  <2>3. res = Done([t EXCEPT !["triggers"] = rows], said)
    BY <2>1 DEF EnablePackTrigger
  <2>4. said = {} => found = {}
    OBVIOUS
  <2>5. found = {} => rows = t.triggers
    BY <1>e
  <2> HIDE DEF rows, said
  <2> QED
    BY <2>2, <2>3, <2>4, <2>5, <1>b
<1>8. CASE w.op = "pack.remove"
  <2>1. res = RemovePackTrigger(w, t)
    BY <1>8 DEF Apply
  <2> DEFINE found == PackTrigger(t, w.key)
             rows == Without(t.triggers, found)
             said == {<<"triggers", i>> : i \in found}
  <2>2. rows = [i \in DOMAIN rows |-> rows[i]]
    BY DEF Without, Restrict
  <2>3. res = Done([t EXCEPT !["triggers"] = rows], said)
    BY <2>1 DEF RemovePackTrigger
  <2>4. said = {} => found = {}
    OBVIOUS
  <2>5. found = {} => rows = t.triggers
    BY <1>e DEF Without, Restrict
  <2> HIDE DEF rows, said
  <2> QED
    BY <2>2, <2>3, <2>4, <2>5, <1>b
<1> QED
  BY <1>1, <1>2, <1>3, <1>4, <1>5, <1>6, <1>7, <1>8 DEF OpsOf

LEMMA FilterWritesWithin ==
  ASSUME NEW w, w.op \in OpsOf("filters"), NEW t, Tables(t), NEW m, NEW new, Apply(w, t, m, new).ok
  PROVE  Within("filters", t, Apply(w, t, m, new))
<1> DEFINE res == Apply(w, t, m, new)
<1>a. "filters" \in Services /\ "filters" \in PartsOf("filters")
  BY PartsAre DEF Services
<1>b. ASSUME NEW rows, NEW said, said # {} \/ rows = t.filters
      PROVE  Within("filters", t, Done([t EXCEPT !["filters"] = rows], said))
  BY <1>a, <1>b, OnePart
<1>d. ASSUME NEW said
      PROVE  Within("filters", t, Done(t, said))
  BY <1>a, NoPart
<1>1. CASE w.op = "filter.add"
  <2>1. res = AddFilter(w, t, new)
    BY <1>1 DEF Apply
  <2> QED
    BY <2>1, <1>b DEF AddFilter
<1>2. CASE w.op = "filter.update"
  <2>1. res = UpdateFilter(w, t)
    BY <1>2 DEF Apply
  <2> QED
    BY <2>1, <1>b, <1>d DEF UpdateFilter
<1>3. CASE w.op = "filter.remove"
  <2>1. res = RemoveFilter(w, t)
    BY <1>3 DEF Apply
  <2> QED
    BY <2>1, <1>b, <1>d DEF RemoveFilter
<1>4. CASE w.op = "filter.enable"
  <2>1. res = EnableFilter(w, t)
    BY <1>4 DEF Apply
  <2> QED
    BY <2>1, <1>b, <1>d DEF EnableFilter
<1> QED
  BY <1>1, <1>2, <1>3, <1>4 DEF OpsOf

LEMMA HostWritesWithin ==
  ASSUME NEW w, w.op \in OpsOf("hosts"), NEW t, Tables(t), NEW m, NEW new, Apply(w, t, m, new).ok
  PROVE  Within("hosts", t, Apply(w, t, m, new))
<1> DEFINE res == Apply(w, t, m, new)
<1>a. "hosts" \in Services /\ "hosts" \in PartsOf("hosts") /\ "limits" \in PartsOf("hosts")
  BY PartsAre DEF Services
<1>b. ASSUME NEW rows, NEW said, said # {} \/ rows = t.hosts
      PROVE  Within("hosts", t, Done([t EXCEPT !["hosts"] = rows], said))
  BY <1>a, <1>b, OnePart
<1>c. ASSUME NEW rows, NEW said, said # {} \/ rows = t.limits
      PROVE  Within("hosts", t, Done([t EXCEPT !["limits"] = rows], said))
  BY <1>a, <1>c, OnePart
<1>d. ASSUME NEW said
      PROVE  Within("hosts", t, Done(t, said))
  BY <1>a, NoPart
<1>1. CASE w.op = "host.allow"
  <2>1. res = AllowHost(w, t)
    BY <1>1 DEF Apply
  <2> QED
    BY <2>1, <1>b DEF AllowHost
<1>2. CASE w.op = "host.deny"
  <2>1. res = DenyHost(w, t)
    BY <1>2 DEF Apply
  <2> QED
    BY <2>1, <1>b DEF DenyHost
<1>3. CASE w.op = "host.secret"
  <2>1. res = SetSecret(w, t)
    BY <1>3 DEF Apply
  <2> QED
    BY <2>1, <1>b, <1>d DEF SetSecret
<1>4. CASE w.op = "limits"
  <2>1. res = SetLimits(w, t)
    BY <1>4 DEF Apply
  <2> QED
    BY <2>1, <1>c DEF SetLimits
<1> QED
  BY <1>1, <1>2, <1>3, <1>4 DEF OpsOf

LEMMA WritesWithin ==
  ASSUME NEW service \in Services, NEW w, w.op \in OpsOf(service), NEW t, Tables(t), NEW m, NEW new, Apply(w, t, m, new).ok
  PROVE  Within(service, t, Apply(w, t, m, new))
BY PolicyWritesWithin, TriggerWritesWithin, FilterWritesWithin, HostWritesWithin DEF Services

-----------------------------------------------------------------------------
(* The calls a handler gives: each has writes, all of its own service's,   *)
(* and a registry's has one.  Plain ones neither make nor give a role.     *)

WritesOf(service, writes) == \E W : writes \in Seq(W) /\ \A w \in W : w.op \in OpsOf(service)

GoodCall(c) ==
  /\ c = [service |-> c.service, writes |-> c.writes]
  /\ c.service \in Services
  /\ c.writes # << >>
  /\ WritesOf(c.service, c.writes)
  /\ c.service # "policy" => Len(c.writes) = 1

GoodCalls(calls) == \E C : calls \in Seq(C) /\ \A c \in C : GoodCall(c)

RoleOps == {"role.create", "role.add"}
PlainOps(service) == OpsOf(service) \ RoleOps
PlainWrites(service, writes) == \E W : writes \in Seq(W) /\ \A w \in W : w.op \in PlainOps(service)

PlainCall(c) ==
  /\ c = [service |-> c.service, writes |-> c.writes]
  /\ c.service \in Services
  /\ c.writes # << >>
  /\ PlainWrites(c.service, c.writes)
  /\ c.service # "policy" => Len(c.writes) = 1

PlainCalls(calls) == \E C : calls \in Seq(C) /\ \A c \in C : PlainCall(c)

LEMMA NoCalls == PlainCalls(Refused)
<1> DEFINE C == {}
<1>1. Refused \in Seq(C) /\ \A c \in C : PlainCall(c)
  BY DEF Refused
<1> HIDE DEF C
<1> QED
  BY <1>1 DEF PlainCalls

LEMMA OneCall ==
  ASSUME NEW c, PlainCall(c)
  PROVE  PlainCalls(<<c>>)
<1> DEFINE C == {c}
<1>1. <<c>> \in Seq(C) /\ \A x \in C : PlainCall(x)
  OBVIOUS
<1> HIDE DEF C
<1> QED
  BY <1>1 DEF PlainCalls

LEMMA NoWrites ==
  ASSUME NEW service
  PROVE  PlainWrites(service, << >>)
<1> DEFINE W == {}
<1>1. << >> \in Seq(W) /\ \A x \in W : x.op \in PlainOps(service)
  OBVIOUS
<1> HIDE DEF W
<1> QED
  BY <1>1 DEF PlainWrites

LEMMA AWrite ==
  ASSUME NEW service, NEW w, w.op \in PlainOps(service)
  PROVE  PlainWrites(service, <<w>>)
<1> DEFINE W == {w}
<1>1. <<w>> \in Seq(W) /\ \A x \in W : x.op \in PlainOps(service)
  OBVIOUS
<1> HIDE DEF W
<1> QED
  BY <1>1 DEF PlainWrites

LEMMA OneWrite ==
  ASSUME NEW service \in Services, NEW w, w.op \in PlainOps(service)
  PROVE  PlainCalls(One(service, w))
<1> DEFINE c == Call(service, <<w>>)
<1>1. c.service = service /\ c.writes = <<w>> /\ c = [service |-> c.service, writes |-> c.writes]
  BY DEF Call
<1>2. PlainWrites(service, <<w>>)
  BY AWrite
<1>3. <<w>> # << >> /\ Len(<<w>>) = 1
  OBVIOUS
<1>4. PlainCall(c)
  BY <1>1, <1>2, <1>3 DEF PlainCall
<1> QED
  BY <1>4, OneCall DEF One

LEMMA OneChange ==
  ASSUME NEW w, w.op \in PlainOps("policy")
  PROVE  PlainCalls(Change(w))
BY OneWrite DEF Change, One, Services

LEMMA BothCalls ==
  ASSUME NEW a, PlainCalls(a), NEW b, PlainCalls(b)
  PROVE  PlainCalls(a \o b)
<1>1. PICK A : a \in Seq(A) /\ \A c \in A : PlainCall(c)
  BY DEF PlainCalls
<1>2. PICK B : b \in Seq(B) /\ \A c \in B : PlainCall(c)
  BY DEF PlainCalls
<1>3. a \in Seq(A \cup B) /\ b \in Seq(A \cup B)
  BY <1>1, <1>2
<1>4. a \o b \in Seq(A \cup B)
  BY <1>3
<1> QED
  BY <1>1, <1>2, <1>4 DEF PlainCalls

LEMMA BothWrites ==
  ASSUME NEW service, NEW a, PlainWrites(service, a), NEW b, PlainWrites(service, b)
  PROVE  PlainWrites(service, a \o b)
<1>1. PICK A : a \in Seq(A) /\ \A c \in A : c.op \in PlainOps(service)
  BY DEF PlainWrites
<1>2. PICK B : b \in Seq(B) /\ \A c \in B : c.op \in PlainOps(service)
  BY DEF PlainWrites
<1>3. a \in Seq(A \cup B) /\ b \in Seq(A \cup B)
  BY <1>1, <1>2
<1>4. a \o b \in Seq(A \cup B)
  BY <1>3
<1> QED
  BY <1>1, <1>2, <1>4 DEF PlainWrites

LEMMA WhenAllowed ==
  ASSUME NEW allowed, NEW calls, allowed => PlainCalls(calls)
  PROVE  PlainCalls(When(allowed, calls))
BY NoCalls DEF When

LEMMA PolicyOps ==
  PlainOps("policy") = {"field", "role.delete", "role.remove", "admin", "module", "switch",
                     "rule", "rule.sent", "cooldown", "callback", "ignore", "hear"}
BY DEF PlainOps, OpsOf, RoleOps

LEMMA PermCommandPlain ==
  ASSUME NEW m, NEW q, Request(q)
  PROVE  PlainCalls(PermCommand(m, q))
<1> DEFINE role == IF q.ask = "perm.set" THEN q.f["required"] ELSE q.f["allowed"]
           rule == IF q.ask = "perm.set" THEN Rule(role, "none") ELSE Rule(Requires(m, q.scope, q.key)["required"], role)
           v == [q EXCEPT !.op = "rule", !.f = Rule("none", "none")]
           w == [q EXCEPT !.op = "rule", !.f = rule]
<1>1. v.op = "rule"
  BY DEF Request, Blank
<1>2. w.op = "rule"
  BY DEF Request, Blank
<1> HIDE DEF role, rule, v, w
<1>3. PlainCalls(Change(v)) /\ PlainCalls(Change(w))
  BY <1>1, <1>2, OneChange, PolicyOps
<1> QED
  BY <1>3, NoCalls, WhenAllowed DEF PermCommand, role, rule, v, w

LEMMA CooldownCommandPlain ==
  ASSUME NEW m, NEW q, Request(q)
  PROVE  PlainCalls(CooldownCommand(m, q))
<1> DEFINE w == [q EXCEPT !.op = "cooldown"]
<1>1. w.op = "cooldown"
  BY DEF Request, Blank
<1> HIDE DEF w
<1>2. PlainCalls(Change(w))
  BY <1>1, OneChange, PolicyOps
<1> QED
  BY <1>2, NoCalls, WhenAllowed DEF CooldownCommand, w

LEMMA CmdCommandPlain ==
  ASSUME NEW m, NEW q, Request(q)
  PROVE  PlainCalls(CmdCommand(m, q))
<1> DEFINE w == [q EXCEPT !.op = "switch"]
<1>1. w.op = "switch"
  BY DEF Request, Blank
<1> HIDE DEF w
<1>2. PlainCalls(Change(w))
  BY <1>1, OneChange, PolicyOps
<1> QED
  BY <1>2, NoCalls, WhenAllowed DEF CmdCommand, w

LEMMA ModuleCommandPlain ==
  ASSUME NEW m, NEW q, Request(q)
  PROVE  PlainCalls(ModuleCommand(m, q))
<1> DEFINE w == [q EXCEPT !.op = "module"]
<1>1. w.op = "module"
  BY DEF Request, Blank
<1> HIDE DEF w
<1>2. PlainCalls(Change(w))
  BY <1>1, OneChange, PolicyOps
<1> QED
  BY <1>2, NoCalls, WhenAllowed DEF ModuleCommand, w

LEMMA ModuleRoutePlain ==
  ASSUME NEW m, NEW q, Request(q)
  PROVE  PlainCalls(ModuleRoute(m, q))
<1> DEFINE w == [q EXCEPT !.op = "module"]
<1>1. w.op = "module"
  BY DEF Request, Blank
<1> HIDE DEF w
<1>2. PlainCalls(Change(w))
  BY <1>1, OneChange, PolicyOps
<1> QED
  BY <1>2, NoCalls, WhenAllowed DEF ModuleRoute, w

LEMMA CallbackCommandPlain ==
  ASSUME NEW m, NEW q, Request(q)
  PROVE  PlainCalls(CallbackCommand(m, q))
<1> DEFINE w == [q EXCEPT !.op = "callback"]
<1>1. w.op = "callback"
  BY DEF Request, Blank
<1> HIDE DEF w
<1>2. PlainCalls(Change(w))
  BY <1>1, OneChange, PolicyOps
<1> QED
  BY <1>2, NoCalls, WhenAllowed DEF CallbackCommand, w

LEMMA CallbackRoutesPlain ==
  ASSUME NEW m, NEW q, Request(q)
  PROVE  PlainCalls(CallbackRoutes(m, q))
<1> DEFINE w == [q EXCEPT !.op = "callback"]
<1>1. w.op = "callback"
  BY DEF Request, Blank
<1> HIDE DEF w
<1>2. PlainCalls(Change(w))
  BY <1>1, OneChange, PolicyOps
<1> QED
  BY <1>2, NoCalls, WhenAllowed DEF CallbackRoutes, w

LEMMA AdminCommandPlain ==
  ASSUME NEW m, NEW q, Request(q)
  PROVE  PlainCalls(AdminCommand(m, q))
<1> DEFINE w == [q EXCEPT !.op = "admin"]
<1>1. w.op = "admin"
  BY DEF Request, Blank
<1> HIDE DEF w
<1>2. PlainCalls(Change(w))
  BY <1>1, OneChange, PolicyOps
<1> QED
  BY <1>2, NoCalls, WhenAllowed DEF AdminCommand, w

LEMMA AdminRoutesPlain ==
  ASSUME NEW m, NEW q, Request(q)
  PROVE  PlainCalls(AdminRoutes(m, q))
<1> DEFINE w == [q EXCEPT !.op = "admin"]
<1>1. w.op = "admin"
  BY DEF Request, Blank
<1> HIDE DEF w
<1>2. PlainCalls(Change(w))
  BY <1>1, OneChange, PolicyOps
<1> QED
  BY <1>2, NoCalls, WhenAllowed DEF AdminRoutes, w

LEMMA IgnoreCommandPlain ==
  ASSUME NEW m, NEW q, Request(q)
  PROVE  PlainCalls(IgnoreCommand(m, q))
<1> DEFINE u == [q EXCEPT !.op = "ignore", !.user = q.who]
           op == IF q.ask = "ignore.add" THEN "ignore" ELSE "hear"
           w == [q EXCEPT !.op = op]
<1>1. u.op = "ignore"
  BY DEF Request, Blank
<1>2. w.op = op
  BY DEF Request, Blank
<1>3. op \in {"ignore", "hear"}
  OBVIOUS
<1> HIDE DEF u, op, w
<1>4. PlainCalls(Change(u)) /\ PlainCalls(Change(w))
  BY <1>1, <1>2, <1>3, OneChange, PolicyOps
<1> QED
  BY <1>4, NoCalls, WhenAllowed DEF IgnoreCommand, u, op, w

LEMMA UnignorePlain ==
  ASSUME NEW m, NEW q, Request(q)
  PROVE  PlainCalls(Unignore(m, q))
<1> DEFINE w == [q EXCEPT !.op = "hear", !.user = q.who]
<1>1. w.op = "hear"
  BY DEF Request, Blank
<1> HIDE DEF w
<1>2. PlainCalls(Change(w))
  BY <1>1, OneChange, PolicyOps
<1> QED
  BY <1>2, NoCalls, WhenAllowed DEF Unignore, w

LEMMA IgnoreRoutesPlain ==
  ASSUME NEW m, NEW q, Request(q)
  PROVE  PlainCalls(IgnoreRoutes(m, q))
<1> DEFINE v == [q EXCEPT !.op = "ignore"]
           w == [q EXCEPT !.op = "hear"]
<1>1. v.op = "ignore"
  BY DEF Request, Blank
<1>2. w.op = "hear"
  BY DEF Request, Blank
<1> HIDE DEF v, w
<1>3. PlainCalls(Change(v)) /\ PlainCalls(Change(w))
  BY <1>1, <1>2, OneChange, PolicyOps
<1> QED
  BY <1>3, NoCalls, WhenAllowed DEF IgnoreRoutes, v, w

LEMMA PrefixCommandPlain ==
  ASSUME NEW m, NEW q, Request(q)
  PROVE  PlainCalls(PrefixCommand(m, q))
<1> DEFINE w == [q EXCEPT !.op = "field", !.key = "prefix"]
<1>1. w.op = "field"
  BY DEF Request, Blank
<1> HIDE DEF w
<1>2. PlainCalls(Change(w))
  BY <1>1, OneChange, PolicyOps
<1> QED
  BY <1>2, NoCalls, WhenAllowed DEF PrefixCommand, Field, w

LEMMA FieldIs ==
  ASSUME NEW q, Request(q), NEW column
  PROVE  Field(q, column).op = "field"
BY DEF Field, Request, Blank

LEMMA AutomodCommandPlain ==
  ASSUME NEW m, NEW q, Request(q)
  PROVE  PlainCalls(AutomodCommand(m, q))
<1> DEFINE a == IF "automod_timeout_s" \in DOMAIN q.f THEN Change(Field(q, "automod_timeout_s")) ELSE << >>
           b == Change(Field(q, "automod_action"))
<1>1. PlainCalls(a)
  BY FieldIs, OneChange, PolicyOps, NoCalls DEF Refused
<1>2. PlainCalls(b)
  BY FieldIs, OneChange, PolicyOps
<1> HIDE DEF a, b
<1>3. PlainCalls(a \o b)
  BY <1>1, <1>2, BothCalls
<1> QED
  BY <1>3, WhenAllowed DEF AutomodCommand, a, b

LEMMA FieldSentPlain ==
  ASSUME NEW q, Request(q), NEW column
  PROVE  PlainWrites("policy", FieldSent(q, column))
BY FieldIs, PolicyOps, AWrite, NoWrites DEF FieldSent

LEMMA SomeWrites ==
  ASSUME NEW writes, PlainWrites("policy", writes), writes # << >>
  PROVE  PlainCalls(<<Call("policy", writes)>>)
<1> DEFINE c == Call("policy", writes)
<1>1. PlainCall(c)
  BY DEF PlainCall, Call, Services
<1> QED
  BY <1>1, OneCall

LEMMA FieldRoutePlain ==
  ASSUME NEW m, NEW q, Request(q)
  PROVE  PlainCalls(FieldRoute(m, q))
<1> DEFINE a == FieldSent(q, "prefix")
           b == FieldSent(q, "automod_action")
           c == FieldSent(q, "automod_timeout_s")
           d == FieldSent(q, "publish_min_role")
           writes == a \o b \o c \o d
<1>1. PlainWrites("policy", a) /\ PlainWrites("policy", b) /\ PlainWrites("policy", c) /\ PlainWrites("policy", d)
  BY FieldSentPlain
<1> HIDE DEF a, b, c, d
<1>2. PlainWrites("policy", a \o b)
  BY <1>1, BothWrites
<1>3. PlainWrites("policy", a \o b \o c)
  BY <1>1, <1>2, BothWrites
<1>4. PlainWrites("policy", writes)
  BY <1>1, <1>3, BothWrites
<1>5. FieldRoute(m, q) = When(writes # << >> /\ \A x \in DOMAIN q.f : Rank(m, q) >= FieldRank(x), <<Call("policy", writes)>>)
  BY DEF FieldRoute, a, b, c, d
<1> HIDE DEF writes
<1> QED
  BY <1>4, <1>5, SomeWrites, WhenAllowed

LEMMA Longer ==
  ASSUME NEW S, NEW x \in Seq(S), NEW y \in Seq(S)
  PROVE  x \o y \in Seq(S) /\ (x # << >> \/ y # << >> => x \o y # << >>)
<1>1. x \o y \in Seq(S) /\ Len(x \o y) = Len(x) + Len(y) /\ Len(x) \in Nat /\ Len(y) \in Nat
  OBVIOUS
<1>2. (x # << >> => Len(x) # 0) /\ (y # << >> => Len(y) # 0) /\ Len(<< >>) = 0
  OBVIOUS
<1> QED
  BY <1>1, <1>2

\* What a rule sends is written in up to three writes, and at least in one.
LEMMA RuleRoutePlain ==
  ASSUME NEW m, NEW q, DOMAIN q = DOMAIN Blank,
         DOMAIN q.f \cap {"enabled", "level", "required", "allowed", "cooldown"} # {}
  PROVE  PlainCalls(RuleRoute(m, q))
<1> DEFINE switch == Only(q.f, {"enabled", "level"})
           rule == Only(q.f, {"required", "allowed"})
           u == [q EXCEPT !.op = "switch", !.f = switch]
           v == [q EXCEPT !.op = "rule.sent", !.f = rule]
           w == [q EXCEPT !.op = "cooldown"]
           a == IF DOMAIN switch = {} THEN << >> ELSE <<u>>
           b == IF DOMAIN rule = {} THEN << >> ELSE <<v>>
           c == IF "cooldown" \in DOMAIN q.f THEN <<w>> ELSE << >>
           writes == a \o b \o c
           sent == Known(m, q, {rule[x] : x \in DOMAIN rule} \ {"none"})
<1>1. u.op = "switch"
  BY DEF Blank
<1>2. v.op = "rule.sent"
  BY DEF Blank
<1>3. w.op = "cooldown"
  BY DEF Blank
<1>4. DOMAIN switch = DOMAIN q.f \cap {"enabled", "level"} /\ DOMAIN rule = DOMAIN q.f \cap {"required", "allowed"}
  BY DEF Only, Restrict
<1>5. DOMAIN switch # {} \/ DOMAIN rule # {} \/ "cooldown" \in DOMAIN q.f
  BY <1>4
<1>6. RuleRoute(m, q) = When("enabled" \in DOMAIN q.f => q.key # "pack", When(sent, <<Call("policy", writes)>>))
  BY DEF RuleRoute
<1> HIDE DEF switch, rule, u, v, w, sent
<1>7. a \in Seq({u, v, w}) /\ b \in Seq({u, v, w}) /\ c \in Seq({u, v, w})
  <2> DEFINE W == {u, v, w}
  <2>1. u \in W /\ v \in W /\ w \in W
    OBVIOUS
  <2> HIDE DEF W, writes
  <2>2. << >> \in Seq(W) /\ <<u>> \in Seq(W) /\ <<v>> \in Seq(W) /\ <<w>> \in Seq(W)
    BY <2>1
  <2>3. a \in Seq(W) /\ b \in Seq(W) /\ c \in Seq(W)
    BY <2>2
  <2> QED
    BY <2>3 DEF W
<1>8. a # << >> \/ b # << >> \/ c # << >>
  BY <1>5
<1> HIDE DEF a, b, c
<1>9. writes # << >> /\ writes \in Seq({u, v, w})
  <2>1. a \o b \in Seq({u, v, w}) /\ (a # << >> \/ b # << >> => a \o b # << >>)
    BY <1>7, Longer
  <2> DEFINE ab == a \o b
  <2> HIDE DEF ab
  <2>2. ab \o c \in Seq({u, v, w}) /\ (ab # << >> \/ c # << >> => ab \o c # << >>)
    BY <1>7, <2>1, Longer DEF ab
  <2> QED
    BY <1>8, <2>1, <2>2 DEF ab
<1>10. \A x \in {u, v, w} : x.op \in PlainOps("policy")
  BY <1>1, <1>2, <1>3, PolicyOps
<1> DEFINE W == {u, v, w}
<1> HIDE DEF writes, W
<1>11. PlainWrites("policy", writes)
  BY <1>9, <1>10 DEF PlainWrites, W
<1> QED
  BY <1>6, <1>9, <1>11, SomeWrites, WhenAllowed

LEMMA ResetRoutePlain ==
  ASSUME NEW m, NEW q, Request(q)
  PROVE  PlainCalls(ResetRoute(m, q))
<1> DEFINE cleared == {"required"} \cup (IF q.key = "pack" THEN {} ELSE {"enabled"})
                        \cup (IF <<q.scope, q.key>> \in DOMAIN m.cooldowns THEN {"cooldown"} ELSE {})
           f == [x \in cleared |-> IF x = "enabled" THEN "inherit" ELSE "none"]
           r == [q EXCEPT !.f = f]
<1>1. "required" \in DOMAIN f
  OBVIOUS
<1> HIDE DEF f
<1>2. DOMAIN r = DOMAIN Blank /\ r.f = f
  BY DEF Request, Blank
<1> HIDE DEF r
<1>3. PlainCalls(RuleRoute(m, r))
  BY <1>1, <1>2, RuleRoutePlain
<1> QED
  BY <1>3 DEF ResetRoute, r, f

LEMMA OneTrigger ==
  ASSUME NEW w, "op" \in DOMAIN w, NEW op \in PlainOps("triggers")
  PROVE  PlainCalls(Trigger(w, op))
<1> DEFINE v == [w EXCEPT !.op = op]
<1>1. v.op = op
  OBVIOUS
<1> HIDE DEF v
<1> QED
  BY <1>1, OneWrite DEF Trigger, v, Services

LEMMA OneFilter ==
  ASSUME NEW w, "op" \in DOMAIN w, NEW op \in PlainOps("filters")
  PROVE  PlainCalls(Filter(w, op))
<1> DEFINE v == [w EXCEPT !.op = op]
<1>1. v.op = op
  OBVIOUS
<1> HIDE DEF v
<1> QED
  BY <1>1, OneWrite DEF Filter, v, Services

LEMMA RegistryOps ==
  /\ PlainOps("triggers") = {"trigger.add", "trigger.update", "trigger.remove", "trigger.enable",
                          "pack.set", "pack.edit", "pack.enable", "pack.remove"}
  /\ PlainOps("filters") = {"filter.add", "filter.update", "filter.remove", "filter.enable"}
  /\ PlainOps("hosts") = {"host.allow", "host.deny", "host.secret", "limits"}
BY DEF PlainOps, OpsOf, RoleOps

LEMMA Domains ==
  ASSUME NEW q, Request(q)
  PROVE  "op" \in DOMAIN q
BY DEF Request, Blank

LEMMA EditedPlain ==
  ASSUME NEW m, NEW q, Request(q), NEW i, NEW f
  PROVE  PlainCalls(Edited(m, q, i, f))
<1> DEFINE new == f @@ m.triggers[i].f
           w == [q EXCEPT !.id = i, !.f = new]
<1>1. "op" \in DOMAIN w
  BY Domains
<1> HIDE DEF w
<1>2. PlainCalls(Trigger(w, "trigger.update"))
  BY <1>1, OneTrigger, RegistryOps
<1> QED
  BY <1>2, NoCalls DEF Edited, w, Refused

LEMMA RemoveOrTogglePlain ==
  ASSUME NEW m, NEW q, Request(q), q.ask \in {"trigger.remove", "trigger.enable"}
  PROVE  PlainCalls(RemoveOrToggle(m, q))
<1> DEFINE ids == {i \in TriggerId(m, q) : Free(m, i)}
           i == CHOOSE i \in ids : TRUE
           w == [q EXCEPT !.id = i]
<1>1. "op" \in DOMAIN w
  BY Domains
<1>2. RemoveOrToggle(m, q) = IF ids = {} THEN Refused ELSE Trigger(w, q.ask)
  BY DEF RemoveOrToggle
<1> HIDE DEF w, ids
<1>3. PlainCalls(Trigger(w, q.ask))
  BY <1>1, OneTrigger, RegistryOps
<1> QED
  BY <1>2, <1>3, NoCalls

LEMMA PatchTriggerPlain ==
  ASSUME NEW m, NEW q, Request(q)
  PROVE  PlainCalls(PatchTrigger(m, q))
<1> DEFINE f == Only(q.f, {"expr", "cooldown"})
           enable == IF "enabled" \in DOMAIN q.f THEN Trigger(q, "trigger.enable") ELSE << >>
           edit == Edited(m, q, q.id, f)
<1>1. PlainCalls(enable)
  BY Domains, OneTrigger, RegistryOps, NoCalls DEF Refused
<1>2. PlainCalls(edit)
  BY EditedPlain
<1>3. PatchTrigger(m, q) = IF DOMAIN f = {} THEN When(Free(m, q.id), enable)
                           ELSE IF Own(m, q.id) THEN edit \o enable ELSE Refused
  BY DEF PatchTrigger
<1> HIDE DEF f, enable, edit
<1> QED
  BY <1>1, <1>2, <1>3, BothCalls, WhenAllowed, NoCalls

LEMMA TriggerCommandsPlain ==
  ASSUME NEW m, NEW q, Request(q), q.ask \in {"trigger.add", "trigger.edit", "trigger.enable", "trigger.remove"}
  PROVE  PlainCalls(TriggerCommands(m, q))
<1>1. PlainCalls(AddCommand(m, q))
  BY Domains, OneTrigger, RegistryOps, WhenAllowed DEF AddCommand
<1>2. PlainCalls(CooldownOfTrigger(m, q))
  <2> DEFINE ids == {i \in TriggerId(m, q) : Own(m, i)}
             i == CHOOSE i \in ids : TRUE
  <2>1. CooldownOfTrigger(m, q) = IF ids = {} THEN Refused ELSE Edited(m, q, i, q.f)
    BY DEF CooldownOfTrigger
  <2> HIDE DEF ids
  <2> QED
    BY <2>1, EditedPlain, NoCalls
<1>3. q.ask \in {"trigger.remove", "trigger.enable"} => PlainCalls(RemoveOrToggle(m, q))
  BY RemoveOrTogglePlain
<1> QED
  BY <1>1, <1>2, <1>3 DEF TriggerCommands

LEMMA TriggerRoutesPlain ==
  ASSUME NEW m, NEW q, Request(q)
  PROVE  PlainCalls(TriggerRoutes(m, q))
<1>1. PlainCalls(Trigger(q, "trigger.add")) /\ PlainCalls(Trigger(q, "trigger.remove"))
  BY Domains, OneTrigger, RegistryOps
<1> QED
  BY <1>1, PatchTriggerPlain, WhenAllowed DEF TriggerRoutes

LEMMA SetPackTriggerPlain ==
  ASSUME NEW m, NEW q, Request(q)
  PROVE  PlainCalls(SetPackTrigger(m, q))
<1> DEFINE found == PackTrigger(m, q.key)
           held == "cooldown" :> IF found = {} THEN 0 ELSE m.triggers[CHOOSE i \in found : TRUE].f["cooldown"]
           w == [q EXCEPT !.f = @ @@ held]
           free == found # {} \/ Cardinality(PackTriggers(m)) < MaxPackTriggers
<1>1. "op" \in DOMAIN w
  BY Domains
<1>2. SetPackTrigger(m, q) = When(free, Trigger(w, "pack.set"))
  BY DEF SetPackTrigger
<1> HIDE DEF w, free
<1> QED
  BY <1>1, <1>2, OneTrigger, RegistryOps, WhenAllowed

LEMMA PackCooldownPlain ==
  ASSUME NEW m, NEW q, Request(q)
  PROVE  PlainCalls(PackCooldown(m, q))
<1> DEFINE found == PackTrigger(m, q.key)
           i == CHOOSE i \in found : TRUE
           w == [q EXCEPT !.id = i, !.f = Only(@, {"cooldown"})]
           changed == found # {} /\ q.f["cooldown"] # m.triggers[i].f["cooldown"]
<1>1. "op" \in DOMAIN w
  BY Domains
<1>2. PackCooldown(m, q) = When(changed, Trigger(w, "pack.edit"))
  BY DEF PackCooldown
<1> HIDE DEF w, changed
<1> QED
  BY <1>1, <1>2, OneTrigger, RegistryOps, WhenAllowed

LEMMA PackRequestsPlain ==
  ASSUME NEW m, NEW q, Request(q), q.ask \in {"pack.set", "pack.edit", "pack.remove"}
  PROVE  PlainCalls(PackTriggerCommand(m, q)) /\ PlainCalls(PackTriggerRoutes(m, q))
<1>1. PlainCalls(Trigger(q, "pack.enable")) /\ PlainCalls(Trigger(q, "pack.remove"))
  BY Domains, OneTrigger, RegistryOps
<1>2. PlainCalls(SetPackTrigger(m, q)) /\ PlainCalls(PackCooldown(m, q))
  BY SetPackTriggerPlain, PackCooldownPlain
<1>3. PlainCalls(PackTriggerCommand(m, q))
  BY <1>1, <1>2 DEF PackTriggerCommand
<1>4. PlainCalls(PackTriggerRoutes(m, q))
  <2> DEFINE a == IF "cooldown" \in DOMAIN q.f THEN PackCooldown(m, q) ELSE << >>
             b == IF "enabled" \in DOMAIN q.f THEN Trigger(q, "pack.enable") ELSE << >>
  <2>1. PlainCalls(a) /\ PlainCalls(b)
    BY <1>1, <1>2, NoCalls DEF Refused
  <2>2. /\ q.ask = "pack.set" => PackTriggerRoutes(m, q) = SetPackTrigger(m, q)
        /\ q.ask = "pack.edit" => PackTriggerRoutes(m, q) = When(PackTrigger(m, q.key) # {}, a \o b)
        /\ q.ask = "pack.remove" => PackTriggerRoutes(m, q) = When(PackTrigger(m, q.key) # {}, Trigger(q, "pack.remove"))
    BY DEF PackTriggerRoutes
  <2> HIDE DEF a, b
  <2>3. PlainCalls(a \o b)
    BY <2>1, BothCalls
  <2> QED
    BY <1>1, <1>2, <2>2, <2>3, WhenAllowed
<1> QED
  BY <1>3, <1>4

LEMMA FilterRequestsPlain ==
  ASSUME NEW m, NEW q, Request(q), q.ask \in {"filter.add", "filter.edit", "filter.enable", "filter.remove"}
  PROVE  /\ q.ask # "filter.edit" => PlainCalls(FilterCommand(m, q))
         /\ PlainCalls(FilterRoutes(m, q))
<1>1. q.ask # "filter.edit" => PlainCalls(Filter(q, q.ask))
  BY Domains, OneFilter, RegistryOps
<1>2. PlainCalls(PatchFilter(m, q))
  <2> DEFINE f == Only(q.f, {"pattern", "action"})
             enable == IF "enabled" \in DOMAIN q.f THEN Filter(q, "filter.enable") ELSE << >>
             new == f @@ m.filters[q.id].f
             w == [q EXCEPT !.f = new]
             edit == IF new = m.filters[q.id].f THEN << >> ELSE Filter(w, "filter.update")
  <2>1. PlainCalls(enable)
    BY Domains, OneFilter, RegistryOps, NoCalls DEF Refused
  <2>2. "op" \in DOMAIN w
    BY Domains
  <2>3. PatchFilter(m, q) = IF DOMAIN f = {} THEN enable ELSE IF ~FilterRow(q, m) THEN Refused ELSE edit \o enable
    BY DEF PatchFilter
  <2> HIDE DEF w, enable, f
  <2>4. PlainCalls(edit)
    BY <2>2, OneFilter, RegistryOps, NoCalls DEF Refused
  <2> HIDE DEF edit
  <2> QED
    BY <2>1, <2>3, <2>4, BothCalls, NoCalls
<1> QED
  BY <1>1, <1>2, WhenAllowed DEF FilterCommand, FilterRoutes

LEMMA HostMethodsPlain ==
  ASSUME NEW m, NEW q, Request(q), q.ask \in {"host.allow", "host.deny", "host.secret", "limits"}
  PROVE  PlainCalls(HostMethods(m, q))
<1> DEFINE v == [q EXCEPT !.op = q.ask]
           w == [q EXCEPT !.op = q.ask, !.f = @ @@ m.limits]
<1>1. v.op = q.ask
  BY Domains
<1>2. w.op = q.ask
  BY DEF Request, Blank
<1>3. /\ q.ask = "host.allow" => HostMethods(m, q) = One("hosts", v)
      /\ q.ask \in {"host.deny", "host.secret"} => HostMethods(m, q) = When(q.key \in DOMAIN m.hosts, One("hosts", v))
      /\ q.ask = "limits" => HostMethods(m, q) = One("hosts", w)
  BY DEF HostMethods
<1> HIDE DEF v, w
<1>4. PlainCalls(One("hosts", v)) /\ PlainCalls(One("hosts", w))
  BY <1>1, <1>2, OneWrite, RegistryOps DEF Services
<1> QED
  BY <1>3, <1>4, WhenAllowed

LEMMA HostRequestsPlain ==
  ASSUME NEW m, NEW q, Request(q), q.ask \in {"host.allow", "host.deny", "host.secret", "limits"}
  PROVE  PlainCalls(HostCommand(m, q)) /\ PlainCalls(HostRoutes(m, q))
BY HostMethodsPlain, WhenAllowed DEF HostCommand, HostRoutes

\* Whatever memory holds, a request that there is leads to good calls.
RoleAsks == {"role.create", "role.delete", "role.add", "role.remove"}

\* Whatever memory holds, a request that isn't about roles leads to plain calls.
LEMMA HandledPlain ==
  ASSUME NEW m, NEW q, Request(q), q.ask \notin RoleAsks
  PROVE  PlainCalls(Handled(m, q))
<1>1. CASE q.ask \in {"perm.set", "perm.allow", "perm.clear"}
  BY <1>1, PermCommandPlain DEF Handled
<1>2. CASE q.ask \in {"rule"}
  BY <1>2, RuleRoutePlain DEF Handled, Request
<1>3. CASE q.ask \in {"reset"}
  BY <1>3, ResetRoutePlain DEF Handled
<1>4. CASE q.ask \in {"cooldown"}
  BY <1>4, CooldownCommandPlain DEF Handled
<1>5. CASE q.ask \in {"cmd"}
  BY <1>5, CmdCommandPlain DEF Handled
<1>6. CASE q.ask \in {"module"}
  BY <1>6, ModuleCommandPlain, ModuleRoutePlain DEF Handled
<1>7. CASE q.ask \in {"callback"}
  BY <1>7, CallbackCommandPlain, CallbackRoutesPlain DEF Handled
<1>8. CASE q.ask \in {"ignore.me", "ignore.add", "ignore.remove"}
  BY <1>8, IgnoreCommandPlain, IgnoreRoutesPlain DEF Handled
<1>9. CASE q.ask \in {"unignore.me"}
  BY <1>9, UnignorePlain DEF Handled
<1>10. CASE q.ask \in {"admin.add", "admin.remove"}
  BY <1>10, AdminCommandPlain, AdminRoutesPlain DEF Handled
<1>11. CASE q.ask \in {"prefix"}
  BY <1>11, PrefixCommandPlain DEF Handled
<1>12. CASE q.ask \in {"automod"}
  BY <1>12, AutomodCommandPlain DEF Handled
<1>13. CASE q.ask \in {"fields"}
  BY <1>13, FieldRoutePlain DEF Handled
<1>14. CASE q.ask \in {"trigger.add", "trigger.edit", "trigger.enable", "trigger.remove"}
  BY <1>14, TriggerCommandsPlain, TriggerRoutesPlain DEF Handled
<1>15. CASE q.ask \in {"pack.set", "pack.edit", "pack.remove"}
  BY <1>15, PackRequestsPlain DEF Handled
<1>16. CASE q.ask \in {"filter.add", "filter.edit", "filter.enable", "filter.remove"}
  BY <1>16, FilterRequestsPlain DEF Handled, Request
<1>17. CASE q.ask \in {"host.allow", "host.deny", "host.secret", "limits"}
  BY <1>17, HostRequestsPlain DEF Handled
<1> QED
  BY <1>1, <1>2, <1>3, <1>4, <1>5, <1>6, <1>7, <1>8, <1>9, <1>10, <1>11, <1>12, <1>13, <1>14, <1>15, <1>16, <1>17 DEF Request, Asks, RoleAsks

\* A request about a role leads to one write: of a role as it was asked for, or of one that is in memory
\* and that whoever asks may manage.
LEMMA RoleChangeIs ==
  ASSUME NEW m, NEW q, Request(q), q.ask \in RoleAsks, RoleChange(m, q) # Refused
  PROVE  \E w : /\ RoleChange(m, q) = Change(w)
                /\ w.op = q.ask
                /\ q.ask = "role.create" => w.key = q.key /\ w.num = q.num
                /\ q.ask # "role.create" => w.id \in DOMAIN m.roles /\ CanManage(w.rank, w.who = Broadcaster, m.roles[w.id].rank)
<1> DEFINE found == RoleNamed(m, q.key)
           id == CHOOSE i \in found : TRUE
           rank == Rank(m, q)
           v == [q EXCEPT !.op = q.ask]
           w == [q EXCEPT !.op = q.ask, !.id = id, !.rank = rank]
<1>1. v.op = q.ask /\ v.key = q.key /\ v.num = q.num
  BY DEF Request, Blank
<1>2. CASE q.ask = "role.create"
  <2>1. RoleChange(m, q) = Change(v)
    BY <1>2 DEF RoleChange, When
  <2> HIDE DEF v
  <2> QED
    BY <1>1, <1>2, <2>1
<1>3. CASE q.ask # "role.create"
  <2> HIDE DEF id, rank
  <2>1. w.op = q.ask /\ w.id = id /\ w.rank = rank /\ w.who = q.who
    BY DEF Request, Blank
  <2> HIDE DEF w
  <2>2. found # {} /\ ManagesRole(m, q, m.roles[id].rank) /\ RoleChange(m, q) = Change(w)
    BY <1>3 DEF RoleChange, When, w, id, rank
  <2>3. id \in DOMAIN m.roles
    BY <2>2 DEF id, RoleNamed
  <2>4. CanManage(rank, q.who = Broadcaster, m.roles[id].rank)
    BY <2>2 DEF ManagesRole, rank
  <2> QED
    BY <1>3, <2>1, <2>2, <2>3, <2>4
<1> QED
  BY <1>2, <1>3

LEMMA PlainIsGood ==
  ASSUME NEW calls, PlainCalls(calls)
  PROVE  GoodCalls(calls)
<1>1. ASSUME NEW c, PlainCall(c)
      PROVE  GoodCall(c)
  <2>1. PICK W : c.writes \in Seq(W) /\ \A w \in W : w.op \in PlainOps(c.service)
    BY <1>1 DEF PlainCall, PlainWrites
  <2>2. WritesOf(c.service, c.writes)
    BY <2>1 DEF WritesOf, PlainOps
  <2> QED
    BY <1>1, <2>2 DEF PlainCall, GoodCall
<1> QED
  BY <1>1 DEF PlainCalls, GoodCalls

LEMMA ChangeIsGood ==
  ASSUME NEW w, w.op \in OpsOf("policy")
  PROVE  GoodCalls(Change(w))
<1> DEFINE c == Call("policy", <<w>>)
           W == {w}
           C == {c}
<1>1. c = [service |-> c.service, writes |-> c.writes] /\ c.service = "policy" /\ c.writes = <<w>>
  BY DEF Call
<1>2. <<w>> \in Seq(W) /\ \A x \in W : x.op \in OpsOf("policy")
  OBVIOUS
<1> HIDE DEF W
<1>3. WritesOf("policy", <<w>>)
  BY <1>2 DEF WritesOf
<1>4. GoodCall(c)
  BY <1>1, <1>3 DEF GoodCall, Services
<1>5. <<c>> \in Seq(C) /\ \A x \in C : GoodCall(x)
  BY <1>4
<1> HIDE DEF C
<1> QED
  BY <1>5 DEF GoodCalls, Change

LEMMA HandledGood ==
  ASSUME NEW m, NEW q, Request(q), Handled(m, q) # Refused
  PROVE  GoodCalls(Handled(m, q))
<1>1. CASE q.ask \in RoleAsks
  <2>1. Handled(m, q) = RoleChange(m, q)
    BY <1>1 DEF Handled, RoleAsks, RoleCommand, RoleRoutes
  <2>2. PICK w : RoleChange(m, q) = Change(w) /\ w.op = q.ask
    BY <1>1, <2>1, RoleChangeIs
  <2> QED
    BY <1>1, <2>1, <2>2, ChangeIsGood DEF OpsOf, RoleAsks
<1>2. CASE q.ask \notin RoleAsks
  BY <1>2, HandledPlain, PlainIsGood
<1> QED
  BY <1>1, <1>2

-----------------------------------------------------------------------------
(* The inductive invariant.                                                *)

GoodRun(run) ==
  /\ DOMAIN run = DOMAIN Idle
  /\ run.at \in {"idle", "lookup", "ready", "open", "reload"}
  /\ run.wrote \in BOOLEAN
  /\ run.at # "idle" => GoodCalls(run.calls) /\ run.calls # << >>
  /\ run.at \in {"idle", "lookup"} => ~run.wrote
  /\ run.at = "reload" => run.wrote
  /\ run.at \in {"ready", "open"} /\ Head(run.calls).service # "policy" => ~run.wrote

RunsAreGood ==
  /\ runs = [r \in Slots |-> runs[r]]
  /\ \A r \in Slots : GoodRun(runs[r])

TablesAreWhole ==
  /\ theme \in Themes
  /\ Tables(tables)
  /\ memory = [p \in Parts |-> memory[p]]

\* The transaction on the connection is that of the one request that has it open, and stays within its service.
OneTransaction ==
  /\ open # NoTransaction =>
       /\ open = [run |-> open.run, t |-> open.t, said |-> open.said, read |-> open.read]
       /\ open.run \in Slots
       /\ open.read \in BOOLEAN
       /\ Within(Service(open.run), tables, open)
  /\ \A r \in Slots : runs[r].at = "open" <=> (open # NoTransaction /\ open.run = r)

LevelWith(s, t) == \A p \in PartsOf(s) : memory[p] = t[p]

\* A service is known to be behind, or will be read again, or has read what is open, or is level.
Covered(s) ==
  \/ s \in behind
  \/ \E r \in Slots : runs[r].wrote /\ Service(r) = s
  \/ open # NoTransaction /\ open.read /\ Service(open.run) = s /\ LevelWith(s, open.t)
  \/ LevelWith(s, tables)

SettingsInv ==
  /\ TablesAreWhole
  /\ RunsAreGood
  /\ OneTransaction
  /\ \A s \in Services : Covered(s)

LEMMA HeadAndTail ==
  ASSUME NEW S, NEW x \in Seq(S), x # << >>
  PROVE  /\ Head(x) \in S
         /\ Tail(x) \in Seq(S)
         /\ Head(x) = x[1] /\ 1 \in DOMAIN x
         /\ Tail(x) = << >> <=> Len(x) = 1
<1>1. Len(x) \in Nat /\ Len(x) # 0 /\ DOMAIN x = 1..Len(x)
  OBVIOUS
<1>2. Head(x) = x[1] /\ x[1] \in S
  BY <1>1
<1>3. Tail(x) \in Seq(S) /\ Len(Tail(x)) = Len(x) - 1
  BY <1>1
<1>4. Tail(x) = << >> <=> Len(Tail(x)) = 0
  BY <1>3
<1> QED
  BY <1>1, <1>2, <1>3, <1>4

LEMMA FirstCall ==
  ASSUME NEW calls, GoodCalls(calls), calls # << >>
  PROVE  /\ GoodCall(Head(calls))
         /\ GoodCalls(Tail(calls))
         /\ Len(calls) # 1 => Tail(calls) # << >>
<1>1. PICK C : calls \in Seq(C) /\ \A c \in C : GoodCall(c)
  BY DEF GoodCalls
<1>2. Head(calls) \in C /\ Tail(calls) \in Seq(C) /\ (Len(calls) # 1 => Tail(calls) # << >>)
  BY <1>1, HeadAndTail
<1> QED
  BY <1>1, <1>2 DEF GoodCalls

LEMMA FirstWrite ==
  ASSUME NEW c, GoodCall(c)
  PROVE  /\ Head(c.writes).op \in OpsOf(c.service)
         /\ WritesOf(c.service, Tail(c.writes))
         /\ c.service # "policy" => Tail(c.writes) = << >>
<1>1. PICK W : c.writes \in Seq(W) /\ \A w \in W : w.op \in OpsOf(c.service)
  BY DEF GoodCall, WritesOf
<1>2. c.writes # << >> /\ (c.service # "policy" => Len(c.writes) = 1)
  BY DEF GoodCall
<1> DEFINE writes == c.writes
<1> HIDE DEF writes
<1>3. /\ Head(writes) \in W
      /\ Tail(writes) \in Seq(W)
      /\ Len(writes) = 1 => Tail(writes) = << >>
  BY <1>1, <1>2, HeadAndTail DEF writes
<1> QED
  BY <1>1, <1>2, <1>3 DEF WritesOf, writes

\* The call with its first write done is still good while it has others.
LEMMA FewerWrites ==
  ASSUME NEW calls, GoodCalls(calls), calls # << >>, Tail(Head(calls).writes) # << >>
  PROVE  LET left == [calls EXCEPT ![1].writes = Tail(Head(calls).writes)]
         IN GoodCalls(left) /\ left # << >> /\ Head(left).service = Head(calls).service
<1>1. PICK C : calls \in Seq(C) /\ \A c \in C : GoodCall(c)
  BY DEF GoodCalls
<1> DEFINE c == Head(calls)
           writes == Tail(c.writes)
           d == [c EXCEPT !.writes = writes]
           left == [calls EXCEPT ![1] = d]
<1>2. GoodCall(c) /\ c = calls[1] /\ 1 \in DOMAIN calls
  BY <1>1, FirstCall, HeadAndTail
<1>3. WritesOf(c.service, writes) /\ c.service = "policy"
  BY <1>2, FirstWrite
<1>4. d.service = c.service /\ d.writes = writes /\ d = [service |-> d.service, writes |-> d.writes]
  <2>1. c = [service |-> c.service, writes |-> c.writes]
    BY <1>2 DEF GoodCall
  <2> DEFINE service == c.service
             all == c.writes
  <2> HIDE DEF c, writes, service, all
  <2>2. c = [service |-> service, writes |-> all]
    BY <2>1 DEF service, all
  <2>3. d = [service |-> service, writes |-> writes]
    BY <2>2
  <2> QED
    BY <2>2, <2>3 DEF service
<1>5. GoodCall(d)
  BY <1>2, <1>3, <1>4 DEF GoodCall
<1>6. left = [calls EXCEPT ![1].writes = Tail(Head(calls).writes)]
  BY <1>2
<1> DEFINE D == C \cup {d}
<1>7. \A x \in D : GoodCall(x)
  BY <1>1, <1>5
<1> HIDE DEF d, c, writes
<1>8. left \in Seq(D) /\ left # << >> /\ Head(left) = d
  <2>1. calls \in Seq(D) /\ d \in D
    BY <1>1
  <2> HIDE DEF D
  <2>2. left \in Seq(D) /\ Len(left) = Len(calls) /\ left[1] = d
    BY <1>2, <2>1
  <2> QED
    BY <1>2, <2>2
<1> HIDE DEF left, D
<1>9. GoodCalls(left)
  BY <1>7, <1>8 DEF GoodCalls
<1> QED
  BY <1>4, <1>6, <1>8, <1>9 DEF c

LEMMA EndedIsGood ==
  ASSUME NEW run, GoodRun(run), run.at \in {"open", "reload"}
  PROVE  GoodRun(Ended(run)) /\ ~Ended(run).wrote /\ Ended(run).at \in {"idle", "ready"}
<1>1. GoodRun(Idle) /\ ~Idle.wrote /\ Idle.at = "idle"
  BY DEF GoodRun, Idle
<1>2. CASE Len(run.calls) = 1
  BY <1>1, <1>2 DEF Ended
<1>3. CASE Len(run.calls) # 1
  <2> DEFINE calls == Tail(run.calls)
             next == [run EXCEPT !.at = "ready", !.calls = calls, !.wrote = FALSE]
  <2>1. GoodCalls(calls) /\ calls # << >>
    BY <1>3, FirstCall DEF GoodRun
  <2> HIDE DEF calls
  <2>2. DOMAIN run = DOMAIN Idle
    BY DEF GoodRun
  <2>3. DOMAIN next = DOMAIN Idle /\ next.at = "ready" /\ next.calls = calls /\ next.wrote = FALSE
    BY <2>2 DEF Idle
  <2>4. Ended(run) = next
    BY <1>3 DEF Ended, calls
  <2> HIDE DEF next
  <2>5. GoodRun(next)
    BY <2>1, <2>3 DEF GoodRun
  <2> QED
    BY <2>3, <2>4, <2>5
<1> QED
  BY <1>2, <1>3

-----------------------------------------------------------------------------
(* Every step keeps it.                                                    *)

LEMMA InitHolds == Init => SettingsInv
<1> SUFFICES ASSUME Init
             PROVE  SettingsInv
  OBVIOUS
<1>1. TablesAreWhole
  BY TablesAssumption DEF Init, TablesAreWhole, Tables
<1>2. GoodRun(Idle)
  BY DEF GoodRun, Idle
<1>3. RunsAreGood
  BY <1>2 DEF Init, RunsAreGood
<1>4. OneTransaction
  BY DEF Init, OneTransaction, Idle
<1>5. \A s \in Services : Covered(s)
  BY DEF Init, Covered, LevelWith
<1> QED
  BY <1>1, <1>3, <1>4, <1>5 DEF SettingsInv

\* One request's own state changes, and it neither has nor gets the transaction.
LEMMA OneRunMoves ==
  ASSUME SettingsInv, NEW r \in Slots, NEW run, runs' = [runs EXCEPT ![r] = run], GoodRun(run),
         runs[r].at # "open", run.at # "open",
         runs[r].wrote => (run.wrote /\ Head(run.calls).service = Service(r)) \/ Service(r) \in behind',
         UNCHANGED <<tables, memory, open, theme>>, behind \subseteq behind'
  PROVE  SettingsInv'
<1>1. TablesAreWhole'
  BY DEF SettingsInv, TablesAreWhole, Tables
<1>2. runs'[r] = run /\ \A x \in Slots : x # r => runs'[x] = runs[x]
  BY DEF SettingsInv, RunsAreGood
<1>3. RunsAreGood'
  BY <1>2 DEF SettingsInv, RunsAreGood
<1>4. open # NoTransaction => open.run # r /\ Service(open.run)' = Service(open.run)
  BY <1>2 DEF SettingsInv, OneTransaction, Service
<1>5. OneTransaction'
  BY <1>2, <1>4 DEF SettingsInv, OneTransaction
<1>6. ASSUME NEW s \in Services
      PROVE  Covered(s)'
  <2>1. Covered(s)
    BY DEF SettingsInv
  <2>2. CASE s \in behind
    BY <2>2 DEF Covered
  <2>3. ASSUME NEW x \in Slots, runs[x].wrote, Service(x) = s
        PROVE  Covered(s)'
    BY <2>3, <1>2 DEF Covered, Service
  <2>4. CASE open # NoTransaction /\ open.read /\ Service(open.run) = s /\ LevelWith(s, open.t)
    BY <2>4, <1>4 DEF Covered, LevelWith
  <2>5. CASE LevelWith(s, tables)
    BY <2>5 DEF Covered, LevelWith
  <2> QED
    BY <2>1, <2>2, <2>3, <2>4, <2>5 DEF Covered
<1> QED
  BY <1>1, <1>3, <1>5, <1>6 DEF SettingsInv

LEMMA IdleIsGood == GoodRun(Idle) /\ Idle.at = "idle" /\ ~Idle.wrote
BY DEF GoodRun, Idle

LEMMA BeginKeeps ==
  ASSUME SettingsInv, NEW r \in Slots, NEW q \in Requests(theme), Begin(r, q)
  PROVE  SettingsInv'
<1> DEFINE calls == Handled(memory, q)
           run == [at |-> IF LooksUp(q) THEN "lookup" ELSE "ready", q |-> q, calls |-> calls,
                   wrote |-> FALSE, mine |-> {}, beside |-> Unseen(r)]
<1>1. Request(q)
  BY RequestsAssumption DEF SettingsInv, TablesAreWhole
<1>2. GoodCalls(calls) /\ calls # << >>
  BY <1>1, HandledGood DEF Begin, Refused
<1>3. runs' = [runs EXCEPT ![r] = run] /\ runs[r].at = "idle"
  BY DEF Begin, Busy
<1>4. UNCHANGED <<tables, memory, open, theme, behind>>
  BY DEF Begin
<1> HIDE DEF calls
<1>5. run.at \in {"lookup", "ready"} /\ run.wrote = FALSE /\ run.calls = calls /\ DOMAIN run = DOMAIN Idle
  BY DEF Idle
<1> HIDE DEF run
<1>6. GoodRun(run)
  BY <1>2, <1>5 DEF GoodRun
<1>7. ~runs[r].wrote
  BY <1>3 DEF SettingsInv, RunsAreGood, GoodRun
<1> QED
  BY <1>3, <1>4, <1>5, <1>6, <1>7, OneRunMoves

LEMMA LookedUpKeeps ==
  ASSUME SettingsInv, NEW r \in Slots, LookedUp(r)
  PROVE  SettingsInv'
<1>1. GoodRun(runs[r]) /\ runs[r].at = "lookup" /\ ~runs[r].wrote
  BY DEF LookedUp, SettingsInv, RunsAreGood, GoodRun
<1>2. UNCHANGED <<tables, memory, open, theme, behind>>
  BY DEF LookedUp
<1>3. CASE runs' = [runs EXCEPT ![r].at = "ready"]
  <2> DEFINE run == [runs[r] EXCEPT !.at = "ready"]
  <2>1. DOMAIN runs[r] = DOMAIN Idle
    BY <1>1 DEF GoodRun
  <2>2. /\ run.at = "ready" /\ run.wrote = runs[r].wrote /\ run.calls = runs[r].calls
        /\ DOMAIN run = DOMAIN Idle
    BY <2>1 DEF Idle
  <2>3. runs' = [runs EXCEPT ![r] = run]
    BY <1>3
  <2> HIDE DEF run
  <2>4. GoodRun(run)
    BY <1>1, <2>2 DEF GoodRun
  <2> QED
    BY <1>1, <1>2, <2>2, <2>3, <2>4, OneRunMoves
<1>4. CASE runs' = [runs EXCEPT ![r] = Idle]
  BY <1>1, <1>2, <1>4, IdleIsGood, OneRunMoves
<1> QED
  BY <1>3, <1>4 DEF LookedUp

\* A write that starts its transaction.
LEMMA OpenKeeps ==
  ASSUME SettingsInv, NEW r \in Slots, Write(r), open' # NoTransaction
  PROVE  SettingsInv'
<1> DEFINE w == Head(Head(runs[r].calls).writes)
           res == Apply(w, tables, memory, lastId + 1)
           run == [runs[r] EXCEPT !.at = "open"]
<1>1. GoodRun(runs[r]) /\ runs[r].at = "ready" /\ open = NoTransaction
  BY DEF Write, SettingsInv, RunsAreGood
<1>2. res.ok /\ open' = [run |-> r, t |-> res.t, said |-> res.said, read |-> FALSE] /\ UNCHANGED behind
      /\ runs' = [runs EXCEPT ![r] = run]
  BY <1>1 DEF Write
<1>3. UNCHANGED <<tables, memory, theme>>
  BY DEF Write
<1>4. GoodCall(Head(runs[r].calls))
  BY <1>1, FirstCall DEF GoodRun
<1>5. Within(Service(r), tables, res)
  BY <1>2, <1>4, FirstWrite, WritesWithin DEF SettingsInv, TablesAreWhole, Service, GoodCall
<1> HIDE DEF res
<1>6. DOMAIN runs[r] = DOMAIN Idle
  BY <1>1 DEF GoodRun
<1>7. run.at = "open" /\ run.wrote = runs[r].wrote /\ run.calls = runs[r].calls /\ DOMAIN run = DOMAIN Idle
  BY <1>6 DEF Idle
<1> HIDE DEF run
<1>8. GoodRun(run)
  BY <1>1, <1>7 DEF GoodRun
<1>9. runs'[r] = run /\ \A x \in Slots : x # r => runs'[x] = runs[x]
  BY <1>2 DEF SettingsInv, RunsAreGood
<1>10. \A x \in Slots : Service(x)' = Service(x)
  BY <1>7, <1>9 DEF Service
<1>11. RunsAreGood'
  BY <1>2, <1>8, <1>9 DEF SettingsInv, RunsAreGood
<1>12. Within(Service(open.run), tables, open)'
  <2>1. open'.t = res.t /\ open'.said = res.said /\ open'.run = r /\ tables' = tables
    BY <1>2, <1>3
  <2>2. Within(Service(r), tables, open')
    BY <1>5, <2>1 DEF Within
  <2> QED
    BY <1>10, <2>1, <2>2 DEF Service
<1>13. OneTransaction'
  <2>1. open' = [run |-> open'.run, t |-> open'.t, said |-> open'.said, read |-> open'.read] /\ open'.run = r /\ open'.read = FALSE
    BY <1>2
  <2>2. \A x \in Slots : runs'[x].at = "open" <=> x = r
    BY <1>1, <1>7, <1>9 DEF SettingsInv, OneTransaction
  <2> QED
    BY <1>12, <2>1, <2>2 DEF OneTransaction
<1>14. \A s \in Services : Covered(s)'
  BY <1>1, <1>2, <1>3, <1>7, <1>9, <1>10 DEF SettingsInv, Covered, LevelWith
<1>15. TablesAreWhole'
  BY <1>3 DEF SettingsInv, TablesAreWhole, Tables
<1> QED
  BY <1>11, <1>13, <1>14, <1>15 DEF SettingsInv

LEMMA WriteKeeps ==
  ASSUME SettingsInv, NEW r \in Slots, Write(r)
  PROVE  SettingsInv'
<1>1. CASE open' # NoTransaction
  BY <1>1, OpenKeeps
<1>2. CASE open' = NoTransaction
  <2>1. runs' = [runs EXCEPT ![r] = Idle] /\ behind' = Stale(r) /\ open' = open
    BY <1>2 DEF Write, NoTransaction
  <2>2. runs[r].at = "ready" /\ UNCHANGED <<tables, memory, theme>>
    BY DEF Write
  <2>3. behind \subseteq behind' /\ (runs[r].wrote => Service(r) \in behind')
    BY <2>1 DEF Stale
  <2> QED
    BY <2>1, <2>2, <2>3, IdleIsGood, OneRunMoves
<1> QED
  BY <1>1, <1>2

LEMMA PartsApart ==
  ASSUME NEW a \in Services, NEW b \in Services, a # b, NEW p \in PartsOf(b)
  PROVE  p \in Parts \ PartsOf(a)
<1>1. p \in Parts
  BY DEF Parts
<1> QED
  BY <1>1, PartsAre DEF Services

LEMMA ServiceIs ==
  ASSUME SettingsInv, NEW r \in Slots, runs[r].at # "idle"
  PROVE  Service(r) \in Services
<1>1. GoodCall(Head(runs[r].calls))
  BY FirstCall DEF SettingsInv, RunsAreGood, GoodRun
<1> QED
  BY <1>1 DEF GoodCall, Service

\* What a committing request does next: its next write, nothing more of the call, or the reload.
LEMMA CommitLeaves ==
  ASSUME SettingsInv, NEW r \in Slots, Commit(r)
  PROVE  /\ GoodRun(runs'[r])
         /\ runs'[r].at # "open"
         /\ \/ runs'[r].wrote /\ Service(r)' = Service(r)
            \/ tables' = tables /\ ~runs[r].wrote
<1> DEFINE changed == Changes(tables, open.t)
           writes == Tail(Head(runs[r].calls).writes)
           run == [runs[r] EXCEPT !.mine = @ \cup changed]
           more == [run EXCEPT !.at = "ready", !.calls[1].writes = writes, !.wrote = TRUE]
           last == [run EXCEPT !.at = "reload", !.wrote = TRUE]
           found == ~(Service(r) # "policy" /\ open.said = {})
<1>1. GoodRun(runs[r]) /\ runs[r].at = "open" /\ open # NoTransaction /\ open.run = r
  BY DEF Commit, SettingsInv, RunsAreGood, OneTransaction
<1>2. runs'[r] = IF writes # << >> THEN more ELSE IF ~found THEN Ended(run) ELSE last
  BY DEF Commit
<1>3. DOMAIN runs[r] = DOMAIN Idle
  BY <1>1 DEF GoodRun
<1>4. run.at = "open" /\ run.calls = runs[r].calls /\ run.wrote = runs[r].wrote /\ DOMAIN run = DOMAIN Idle
  BY <1>1, <1>3 DEF Idle
<1>5. GoodCalls(runs[r].calls) /\ runs[r].calls # << >> /\ GoodCall(Head(runs[r].calls))
  BY <1>1, FirstCall DEF GoodRun
<1> HIDE DEF changed, run
<1>6. CASE writes # << >>
  <2> DEFINE calls == [run.calls EXCEPT ![1].writes = writes]
  <2>1. GoodCalls(calls) /\ calls # << >> /\ Head(calls).service = Head(runs[r].calls).service
    BY <1>4, <1>5, <1>6, FewerWrites
  <2>2. Head(runs[r].calls).service = "policy"
    BY <1>5, <1>6, FirstWrite
  <2> HIDE DEF writes
  <2>3. more.at = "ready" /\ more.calls = calls /\ more.wrote = TRUE /\ DOMAIN more = DOMAIN Idle
    BY <1>4 DEF Idle
  <2> HIDE DEF more, calls
  <2>4. GoodRun(more)
    BY <2>1, <2>2, <2>3 DEF GoodRun
  <2> QED
    BY <1>2, <1>6, <2>1, <2>3, <2>4 DEF Service
<1>7. CASE writes = << >> /\ ~found
  <2>1. GoodRun(run)
    BY <1>1, <1>4 DEF GoodRun
  <2>2. GoodRun(Ended(run)) /\ Ended(run).at # "open"
    BY <1>4, <2>1, EndedIsGood
  <2>3. ~runs[r].wrote
    BY <1>1, <1>7 DEF GoodRun, Service
  <2>4. tables' = open.t /\ open.t = tables
    BY <1>1, <1>7 DEF Commit, SettingsInv, OneTransaction, Within
  <2> QED
    BY <1>2, <1>7, <2>2, <2>3, <2>4
<1>8. CASE writes = << >> /\ found
  <2>1. last.at = "reload" /\ last.calls = runs[r].calls /\ last.wrote = TRUE /\ DOMAIN last = DOMAIN Idle
    BY <1>4 DEF Idle
  <2> HIDE DEF last
  <2>2. GoodRun(last)
    BY <1>5, <2>1 DEF GoodRun
  <2> QED
    BY <1>2, <1>8, <2>1, <2>2 DEF Service
<1> QED
  BY <1>6, <1>7, <1>8

LEMMA CommitKeeps ==
  ASSUME SettingsInv, NEW r \in Slots, Commit(r)
  PROVE  SettingsInv'
<1> DEFINE changed == Changes(tables, open.t)
<1>1. /\ runs[r].at = "open" /\ open # NoTransaction /\ open.run = r
      /\ Within(Service(r), tables, open)
  BY DEF Commit, SettingsInv, OneTransaction
<1>2. tables' = open.t /\ open' = NoTransaction /\ UNCHANGED <<memory, theme, behind>>
  BY DEF Commit
<1>3. TablesAreWhole'
  BY <1>1, <1>2 DEF SettingsInv, TablesAreWhole, Tables, Within
<1>4. ASSUME NEW x \in Slots, x # r
      PROVE  /\ runs'[x].at = runs[x].at /\ runs'[x].wrote = runs[x].wrote
             /\ runs'[x].calls = runs[x].calls /\ DOMAIN runs'[x] = DOMAIN runs[x]
  <2>1. runs'[x] = IF Busy(x) THEN [runs[x] EXCEPT !.beside = @ \cup changed] ELSE runs[x]
    BY <1>4 DEF Commit
  <2> HIDE DEF changed
  <2> QED
    BY <2>1
<1>5. \A x \in Slots : GoodRun(runs'[x])
  BY <1>4, CommitLeaves DEF SettingsInv, RunsAreGood, GoodRun
<1>6. RunsAreGood'
  <2>1. runs' = [x \in Slots |-> runs'[x]]
    BY DEF Commit
  <2> QED
    BY <1>5, <2>1 DEF RunsAreGood
<1>7. OneTransaction'
  <2>1. \A x \in Slots : runs'[x].at # "open"
    BY <1>1, <1>4, CommitLeaves DEF SettingsInv, OneTransaction
  <2> QED
    BY <1>2, <2>1 DEF OneTransaction
<1>8. ASSUME NEW s \in Services
      PROVE  Covered(s)'
  <2>1. Covered(s) /\ Service(r) \in Services
    BY <1>1, ServiceIs DEF SettingsInv
  <2>2. CASE s \in behind
    BY <1>2, <2>2 DEF Covered
  <2>3. ASSUME NEW x \in Slots, x # r, runs[x].wrote, Service(x) = s
        PROVE  Covered(s)'
    BY <1>4, <2>3 DEF Covered, Service
  <2>4. CASE runs[r].wrote /\ Service(r) = s
    BY <2>4, CommitLeaves DEF Covered
  <2>5. CASE Service(open.run) = s /\ LevelWith(s, open.t)
    BY <1>2, <2>5 DEF Covered, LevelWith
  <2>6. CASE LevelWith(s, tables)
    <3>1. CASE s = Service(r)
      <4>1. CASE runs'[r].wrote /\ Service(r)' = Service(r)
        BY <3>1, <4>1 DEF Covered
      <4>2. CASE tables' = tables
        BY <1>2, <2>6, <4>2 DEF Covered, LevelWith
      <4> QED
        BY <4>1, <4>2, CommitLeaves
    <3>2. CASE s # Service(r)
      <4>1. \A p \in PartsOf(s) : open.t[p] = tables[p]
        BY <1>1, <2>1, <3>2, PartsApart DEF Within
      <4> QED
        BY <1>2, <2>6, <4>1 DEF Covered, LevelWith
    <3> QED
      BY <3>1, <3>2
  <2> QED
    BY <2>1, <2>2, <2>3, <2>4, <2>5, <2>6 DEF Covered
<1> QED
  BY <1>3, <1>6, <1>7, <1>8 DEF SettingsInv

LEMMA ReloadKeeps ==
  ASSUME SettingsInv, NEW r \in Slots, Reload(r)
  PROVE  SettingsInv'
<1> DEFINE seen == IF open = NoTransaction THEN tables ELSE open.t
<1>1. GoodRun(runs[r]) /\ runs[r].at = "reload" /\ Service(r) \in Services
  BY ServiceIs DEF Reload, SettingsInv, RunsAreGood
<1>2. memory' = [p \in Parts |-> IF p \in PartsOf(Service(r)) THEN seen[p] ELSE memory[p]]
  <2>1. DOMAIN memory = Parts
    BY DEF SettingsInv, TablesAreWhole
  <2> QED
    BY <2>1 DEF Reload
<1>3. UNCHANGED <<tables, theme>> /\ behind' = behind \ {Service(r)}
  BY DEF Reload
<1>4. runs'[r] = Ended(runs[r]) /\ \A x \in Slots : x # r => runs'[x] = runs[x]
  BY DEF Reload, SettingsInv, RunsAreGood
<1>5. GoodRun(runs'[r]) /\ runs'[r].at # "open"
  BY <1>1, <1>4, EndedIsGood
<1>6. RunsAreGood'
  <2>1. runs' = [x \in Slots |-> runs'[x]]
    BY DEF Reload, SettingsInv, RunsAreGood
  <2> QED
    BY <1>4, <1>5, <2>1 DEF SettingsInv, RunsAreGood
<1>7. TablesAreWhole'
  BY <1>2, <1>3 DEF SettingsInv, TablesAreWhole, Tables
<1>8. /\ open = NoTransaction => open' = NoTransaction
      /\ open # NoTransaction =>
           /\ open' = [run |-> open.run, t |-> open.t, said |-> open.said, read |-> TRUE]
           /\ open' # NoTransaction
           /\ open.run # r /\ open.run \in Slots
           /\ Service(open.run)' = Service(open.run)
           /\ Within(Service(open.run), tables, open)
  <2>1. open = NoTransaction => open' = NoTransaction
    BY DEF Reload
  <2>2. ASSUME open # NoTransaction
        PROVE  /\ open' = [run |-> open.run, t |-> open.t, said |-> open.said, read |-> TRUE]
               /\ open' # NoTransaction
    <3>1. open = [run |-> open.run, t |-> open.t, said |-> open.said, read |-> open.read]
      BY <2>2 DEF SettingsInv, OneTransaction
    <3>2. open' = [open EXCEPT !.read = TRUE]
      BY <2>2 DEF Reload
    <3> DEFINE a == open.run
               b == open.t
               c == open.said
               d == open.read
    <3>3. open = [run |-> a, t |-> b, said |-> c, read |-> d]
      BY <3>1
    <3> HIDE DEF a, b, c, d
    <3>4. open' = [run |-> a, t |-> b, said |-> c, read |-> TRUE]
      BY <3>2, <3>3
    <3>5. open' # NoTransaction
      BY <3>4 DEF NoTransaction
    <3> QED
      BY <3>4, <3>5 DEF a, b, c, d
  <2>3. open # NoTransaction => open.run # r /\ open.run \in Slots /\ Within(Service(open.run), tables, open)
    BY <1>1 DEF SettingsInv, OneTransaction
  <2>4. open # NoTransaction => open'.run = open.run
    BY <2>2
  <2>5. open # NoTransaction => Service(open.run)' = Service(open.run)
    BY <1>4, <2>3, <2>4 DEF Service
  <2> QED
    BY <2>1, <2>2, <2>3, <2>5
<1>9. OneTransaction'
  <2>1. \A x \in Slots : runs'[x].at = "open" <=> (open # NoTransaction /\ open.run = x)
    BY <1>1, <1>4, <1>5 DEF SettingsInv, OneTransaction
  <2>2. CASE open = NoTransaction
    BY <1>8, <2>1, <2>2 DEF OneTransaction
  <2>3. CASE open # NoTransaction
    <3>1. open'.run = open.run /\ open'.t = open.t /\ open'.said = open.said /\ open'.read = TRUE
      BY <1>8, <2>3
    <3>2. Within(Service(open.run), tables, open')
      BY <1>8, <2>3, <3>1 DEF Within
    <3>3. Within(Service(open.run), tables, open)'
      BY <1>3, <1>8, <2>3, <3>2
    <3>4. open' = [run |-> open'.run, t |-> open'.t, said |-> open'.said, read |-> open'.read]
      BY <1>8, <2>3, <3>1
    <3> QED
      BY <1>8, <2>1, <2>3, <3>1, <3>3, <3>4 DEF OneTransaction
  <2> QED
    BY <2>2, <2>3
<1>10. ASSUME NEW s \in Services
       PROVE  Covered(s)'
  <2>1. Covered(s)
    BY DEF SettingsInv
  <2>2. CASE s = Service(r)
    <3>1. \A p \in PartsOf(s) : memory'[p] = seen[p]
      BY <1>2, <2>2 DEF Parts
    <3>2. CASE open = NoTransaction
      BY <1>3, <3>1, <3>2 DEF Covered, LevelWith
    <3>3. CASE open # NoTransaction /\ Service(open.run) = s
      <4>1. open' # NoTransaction /\ open'.read /\ open'.t = open.t /\ Service(open.run)' = s
        BY <1>8, <3>3
      <4>2. LevelWith(s, open.t)'
        BY <3>1, <3>3, <4>1 DEF LevelWith
      <4> QED
        BY <4>1, <4>2 DEF Covered
    <3>4. CASE open # NoTransaction /\ Service(open.run) # s
      <4>1. Service(open.run) \in Services
        BY <1>8, <3>4, ServiceIs DEF SettingsInv, OneTransaction
      <4>2. \A p \in PartsOf(s) : open.t[p] = tables[p]
        BY <1>8, <3>4, <4>1, PartsApart DEF Within
      <4> QED
        BY <1>3, <3>1, <3>4, <4>2 DEF Covered, LevelWith
    <3> QED
      BY <3>2, <3>3, <3>4
  <2>3. CASE s # Service(r)
    <3>1. \A p \in PartsOf(s) : memory'[p] = memory[p]
      BY <1>1, <1>2, <2>3, PartsApart
    <3>2. CASE s \in behind
      BY <1>3, <2>3, <3>2 DEF Covered
    <3>3. ASSUME NEW x \in Slots, runs[x].wrote, Service(x) = s
          PROVE  Covered(s)'
      BY <1>4, <2>3, <3>3 DEF Covered, Service
    <3>4. CASE open # NoTransaction /\ Service(open.run) = s /\ LevelWith(s, open.t)
      <4>1. open' # NoTransaction /\ open'.read /\ open'.t = open.t /\ Service(open.run)' = s
        BY <1>8, <3>4
      <4>2. LevelWith(s, open.t)'
        BY <3>1, <3>4, <4>1 DEF LevelWith
      <4> QED
        BY <4>1, <4>2 DEF Covered
    <3>5. CASE LevelWith(s, tables)
      BY <1>3, <3>1, <3>5 DEF Covered, LevelWith
    <3> QED
      BY <2>1, <3>2, <3>3, <3>4, <3>5 DEF Covered
  <2> QED
    BY <2>2, <2>3
<1> QED
  BY <1>6, <1>7, <1>9, <1>10 DEF SettingsInv

\* A request that is cut gives its transaction up; what its service read of it makes the service stale.
LEMMA CutKeeps ==
  ASSUME SettingsInv, NEW r \in Slots, Cut(r)
  PROVE  SettingsInv'
<1>1. runs' = [runs EXCEPT ![r] = Idle] /\ UNCHANGED <<tables, memory, theme>>
  BY DEF Cut
<1>2. CASE runs[r].at # "open"
  <2>1. open' = open /\ behind' = Stale(r)
    BY <1>2 DEF Cut
  <2>2. behind \subseteq behind' /\ (runs[r].wrote => Service(r) \in behind')
    BY <2>1 DEF Stale
  <2> QED
    BY <1>1, <1>2, <2>1, <2>2, IdleIsGood, OneRunMoves
<1>3. CASE runs[r].at = "open"
  <2>1. open # NoTransaction /\ open.run = r /\ open' = NoTransaction
    BY <1>3 DEF Cut, SettingsInv, OneTransaction
  <2>2. behind \subseteq behind' /\ (runs[r].wrote \/ open.read => Service(r) \in behind')
    BY <1>3 DEF Cut, Stale
  <2>3. runs'[r] = Idle /\ \A x \in Slots : x # r => runs'[x] = runs[x]
    BY <1>1 DEF SettingsInv, RunsAreGood
  <2>4. RunsAreGood'
    BY <1>1, <2>3, IdleIsGood DEF SettingsInv, RunsAreGood
  <2>5. TablesAreWhole'
    BY <1>1 DEF SettingsInv, TablesAreWhole, Tables
  <2>6. OneTransaction'
    BY <2>1, <2>3, IdleIsGood DEF SettingsInv, OneTransaction
  <2>7. ASSUME NEW s \in Services
        PROVE  Covered(s)'
    BY <1>1, <2>1, <2>2, <2>3 DEF SettingsInv, Covered, LevelWith, Service
  <2> QED
    BY <2>4, <2>5, <2>6, <2>7 DEF SettingsInv
<1> QED
  BY <1>2, <1>3

LEMMA RestartKeeps ==
  ASSUME SettingsInv, Restart
  PROVE  SettingsInv'
<1>1. memory' = tables /\ open' = NoTransaction /\ UNCHANGED <<tables, theme>>
  BY DEF Restart
<1>2. \A r \in Slots : runs'[r] = Idle
  BY DEF Restart
<1>3. runs' = [r \in Slots |-> runs'[r]]
  BY DEF Restart
<1>4. TablesAreWhole'
  BY <1>1 DEF SettingsInv, TablesAreWhole, Tables
<1>5. RunsAreGood'
  BY <1>2, <1>3, IdleIsGood DEF RunsAreGood
<1>6. OneTransaction'
  BY <1>1, <1>2, IdleIsGood DEF OneTransaction
<1>7. \A s \in Services : Covered(s)'
  BY <1>1 DEF Covered, LevelWith
<1> QED
  BY <1>4, <1>5, <1>6, <1>7 DEF SettingsInv

LEMMA NothingKeeps ==
  ASSUME SettingsInv, UNCHANGED vars
  PROVE  SettingsInv'
<1>1. TablesAreWhole' /\ RunsAreGood' /\ OneTransaction'
  BY DEF vars, SettingsInv, TablesAreWhole, Tables, RunsAreGood, OneTransaction, Service
<1>2. \A s \in Services : Covered(s)'
  BY DEF vars, SettingsInv, Covered, LevelWith, Service
<1> QED
  BY <1>1, <1>2 DEF SettingsInv

LEMMA SettingsNext ==
  ASSUME SettingsInv, [Next]_vars
  PROVE  SettingsInv'
<1>1. ASSUME NEW r \in Slots, NEW q \in Requests(theme), Begin(r, q)
      PROVE  SettingsInv'
  BY <1>1, BeginKeeps
<1>2. ASSUME NEW r \in Slots, LookedUp(r) \/ Write(r) \/ Commit(r) \/ Reload(r) \/ Cut(r)
      PROVE  SettingsInv'
  BY <1>2, LookedUpKeeps, WriteKeeps, CommitKeeps, ReloadKeeps, CutKeeps
<1>3. CASE Restart
  BY <1>3, RestartKeeps
<1>4. CASE AllAnswered \/ UNCHANGED vars
  BY <1>4, NothingKeeps DEF AllAnswered
<1> QED
  BY <1>1, <1>2, <1>3, <1>4 DEF Next

\* With nothing under way, what is covered is level or known to be behind.
LEMMA CoveredIsLevel == SettingsInv => MemoryLevel
<1> SUFFICES ASSUME SettingsInv, \A r \in Slots : ~Busy(r), NEW s \in Services \ behind
             PROVE  LevelWith(s, tables)
  BY DEF MemoryLevel, LevelWith
<1>1. \A r \in Slots : runs[r].at = "idle" /\ ~runs[r].wrote
  BY DEF Busy, SettingsInv, RunsAreGood, GoodRun
<1>2. open = NoTransaction
  BY <1>1 DEF SettingsInv, OneTransaction
<1> QED
  BY <1>1, <1>2 DEF SettingsInv, Covered

\* Once nothing is under way, memory holds what the tables hold (PolicyService.mutate, the registries'
\* reloads), however many requests, cuts and starts came before.
THEOREM MemorySafety == Spec => []MemoryLevel
<1>1. Init => SettingsInv
  BY InitHolds
<1>2. SettingsInv /\ [Next]_vars => SettingsInv'
  BY SettingsNext
<1>3. SettingsInv => MemoryLevel
  BY CoveredIsLevel
<1> QED
  BY <1>1, <1>2, <1>3, PTL DEF Spec

-----------------------------------------------------------------------------
(* Nobody gets what is above them.                                         *)
(*                                                                         *)
(* A role's id is never used again, and its rank never changes: whatever   *)
(* memory, the tables and an open transaction hold under one id is of one  *)
(* rank.  So a membership that is about to be written is of a role its     *)
(* giver may manage, or of one that is gone.                               *)

RoleWrite(roles, n, w) ==
  /\ w.op = "role.create" => CustomName(w.key) /\ w.num \in CustomRanks
  /\ w.op = "role.add" =>
       /\ w.id \in 1..n
       /\ w.id \in DOMAIN roles => CanManage(w.rank, w.who = Broadcaster, roles[w.id].rank)

SafeWrites(held, n, writes) == \E W : writes \in Seq(W) /\ \A w \in W : \A roles \in held : RoleWrite(roles, n, w)
SafeCalls(held, n, calls) == \E C : calls \in Seq(C) /\ \A c \in C : SafeWrites(held, n, c.writes)

RoleTables == {tables.roles, memory.roles} \cup (IF open = NoTransaction THEN {} ELSE {open.t.roles})
AllGranted(members) == \A x \in DOMAIN members : members[x]

RolesInv ==
  /\ lastId \in Nat
  /\ \A roles \in RoleTables : CustomRoles(roles) /\ DOMAIN roles \subseteq 1..lastId
  /\ \A a, b \in RoleTables : \A i \in DOMAIN a \cap DOMAIN b : a[i].rank = b[i].rank
  /\ \A r \in Slots : runs[r].at # "idle" => SafeCalls(RoleTables, lastId, runs[r].calls)
  /\ AllGranted(tables.members)
  /\ open # NoTransaction => AllGranted(open.t.members)

\* What a write does to the roles and their members.
RolesAfter(w, t, n, u) ==
  /\ CustomRoles(u.roles)
  /\ AllGranted(u.members)
  /\ \A i \in DOMAIN u.roles : \/ i \in DOMAIN t.roles /\ u.roles[i] = t.roles[i]
                               \/ w.op = "role.create" /\ i = n + 1

LEMMA RolesAlone ==
  ASSUME NEW w, NEW t, NEW n, NEW u, CustomRoles(t.roles), AllGranted(t.members),
         u.roles = t.roles, u.members = t.members
  PROVE  RolesAfter(w, t, n, u)
BY DEF RolesAfter

LEMMA WriteAndRoles ==
  ASSUME NEW service \in Services, NEW w, w.op \in OpsOf(service), NEW t, Tables(t), NEW m, NEW n \in Nat,
         Apply(w, t, m, n + 1).ok, RoleWrite(t.roles, n, w), CustomRoles(t.roles), AllGranted(t.members),
         DOMAIN t.roles \subseteq 1..n
  PROVE  RolesAfter(w, t, n, Apply(w, t, m, n + 1).t)
<1> DEFINE res == Apply(w, t, m, n + 1)
<1>1. CASE service # "policy"
  <2>1. Within(service, t, res)
    BY WritesWithin
  <2>2. "roles" \in Parts \ PartsOf(service) /\ "members" \in Parts \ PartsOf(service)
    BY <1>1, PartsAre DEF Services
  <2> QED
    BY <2>1, <2>2, RolesAlone DEF Within
<1>t. /\ DOMAIN t = Parts /\ "roles" \in Parts /\ "members" \in Parts
      /\ \A said : Done(t, said).t = t
  BY PartsAre DEF Tables, Done
<1>2. ASSUME NEW p \in {"channel", "admins", "modules", "switches", "rules", "cooldowns", "callbacks", "ignored"},
             NEW rows, NEW said, res = Done([t EXCEPT ![p] = rows], said)
      PROVE  RolesAfter(w, t, n, res.t)
  <2> HIDE DEF res
  <2>1. res.t = [t EXCEPT ![p] = rows]
    BY <1>2 DEF Done
  <2>2. res.t.roles = t.roles /\ res.t.members = t.members
    BY <1>t, <2>1
  <2> QED
    BY <2>2, RolesAlone
<1>3. ~Fails(t).ok
  BY DEF Fails
<1>4. CASE w.op = "field"
  <2>1. res = SetField(w, t)
    BY <1>4 DEF Apply
  <2> QED
    BY <2>1, <1>2, <1>3 DEF SetField
<1>5. CASE w.op = "role.create"
  <2> DEFINE row == [name |-> w.key, rank |-> w.num]
             roles == Put(t.roles, n + 1, row)
  <2>1. res = CreateRole(w, t, n + 1)
    BY <1>5 DEF Apply
  <2>2. res.t = [t EXCEPT !["roles"] = roles]
    BY <2>1, <1>3 DEF CreateRole, Done
  <2>3. res.t.roles = roles /\ res.t.members = t.members
    BY <2>2, <1>t
  <2>4. \A i \in DOMAIN roles : roles[i] = (IF i = n + 1 THEN row ELSE t.roles[i]) /\ (i = n + 1 \/ i \in DOMAIN t.roles)
    BY DEF Put
  <2>5. row.name = w.key /\ row.rank = w.num /\ CustomName(w.key) /\ w.num \in CustomRanks
    BY <1>5 DEF RoleWrite
  <2> HIDE DEF row, roles
  <2>6. CustomRoles(roles)
    BY <2>4, <2>5 DEF CustomRoles
  <2> QED
    BY <1>5, <2>3, <2>4, <2>6 DEF RolesAfter
<1>6. CASE w.op = "role.delete"
  <2>1. res = DeleteRole(w, t)
    BY <1>6 DEF Apply
  <2>2. CASE w.id \notin DOMAIN t.roles
    BY <1>t, <2>1, <2>2, RolesAlone DEF DeleteRole
  <2>3. CASE w.id \in DOMAIN t.roles
    <3> DEFINE roles == Without(t.roles, {w.id})
               members == Without(t.members, {x \in DOMAIN t.members : x[1] = w.id})
    <3>1. res.t = [t EXCEPT !.roles = roles, !.members = members]
      BY <2>1, <2>3 DEF DeleteRole, Done
    <3> HIDE DEF roles, members
    <3>2. res.t.roles = roles /\ res.t.members = members
      BY <3>1, <1>t
    <3>3. \A i \in DOMAIN roles : i \in DOMAIN t.roles /\ roles[i] = t.roles[i]
      BY DEF roles, Without, Restrict
    <3>4. \A x \in DOMAIN members : x \in DOMAIN t.members /\ members[x] = t.members[x]
      BY DEF members, Without, Restrict
    <3> QED
      BY <3>2, <3>3, <3>4 DEF RolesAfter, CustomRoles, AllGranted
  <2> QED
    BY <2>2, <2>3
<1>7. CASE w.op = "role.add"
  <2> DEFINE above == CanManage(w.rank, w.who = Broadcaster, t.roles[w.id].rank)
             members == Put(t.members, <<w.id, w.user>>, above)
  <2>1. res = AddMember(w, t)
    BY <1>7 DEF Apply
  <2>2. w.id \in DOMAIN t.roles /\ res.t = [t EXCEPT !["members"] = members]
    BY <2>1, <1>3 DEF AddMember, Done
  <2>3. above
    BY <1>7, <2>2 DEF RoleWrite
  <2> HIDE DEF above
  <2>4. AllGranted(members)
    BY <2>3 DEF AllGranted, Put
  <2> HIDE DEF members
  <2>5. res.t.roles = t.roles /\ res.t.members = members
    BY <2>2, <1>t
  <2> QED
    BY <2>4, <2>5 DEF RolesAfter
<1>8. CASE w.op = "role.remove"
  <2> DEFINE members == Without(t.members, {<<w.id, w.user>>})
  <2>1. res = RemoveMember(w, t)
    BY <1>8 DEF Apply
  <2>2. CASE <<w.id, w.user>> \notin DOMAIN t.members
    BY <1>t, <2>1, <2>2, RolesAlone DEF RemoveMember
  <2>3. CASE <<w.id, w.user>> \in DOMAIN t.members
    <3>1. res.t = [t EXCEPT !["members"] = members]
      BY <2>1, <2>3 DEF RemoveMember, Done
    <3>2. \A x \in DOMAIN members : x \in DOMAIN t.members /\ members[x] = t.members[x]
      BY DEF Without, Restrict
    <3> HIDE DEF members
    <3>3. res.t.roles = t.roles /\ res.t.members = members
      BY <3>1, <1>t
    <3> QED
      BY <3>2, <3>3 DEF RolesAfter, AllGranted
  <2> QED
    BY <2>2, <2>3
<1>9. CASE w.op = "admin"
  <2>1. res = SetAdmin(w, t)
    BY <1>9 DEF Apply
  <2> QED
    BY <2>1, <1>2 DEF SetAdmin
<1>10. CASE w.op = "module"
  <2>1. res = SetModule(w, t)
    BY <1>10 DEF Apply
  <2> QED
    BY <2>1, <1>2 DEF SetModule
<1>11. CASE w.op = "switch"
  <2>1. res = SetSwitch(w, t)
    BY <1>11 DEF Apply
  <2> QED
    BY <2>1, <1>2 DEF SetSwitch
<1>12. CASE w.op = "rule"
  <2>1. res = SetRule(w, t)
    BY <1>12 DEF Apply
  <2> QED
    BY <2>1, <1>2 DEF SetRule
<1>13. CASE w.op = "rule.sent"
  <2>1. res = SetRule([w EXCEPT !.f = RuleSent(m, w)], t)
    BY <1>13 DEF Apply
  <2> QED
    BY <2>1, <1>2 DEF SetRule
<1>14. CASE w.op = "cooldown"
  <2>1. res = SetCooldown(w, t)
    BY <1>14 DEF Apply
  <2> QED
    BY <2>1, <1>2 DEF SetCooldown
<1>15. CASE w.op = "callback"
  <2>1. res = SetCallback(w, t)
    BY <1>15 DEF Apply
  <2> QED
    BY <2>1, <1>2 DEF SetCallback
<1>16. CASE w.op = "ignore"
  <2>1. res = SetIgnored(w, t)
    BY <1>16 DEF Apply
  <2> QED
    BY <2>1, <1>2 DEF SetIgnored
<1>17. CASE w.op = "hear"
  <2>1. res = SetIgnored(w, t)
    BY <1>17 DEF Apply
  <2> QED
    BY <2>1, <1>2 DEF SetIgnored
<1> QED
  BY <1>1, <1>4, <1>5, <1>6, <1>7, <1>8, <1>9, <1>10, <1>11, <1>12, <1>13, <1>14, <1>15, <1>16, <1>17 DEF OpsOf

\* What is safe stays so when every role table there is then was, in what these writes look at, there before.
LEMMA StillSafe ==
  ASSUME NEW held, NEW n, NEW others, NEW k, NEW calls, SafeCalls(held, n, calls),
         \A w : (\A roles \in held : RoleWrite(roles, n, w)) => \A roles \in others : RoleWrite(roles, k, w)
  PROVE  SafeCalls(others, k, calls)
<1>1. PICK C : calls \in Seq(C) /\ \A c \in C : SafeWrites(held, n, c.writes)
  BY DEF SafeCalls
<1>2. ASSUME NEW c \in C
      PROVE  SafeWrites(others, k, c.writes)
  <2>1. PICK W : c.writes \in Seq(W) /\ \A w \in W : \A roles \in held : RoleWrite(roles, n, w)
    BY <1>1 DEF SafeWrites
  <2>2. \A w \in W : \A roles \in others : RoleWrite(roles, k, w)
    BY <2>1
  <2> QED
    BY <2>1, <2>2 DEF SafeWrites
<1> QED
  BY <1>1, <1>2 DEF SafeCalls

\* Writes that are about no role are safe.
LEMMA PlainIsSafe ==
  ASSUME NEW held, NEW n, NEW calls, PlainCalls(calls)
  PROVE  SafeCalls(held, n, calls)
<1>1. ASSUME NEW c, PlainCall(c)
      PROVE  SafeWrites(held, n, c.writes)
  <2>1. PICK W : c.writes \in Seq(W) /\ \A w \in W : w.op \in PlainOps(c.service)
    BY <1>1 DEF PlainCall, PlainWrites
  <2>2. \A w \in W : \A roles \in held : RoleWrite(roles, n, w)
    BY <2>1 DEF PlainOps, RoleOps, RoleWrite
  <2> QED
    BY <2>1, <2>2 DEF SafeWrites
<1> QED
  BY <1>1 DEF PlainCalls, SafeCalls

LEMMA ChangeIsSafe ==
  ASSUME NEW held, NEW n, NEW w, \A roles \in held : RoleWrite(roles, n, w)
  PROVE  SafeCalls(held, n, Change(w))
<1> DEFINE c == Call("policy", <<w>>)
           W == {w}
           C == {c}
<1>1. c.writes = <<w>>
  BY DEF Call
<1>2. <<w>> \in Seq(W) /\ \A x \in W : \A roles \in held : RoleWrite(roles, n, x)
  OBVIOUS
<1> HIDE DEF W
<1>3. SafeWrites(held, n, c.writes)
  BY <1>1, <1>2 DEF SafeWrites
<1>4. <<c>> \in Seq(C) /\ \A x \in C : SafeWrites(held, n, x.writes)
  BY <1>3
<1> HIDE DEF C
<1> QED
  BY <1>4 DEF SafeCalls, Change

LEMMA LaterCallsSafe ==
  ASSUME NEW held, NEW n, NEW calls, SafeCalls(held, n, calls), calls # << >>
  PROVE  /\ SafeCalls(held, n, Tail(calls))
         /\ SafeWrites(held, n, Head(calls).writes)
<1>1. PICK C : calls \in Seq(C) /\ \A c \in C : SafeWrites(held, n, c.writes)
  BY DEF SafeCalls
<1>2. Head(calls) \in C /\ Tail(calls) \in Seq(C)
  BY <1>1, HeadAndTail
<1> QED
  BY <1>1, <1>2 DEF SafeCalls

LEMMA FirstWriteSafe ==
  ASSUME NEW held, NEW n, NEW writes, SafeWrites(held, n, writes), writes # << >>
  PROVE  /\ \A roles \in held : RoleWrite(roles, n, Head(writes))
         /\ SafeWrites(held, n, Tail(writes))
<1>1. PICK W : writes \in Seq(W) /\ \A w \in W : \A roles \in held : RoleWrite(roles, n, w)
  BY DEF SafeWrites
<1>2. Head(writes) \in W /\ Tail(writes) \in Seq(W)
  BY <1>1, HeadAndTail
<1> QED
  BY <1>1, <1>2 DEF SafeWrites

LEMMA FewerWritesSafe ==
  ASSUME NEW held, NEW n, NEW calls, GoodCalls(calls), SafeCalls(held, n, calls), calls # << >>
  PROVE  SafeCalls(held, n, [calls EXCEPT ![1].writes = Tail(Head(calls).writes)])
<1>1. PICK C : calls \in Seq(C) /\ \A c \in C : SafeWrites(held, n, c.writes)
  BY DEF SafeCalls
<1> DEFINE c == Head(calls)
           writes == Tail(c.writes)
           d == [c EXCEPT !.writes = writes]
           left == [calls EXCEPT ![1] = d]
<1>2. GoodCall(c) /\ c = calls[1] /\ 1 \in DOMAIN calls
  BY <1>1, FirstCall, HeadAndTail
<1>3. SafeWrites(held, n, writes)
  BY <1>2, LaterCallsSafe, FirstWriteSafe DEF GoodCall
<1>4. d.writes = writes
  <2>1. c = [service |-> c.service, writes |-> c.writes]
    BY <1>2 DEF GoodCall
  <2> DEFINE service == c.service
             all == c.writes
  <2> HIDE DEF c, writes, service, all
  <2>2. c = [service |-> service, writes |-> all]
    BY <2>1 DEF service, all
  <2> QED
    BY <2>2
<1>5. left = [calls EXCEPT ![1].writes = Tail(Head(calls).writes)]
  BY <1>2
<1> DEFINE D == C \cup {d}
<1>6. \A x \in D : SafeWrites(held, n, x.writes)
  BY <1>1, <1>3, <1>4
<1> HIDE DEF d, c, writes
<1>7. left \in Seq(D)
  <2>1. calls \in Seq(D) /\ d \in D
    BY <1>1
  <2> HIDE DEF D
  <2> QED
    BY <2>1
<1> HIDE DEF left, D
<1>8. SafeCalls(held, n, left)
  BY <1>6, <1>7 DEF SafeCalls
<1> QED
  BY <1>5, <1>8

\* Whatever a request that there is leads to is safe when it comes.
LEMMA HandledSafe ==
  ASSUME RolesInv, NEW q, Request(q), Handled(memory, q) # Refused
  PROVE  SafeCalls(RoleTables, lastId, Handled(memory, q))
<1>1. CASE q.ask \notin RoleAsks
  BY <1>1, HandledPlain, PlainIsSafe
<1>2. CASE q.ask \in RoleAsks
  <2>1. Handled(memory, q) = RoleChange(memory, q)
    BY <1>2 DEF Handled, RoleAsks, RoleCommand, RoleRoutes
  <2>2. PICK w : /\ RoleChange(memory, q) = Change(w)
                 /\ w.op = q.ask
                 /\ q.ask = "role.create" => w.key = q.key /\ w.num = q.num
                 /\ q.ask # "role.create" => /\ w.id \in DOMAIN memory.roles
                                             /\ CanManage(w.rank, w.who = Broadcaster, memory.roles[w.id].rank)
    BY <1>2, <2>1, RoleChangeIs
  <2>3. memory.roles \in RoleTables
    BY DEF RoleTables
  <2>4. ASSUME NEW roles \in RoleTables
        PROVE  RoleWrite(roles, lastId, w)
    <3>1. w.op = "role.create" => CustomName(w.key) /\ w.num \in CustomRanks
      BY <2>2 DEF Request
    <3>2. ASSUME w.op = "role.add"
          PROVE  /\ w.id \in 1..lastId
                 /\ w.id \in DOMAIN roles => CanManage(w.rank, w.who = Broadcaster, roles[w.id].rank)
      <4>1. w.id \in DOMAIN memory.roles /\ CanManage(w.rank, w.who = Broadcaster, memory.roles[w.id].rank)
        BY <2>2, <3>2
      <4>2. w.id \in 1..lastId
        BY <2>3, <4>1 DEF RolesInv
      <4>3. w.id \in DOMAIN roles => roles[w.id].rank = memory.roles[w.id].rank
        BY <2>3, <4>1 DEF RolesInv
      <4> QED
        BY <4>1, <4>2, <4>3
    <3> QED
      BY <3>1, <3>2 DEF RoleWrite
  <2> QED
    BY <2>1, <2>2, <2>4, ChangeIsSafe
<1> QED
  BY <1>1, <1>2

LEMMA InitRoles == Init => RolesInv
<1> SUFFICES ASSUME Init
             PROVE  RolesInv
  OBVIOUS
<1>1. RoleTables = {FirstTables(theme).roles}
  BY DEF Init, RoleTables
<1>2. CustomRoles(FirstTables(theme).roles) /\ DOMAIN FirstTables(theme).roles \subseteq 1..lastId /\ lastId \in Nat
  BY RolesAssumption DEF Init, FirstId
<1>3. AllGranted(tables.members)
  BY RolesAssumption DEF Init, AllGranted
<1>4. \A r \in Slots : runs[r].at = "idle"
  BY DEF Init, Idle
<1>5. open = NoTransaction
  BY DEF Init
<1> QED
  BY <1>1, <1>2, <1>3, <1>4, <1>5 DEF RolesInv

\* A step after which no roles are held that weren't before.
LEMMA NoNewRoles ==
  ASSUME RolesInv, RoleTables' \subseteq RoleTables, lastId' \in Nat, lastId <= lastId',
         \A r \in Slots : runs'[r].at # "idle" => SafeCalls(RoleTables, lastId, runs'[r].calls),
         AllGranted(tables'.members), open' # NoTransaction => AllGranted(open'.t.members)
  PROVE  RolesInv'
<1>1. lastId \in Nat /\ 1..lastId \subseteq 1..lastId'
  BY DEF RolesInv
<1>2. \A roles \in RoleTables' : CustomRoles(roles) /\ DOMAIN roles \subseteq 1..lastId'
  BY <1>1 DEF RolesInv
<1>3. \A a, b \in RoleTables' : \A i \in DOMAIN a \cap DOMAIN b : a[i].rank = b[i].rank
  BY DEF RolesInv
<1>4. ASSUME NEW w, \A roles \in RoleTables : RoleWrite(roles, lastId, w)
      PROVE  \A roles \in RoleTables' : RoleWrite(roles, lastId', w)
  BY <1>1, <1>4 DEF RoleWrite
<1>5. \A r \in Slots : runs'[r].at # "idle" => SafeCalls(RoleTables', lastId', runs'[r].calls)
  BY <1>4, StillSafe
<1> QED
  BY <1>2, <1>3, <1>5 DEF RolesInv, AllGranted

LEMMA BeginRoles ==
  ASSUME SettingsInv, RolesInv, NEW r \in Slots, NEW q \in Requests(theme), Begin(r, q)
  PROVE  RolesInv'
<1> DEFINE calls == Handled(memory, q)
           run == [at |-> IF LooksUp(q) THEN "lookup" ELSE "ready", q |-> q, calls |-> calls,
                   wrote |-> FALSE, mine |-> {}, beside |-> Unseen(r)]
<1>1. Request(q)
  BY RequestsAssumption DEF SettingsInv, TablesAreWhole
<1>2. SafeCalls(RoleTables, lastId, calls)
  BY <1>1, HandledSafe DEF Begin
<1>3. runs'[r] = run /\ \A x \in Slots : x # r => runs'[x] = runs[x]
  BY DEF Begin, SettingsInv, RunsAreGood
<1>4. UNCHANGED <<tables, memory, open, lastId>>
  BY DEF Begin
<1>5. run.calls = calls
  OBVIOUS
<1> HIDE DEF run, calls
<1>6. \A x \in Slots : runs'[x].at # "idle" => SafeCalls(RoleTables, lastId, runs'[x].calls)
  BY <1>2, <1>3, <1>5 DEF RolesInv
<1>7. RoleTables' = RoleTables
  BY <1>4 DEF RoleTables
<1> QED
  BY <1>4, <1>6, <1>7, NoNewRoles DEF RolesInv

\* A request that only waits, or ends.
LEMMA WaitingRoles ==
  ASSUME RolesInv, NEW r \in Slots,
         runs'[r].at = "idle" \/ (runs[r].at # "idle" /\ runs'[r].calls = runs[r].calls),
         \A x \in Slots : x # r => runs'[x] = runs[x],
         UNCHANGED <<tables, memory>>, open' = open \/ open' = NoTransaction, lastId' \in {lastId, lastId + 1}
  PROVE  RolesInv'
<1>1. RoleTables' \subseteq RoleTables
  BY DEF RoleTables
<1>2. \A x \in Slots : runs'[x].at # "idle" => SafeCalls(RoleTables, lastId, runs'[x].calls)
  BY DEF RolesInv
<1>3. lastId' \in Nat /\ lastId <= lastId'
  BY DEF RolesInv
<1>4. AllGranted(tables'.members) /\ (open' # NoTransaction => AllGranted(open'.t.members))
  BY DEF RolesInv
<1> QED
  BY <1>1, <1>2, <1>3, <1>4, NoNewRoles

LEMMA LookedUpRoles ==
  ASSUME SettingsInv, RolesInv, NEW r \in Slots, LookedUp(r)
  PROVE  RolesInv'
<1>1. runs[r].at = "lookup" /\ DOMAIN runs[r] = DOMAIN Idle
  BY DEF LookedUp, SettingsInv, RunsAreGood, GoodRun
<1>2. \A x \in Slots : x # r => runs'[x] = runs[x]
  BY DEF LookedUp, SettingsInv, RunsAreGood
<1>3. runs'[r].at = "idle" \/ runs'[r].calls = runs[r].calls
  <2>1. runs'[r] = Idle \/ runs'[r] = [runs[r] EXCEPT !.at = "ready"]
    BY DEF LookedUp, SettingsInv, RunsAreGood
  <2>2. [runs[r] EXCEPT !.at = "ready"].calls = runs[r].calls
    BY <1>1 DEF Idle
  <2>3. CASE runs'[r] = Idle
    BY <2>3, IdleIsGood
  <2>4. CASE runs'[r] = [runs[r] EXCEPT !.at = "ready"]
    BY <2>2, <2>4
  <2> QED
    BY <2>1, <2>3, <2>4
<1>4. UNCHANGED <<tables, memory, open, lastId>>
  BY DEF LookedUp
<1> QED
  BY <1>1, <1>2, <1>3, <1>4, WaitingRoles

LEMMA OpenRoles ==
  ASSUME SettingsInv, RolesInv, NEW r \in Slots, Write(r), open' # NoTransaction
  PROVE  RolesInv'
<1> DEFINE w == Head(Head(runs[r].calls).writes)
           res == Apply(w, tables, memory, lastId + 1)
           new == res.t.roles
<1>1. GoodRun(runs[r]) /\ runs[r].at = "ready" /\ open = NoTransaction
  BY DEF Write, SettingsInv, RunsAreGood
<1>2. /\ res.ok /\ open' = [run |-> r, t |-> res.t, said |-> res.said, read |-> FALSE]
      /\ runs' = [runs EXCEPT ![r].at = "open"]
      /\ lastId' = IF w.op \in {"role.create", "trigger.add", "pack.set", "filter.add"} THEN lastId + 1 ELSE lastId
  BY <1>1 DEF Write
<1>3. UNCHANGED <<tables, memory>>
  BY DEF Write
<1>4. GoodCall(Head(runs[r].calls)) /\ GoodCalls(runs[r].calls) /\ runs[r].calls # << >>
  BY <1>1, FirstCall DEF GoodRun
<1>5. Head(runs[r].calls).service \in Services /\ w.op \in OpsOf(Head(runs[r].calls).service)
  BY <1>4, FirstWrite DEF GoodCall
<1>6. \A roles \in RoleTables : RoleWrite(roles, lastId, w)
  <2>1. SafeCalls(RoleTables, lastId, runs[r].calls)
    BY <1>1 DEF RolesInv
  <2> QED
    BY <1>4, <2>1, LaterCallsSafe, FirstWriteSafe DEF GoodCall
<1>7. tables.roles \in RoleTables /\ RoleTables = {tables.roles, memory.roles}
  BY <1>1 DEF RoleTables
<1>8. RolesAfter(w, tables, lastId, res.t)
  <2>1. /\ CustomRoles(tables.roles) /\ AllGranted(tables.members) /\ DOMAIN tables.roles \subseteq 1..lastId
        /\ RoleWrite(tables.roles, lastId, w) /\ lastId \in Nat /\ Tables(tables)
    BY <1>6, <1>7 DEF RolesInv, SettingsInv, TablesAreWhole
  <2> HIDE DEF w
  <2> QED
    BY <1>2, <1>5, <2>1, WriteAndRoles
<1>9. open'.t = res.t
  BY <1>2
<1> HIDE DEF res, w
<1>10. RoleTables' = RoleTables \cup {new}
  BY <1>3, <1>7, <1>9 DEF RoleTables
<1>11. lastId \in Nat /\ lastId' \in Nat /\ lastId <= lastId' /\ (w.op = "role.create" => lastId' = lastId + 1)
  BY <1>2 DEF RolesInv
<1>12. \A i \in DOMAIN new : \/ i \in DOMAIN tables.roles /\ new[i] = tables.roles[i]
                             \/ i = lastId + 1 /\ lastId' = lastId + 1
  BY <1>8, <1>11 DEF RolesAfter
<1> HIDE DEF new
<1>13. CustomRoles(new) /\ DOMAIN new \subseteq 1..lastId'
  <2>1. DOMAIN tables.roles \subseteq 1..lastId
    BY <1>7 DEF RolesInv
  <2>2. CustomRoles(new)
    BY <1>8 DEF RolesAfter, new
  <2> QED
    BY <1>11, <1>12, <2>1, <2>2
<1>14. \A roles \in RoleTables' : CustomRoles(roles) /\ DOMAIN roles \subseteq 1..lastId'
  BY <1>10, <1>11, <1>13 DEF RolesInv
<1>15. ASSUME NEW a \in RoleTables, NEW i \in DOMAIN a \cap DOMAIN new
       PROVE  a[i].rank = new[i].rank /\ i \in DOMAIN tables.roles
  <2>1. i \in 1..lastId
    BY <1>15 DEF RolesInv
  <2>2. i \in DOMAIN tables.roles /\ new[i] = tables.roles[i]
    BY <1>11, <1>12, <2>1
  <2> QED
    BY <1>7, <1>15, <2>2 DEF RolesInv
<1>16. \A a, b \in RoleTables' : \A i \in DOMAIN a \cap DOMAIN b : a[i].rank = b[i].rank
  BY <1>10, <1>15 DEF RolesInv
<1>17. ASSUME NEW x, \A roles \in RoleTables : RoleWrite(roles, lastId, x)
       PROVE  \A roles \in RoleTables' : RoleWrite(roles, lastId', x)
  <2>1. RoleWrite(tables.roles, lastId, x)
    BY <1>7, <1>17
  <2>2. ASSUME NEW roles \in RoleTables
        PROVE  RoleWrite(roles, lastId', x)
    BY <1>11, <1>17 DEF RoleWrite
  <2>3. RoleWrite(new, lastId', x)
    BY <1>11, <1>12, <2>1 DEF RoleWrite
  <2> QED
    BY <1>10, <2>2, <2>3
<1>18. ASSUME NEW x \in Slots, runs'[x].at # "idle"
       PROVE  SafeCalls(RoleTables', lastId', runs'[x].calls)
  <2>1. DOMAIN runs[r] = DOMAIN Idle
    BY <1>1 DEF GoodRun
  <2>2. runs[x].at # "idle" /\ runs'[x].calls = runs[x].calls
    <3>1. x # r => runs'[x] = runs[x]
      BY <1>2 DEF SettingsInv, RunsAreGood
    <3>2. runs'[r] = [runs[r] EXCEPT !.at = "open"]
      BY <1>2 DEF SettingsInv, RunsAreGood
    <3>3. runs'[r].calls = runs[r].calls
      BY <2>1, <3>2
    <3> QED
      BY <1>1, <1>18, <3>1, <3>3
  <2>3. SafeCalls(RoleTables, lastId, runs'[x].calls)
    BY <2>2 DEF RolesInv
  <2> QED
    BY <1>17, <2>3, StillSafe
<1>19. AllGranted(tables.members)' /\ AllGranted(open.t.members)'
  BY <1>3, <1>8, <1>9 DEF RolesInv, RolesAfter, AllGranted
<1> QED
  BY <1>11, <1>14, <1>16, <1>18, <1>19 DEF RolesInv

LEMMA WriteRoles ==
  ASSUME SettingsInv, RolesInv, NEW r \in Slots, Write(r)
  PROVE  RolesInv'
<1>1. CASE open' # NoTransaction
  BY <1>1, OpenRoles
<1>2. CASE open' = NoTransaction
  <2>1. runs' = [runs EXCEPT ![r] = Idle] /\ open' = open
    BY <1>2 DEF Write, NoTransaction
  <2>2. runs'[r].at = "idle" /\ \A x \in Slots : x # r => runs'[x] = runs[x]
    BY <2>1, IdleIsGood DEF SettingsInv, RunsAreGood
  <2>3. UNCHANGED <<tables, memory>> /\ lastId' \in {lastId, lastId + 1}
    BY DEF Write
  <2> QED
    BY <2>1, <2>2, <2>3, WaitingRoles
<1> QED
  BY <1>1, <1>2

\* What is left of the calls of a request whose write is done, or whose service was read again.
LEMMA EndedRoles ==
  ASSUME NEW held, NEW n, NEW run, GoodRun(run), run.at \in {"open", "reload"}, SafeCalls(held, n, run.calls)
  PROVE  Ended(run).at # "idle" => SafeCalls(held, n, Ended(run).calls)
<1>1. CASE Len(run.calls) = 1
  BY <1>1, IdleIsGood DEF Ended
<1>2. CASE Len(run.calls) # 1
  <2> DEFINE calls == Tail(run.calls)
             next == [run EXCEPT !.at = "ready", !.calls = calls, !.wrote = FALSE]
  <2>1. SafeCalls(held, n, calls)
    BY LaterCallsSafe DEF GoodRun
  <2> HIDE DEF calls
  <2>2. DOMAIN run = DOMAIN Idle
    BY DEF GoodRun
  <2>3. next.calls = calls
    BY <2>2 DEF Idle
  <2>4. Ended(run) = next
    BY <1>2 DEF Ended, calls
  <2> QED
    BY <2>1, <2>3, <2>4
<1> QED
  BY <1>1, <1>2

LEMMA CommitRoles ==
  ASSUME SettingsInv, RolesInv, NEW r \in Slots, Commit(r)
  PROVE  RolesInv'
<1> DEFINE changed == Changes(tables, open.t)
           writes == Tail(Head(runs[r].calls).writes)
           run == [runs[r] EXCEPT !.mine = @ \cup changed]
           more == [run EXCEPT !.at = "ready", !.calls[1].writes = writes, !.wrote = TRUE]
           last == [run EXCEPT !.at = "reload", !.wrote = TRUE]
           found == ~(Service(r) # "policy" /\ open.said = {})
<1>1. GoodRun(runs[r]) /\ runs[r].at = "open" /\ open # NoTransaction /\ open.run = r
  BY DEF Commit, SettingsInv, RunsAreGood, OneTransaction
<1>2. runs'[r] = IF writes # << >> THEN more ELSE IF ~found THEN Ended(run) ELSE last
  BY DEF Commit
<1>3. tables' = open.t /\ open' = NoTransaction /\ UNCHANGED <<memory, lastId>>
  BY DEF Commit
<1>4. DOMAIN runs[r] = DOMAIN Idle
  BY <1>1 DEF GoodRun
<1>5. run.at = "open" /\ run.calls = runs[r].calls /\ run.wrote = runs[r].wrote /\ DOMAIN run = DOMAIN Idle
  BY <1>1, <1>4 DEF Idle
<1>6. GoodCalls(runs[r].calls) /\ runs[r].calls # << >> /\ SafeCalls(RoleTables, lastId, runs[r].calls)
  BY <1>1 DEF GoodRun, RolesInv
<1> HIDE DEF run
<1>7. runs'[r].at # "idle" => SafeCalls(RoleTables, lastId, runs'[r].calls)
  <2>1. CASE writes # << >>
    <3> DEFINE calls == [run.calls EXCEPT ![1].writes = writes]
    <3>1. SafeCalls(RoleTables, lastId, calls)
      BY <1>5, <1>6, FewerWritesSafe
    <3> HIDE DEF writes
    <3>2. more.calls = calls
      BY <1>5 DEF Idle
    <3> QED
      BY <1>2, <2>1, <3>1, <3>2
  <2>2. CASE writes = << >> /\ ~found
    <3>1. GoodRun(run)
      BY <1>1, <1>5 DEF GoodRun
    <3>2. Ended(run).at # "idle" => SafeCalls(RoleTables, lastId, Ended(run).calls)
      BY <1>5, <1>6, <3>1, EndedRoles
    <3> QED
      BY <1>2, <2>2, <3>2
  <2>3. CASE writes = << >> /\ found
    <3>1. last.calls = runs[r].calls
      BY <1>5 DEF Idle
    <3> QED
      BY <1>2, <1>6, <2>3, <3>1
  <2> QED
    BY <2>1, <2>2, <2>3
<1>8. ASSUME NEW x \in Slots, x # r
      PROVE  runs'[x].at = runs[x].at /\ runs'[x].calls = runs[x].calls
  <2>1. runs'[x] = IF Busy(x) THEN [runs[x] EXCEPT !.beside = @ \cup changed] ELSE runs[x]
    BY <1>8 DEF Commit
  <2> HIDE DEF changed
  <2> QED
    BY <2>1
<1>9. \A x \in Slots : runs'[x].at # "idle" => SafeCalls(RoleTables, lastId, runs'[x].calls)
  BY <1>7, <1>8 DEF RolesInv
<1>10. RoleTables' \subseteq RoleTables
  BY <1>1, <1>3 DEF RoleTables
<1>11. AllGranted(tables'.members) /\ lastId' = lastId /\ lastId \in Nat /\ lastId <= lastId
  BY <1>1, <1>3 DEF RolesInv
<1> QED
  BY <1>3, <1>9, <1>10, <1>11, NoNewRoles

LEMMA ReloadRoles ==
  ASSUME SettingsInv, RolesInv, NEW r \in Slots, Reload(r)
  PROVE  RolesInv'
<1> DEFINE seen == IF open = NoTransaction THEN tables ELSE open.t
<1>1. GoodRun(runs[r]) /\ runs[r].at = "reload"
  BY DEF Reload, SettingsInv, RunsAreGood
<1>2. runs'[r] = Ended(runs[r]) /\ \A x \in Slots : x # r => runs'[x] = runs[x]
  BY DEF Reload, SettingsInv, RunsAreGood
<1>3. UNCHANGED <<tables, lastId>>
  BY DEF Reload
<1>4. open' # NoTransaction => open # NoTransaction /\ open'.t = open.t
  <2>1. open = NoTransaction => open' = NoTransaction
    BY DEF Reload
  <2>2. ASSUME open # NoTransaction
        PROVE  open'.t = open.t
    <3>1. open = [run |-> open.run, t |-> open.t, said |-> open.said, read |-> open.read]
      BY <2>2 DEF SettingsInv, OneTransaction
    <3>2. open' = [open EXCEPT !.read = TRUE]
      BY <2>2 DEF Reload
    <3> DEFINE a == open.run
               b == open.t
               c == open.said
               d == open.read
    <3>3. open = [run |-> a, t |-> b, said |-> c, read |-> d]
      BY <3>1
    <3> HIDE DEF a, b, c, d
    <3>4. open' = [run |-> a, t |-> b, said |-> c, read |-> TRUE]
      BY <3>2, <3>3
    <3> QED
      BY <3>4 DEF b
  <2> QED
    BY <2>1, <2>2
<1>5. memory'.roles \in {memory.roles, seen.roles}
  <2>1. DOMAIN memory = Parts /\ "roles" \in Parts
    BY PartsAre DEF SettingsInv, TablesAreWhole
  <2>2. memory' = [p \in DOMAIN memory |-> IF p \in PartsOf(Service(r)) THEN seen[p] ELSE memory[p]]
    BY DEF Reload
  <2> HIDE DEF seen
  <2> QED
    BY <2>1, <2>2
<1>6. RoleTables' \subseteq RoleTables
  BY <1>3, <1>4, <1>5 DEF RoleTables
<1>7. \A x \in Slots : runs'[x].at # "idle" => SafeCalls(RoleTables, lastId, runs'[x].calls)
  <2>1. SafeCalls(RoleTables, lastId, runs[r].calls)
    BY <1>1 DEF RolesInv
  <2>2. Ended(runs[r]).at # "idle" => SafeCalls(RoleTables, lastId, Ended(runs[r]).calls)
    BY <1>1, <2>1, EndedRoles
  <2> QED
    BY <1>2, <2>2 DEF RolesInv
<1>8. AllGranted(tables'.members) /\ (open' # NoTransaction => AllGranted(open'.t.members))
  BY <1>3, <1>4 DEF RolesInv
<1>9. lastId' \in Nat /\ lastId <= lastId'
  BY <1>3 DEF RolesInv
<1> QED
  BY <1>6, <1>7, <1>8, <1>9, NoNewRoles

LEMMA CutRoles ==
  ASSUME SettingsInv, RolesInv, NEW r \in Slots, Cut(r)
  PROVE  RolesInv'
<1>1. runs'[r] = Idle /\ \A x \in Slots : x # r => runs'[x] = runs[x]
  BY DEF Cut, SettingsInv, RunsAreGood
<1>2. runs'[r].at = "idle"
  BY <1>1, IdleIsGood
<1>3. UNCHANGED <<tables, memory>> /\ (open' = open \/ open' = NoTransaction) /\ lastId' \in {lastId, lastId + 1}
  BY DEF Cut
<1> QED
  BY <1>1, <1>2, <1>3, WaitingRoles

LEMMA RestartRoles ==
  ASSUME RolesInv, Restart
  PROVE  RolesInv'
<1>1. memory' = tables /\ open' = NoTransaction /\ UNCHANGED <<tables, lastId>>
  BY DEF Restart
<1>2. \A x \in Slots : runs'[x].at = "idle"
  BY IdleIsGood DEF Restart
<1>3. RoleTables' \subseteq RoleTables
  BY <1>1 DEF RoleTables
<1>4. AllGranted(tables'.members) /\ lastId' \in Nat /\ lastId <= lastId'
  BY <1>1 DEF RolesInv
<1> QED
  BY <1>1, <1>2, <1>3, <1>4, NoNewRoles

LEMMA RolesNext ==
  ASSUME SettingsInv, RolesInv, [Next]_vars
  PROVE  RolesInv'
<1>1. ASSUME NEW r \in Slots, NEW q \in Requests(theme), Begin(r, q)
      PROVE  RolesInv'
  BY <1>1, BeginRoles
<1>2. ASSUME NEW r \in Slots, LookedUp(r) \/ Write(r) \/ Commit(r) \/ Reload(r) \/ Cut(r)
      PROVE  RolesInv'
  BY <1>2, LookedUpRoles, WriteRoles, CommitRoles, ReloadRoles, CutRoles
<1>3. CASE Restart
  BY <1>3, RestartRoles
<1>4. CASE AllAnswered \/ UNCHANGED vars
  <2>1. UNCHANGED vars
    BY <1>4 DEF AllAnswered
  <2>2. RoleTables' = RoleTables
    BY <2>1 DEF vars, RoleTables
  <2> QED
    BY <2>1, <2>2 DEF vars, RolesInv
<1> QED
  BY <1>1, <1>2, <1>3, <1>4 DEF Next

-----------------------------------------------------------------------------
(* A pack's floor.                                                         *)

\* Integers that are bounded have a greatest one: the least distance from the bound is well founded.
LEMMA BoundedMax ==
  ASSUME NEW S, S \subseteq Int, S # {}, NEW B \in Int, \A x \in S : x <= B
  PROVE  Max(S) \in S /\ \A x \in S : x <= Max(S)
<1> DEFINE T == {n \in Nat : B - n \in S}
           R == OpToRel(<, Nat)
<1>1. T # {}
  <2>1. PICK x \in S : TRUE
    OBVIOUS
  <2>2. B - x \in Nat /\ B - (B - x) = x
    BY <2>1
  <2> QED
    BY <2>1, <2>2
<1>2. IsWellFoundedOn(R, Nat)
  BY NatLessThanWellFounded
<1>3. T \subseteq Nat
  OBVIOUS
<1>4. \A x, y \in Nat : x < y => <<x, y>> \in R
  BY DEF OpToRel
<1> HIDE DEF R, T
<1>5. PICK n \in T : \A k \in T : ~(<<k, n>> \in R)
  BY <1>1, <1>2, <1>3, WFMin
<1>6. B - n \in S /\ n \in Nat
  BY DEF T
<1>7. ASSUME NEW x \in S
      PROVE  x <= B - n
  <2>1. B - x \in Nat /\ B - (B - x) = x
    BY <1>7
  <2>2. B - x \in T
    BY <2>1 DEF T
  <2>3. ~(B - x < n)
    BY <1>4, <1>5, <1>6, <2>1, <2>2
  <2> QED
    BY <1>6, <2>1, <2>3
<1> QED
  BY <1>6, <1>7 DEF Max

\* Whatever a name stands for, its rank is within bounds; no role of a channel takes a built-in name.
LEMMA RanksAre ==
  ASSUME NEW m, CustomRoles(m.roles), NEW name
  PROVE  /\ RankOf(m, name) \in Int /\ RankOf(m, name) <= BuiltinRanks.bot_owner
         /\ name \in DOMAIN BuiltinRanks => RankOf(m, name) = BuiltinRanks[name]
<1> DEFINE found == RoleNamed(m, name)
<1>1. CASE found # {}
  <2>1. PICK i \in found : i = (CHOOSE j \in found : TRUE)
    BY <1>1
  <2>2. m.roles[i].name = name /\ i \in DOMAIN m.roles
    BY DEF RoleNamed
  <2>3. CustomName(name) /\ m.roles[i].rank \in CustomRanks
    BY <2>2 DEF CustomRoles
  <2>4. RankOf(m, name) = m.roles[i].rank
    BY <1>1, <2>1 DEF RankOf
  <2> QED
    BY <2>3, <2>4 DEF CustomRanks, CustomName, BuiltinRanks
<1>2. CASE found = {}
  <2>1. RankOf(m, name) = IF name \in DOMAIN BuiltinRanks THEN BuiltinRanks[name] ELSE NoRank
    BY <1>2 DEF RankOf
  <2>2. name \in DOMAIN BuiltinRanks => BuiltinRanks[name] \in Int /\ BuiltinRanks[name] <= BuiltinRanks.bot_owner
    BY DEF BuiltinRanks
  <2> QED
    BY <2>1, <2>2 DEF NoRank, BuiltinRanks
<1> QED
  BY <1>1, <1>2

LEMMA BestRole ==
  ASSUME NEW m, CustomRoles(m.roles), NEW user, NEW badge, NEW role \in RolesOf(m, user, badge)
  PROVE  RankOfChatter(m, user, badge) \in Int /\ RankOf(m, role) <= RankOfChatter(m, user, badge)
<1> DEFINE S == {RankOf(m, r) : r \in RolesOf(m, user, badge)}
<1>1. S \subseteq Int /\ \A x \in S : x <= BuiltinRanks.bot_owner
  BY RanksAre
<1>2. RankOf(m, role) \in S
  OBVIOUS
<1> HIDE DEF S
<1>3. \E bound \in Int : \A x \in S : x <= bound
  <2>1. BuiltinRanks.bot_owner \in Int
    BY DEF BuiltinRanks
  <2> QED
    BY <1>1, <2>1
<1>4. Max(S) \in S /\ \A x \in S : x <= Max(S)
  <2>1. PICK bound \in Int : \A x \in S : x <= bound
    BY <1>3
  <2>2. S \subseteq Int /\ S # {}
    BY <1>1, <1>2
  <2> QED
    BY <2>1, <2>2, BoundedMax
<1>5. RankOfChatter(m, user, badge) = Max(S)
  BY DEF RankOfChatter, S
<1> QED
  BY <1>1, <1>2, <1>4, <1>5

\* What a pack's command requires, and who else may use it, is never below the pack's rank.
LEMMA RequiredIsFloor ==
  ASSUME NEW m, CustomRoles(m.roles), NEW rule, rule = Requires(m, "here", "pack")
  PROVE  /\ RankOf(m, rule.required) >= 60
         /\ rule.allowed # "none" => RankOf(m, rule.allowed) >= 60
<1>1. RankOf(m, "vip") = 60
  <2>1. "vip" \in DOMAIN BuiltinRanks /\ BuiltinRanks["vip"] = 60
    BY DEF BuiltinRanks
  <2> QED
    BY <2>1, RanksAre
<1>2. ASSUME NEW role
      PROVE  RankOf(m, role) \in Int /\ (BelowFloor(m, "pack", role) <=> RankOf(m, role) < 60)
  BY <1>1, RanksAre DEF BelowFloor, Floor
<1>3. \A role : RankOf(m, role) \in Int /\ (~BelowFloor(m, "pack", role) => RankOf(m, role) >= 60)
  BY <1>2
<1> DEFINE stored == RuleFor(m, "here", "pack")
           stated == IF stored["required"] = "none" THEN SpecRole("pack") ELSE stored["required"]
           required == IF BelowFloor(m, "pack", stated) THEN "vip" ELSE stated
           allowed == IF stored["allowed"] # "none" /\ BelowFloor(m, "pack", stored["allowed"]) THEN "none"
                      ELSE stored["allowed"]
<1>4. rule.required = required /\ rule.allowed = allowed
  BY DEF Requires, Rule, Floor
<1> HIDE DEF stored
<1>5. RankOf(m, required) >= 60
  <2> HIDE DEF stated
  <2>1. CASE BelowFloor(m, "pack", stated)
    BY <1>1, <2>1
  <2>2. CASE ~BelowFloor(m, "pack", stated)
    BY <1>3, <2>2
  <2> QED
    BY <2>1, <2>2
<1>6. allowed # "none" => RankOf(m, allowed) >= 60
  BY <1>3
<1> QED
  BY <1>4, <1>5, <1>6

LEMMA FloorIsKept == RolesInv => FloorHolds
<1> SUFFICES ASSUME RolesInv, NEW u \in DOMAIN Badges, Permits(memory, "pack", u, Badges[u])
             PROVE  RankOfChatter(memory, u, Badges[u]) >= 60
  BY DEF FloorHolds
<1> DEFINE rule == Requires(memory, "here", "pack")
           held == RolesOf(memory, u, Badges[u])
           best == RankOfChatter(memory, u, Badges[u])
<1>1. CustomRoles(memory.roles)
  BY DEF RolesInv, RoleTables
<1>2. RankOf(memory, rule.required) >= 60 /\ (rule.allowed # "none" => RankOf(memory, rule.allowed) >= 60)
  BY <1>1, RequiredIsFloor
<1>3. "none" \notin held
  <2>1. Badges[u] # "none"
    BY BadgesAssumption DEF BuiltinRanks
  <2>2. \A i \in DOMAIN memory.roles : memory.roles[i].name # "none"
    BY <1>1 DEF CustomRoles, CustomName
  <2> QED
    BY <2>1, <2>2 DEF RolesOf
<1>4. \A role \in held : best \in Int /\ RankOf(memory, role) <= best
  BY <1>1, BestRole
<1>5. \A role : RankOf(memory, role) \in Int
  BY <1>1, RanksAre
<1>6. "everyone" \in held
  BY DEF RolesOf
<1>7. rule.allowed \in held \/ best >= RankOf(memory, rule.required)
  BY DEF Permits
<1> HIDE DEF rule, held, best
<1>8. best >= 60
  BY <1>2, <1>3, <1>4, <1>5, <1>6, <1>7
<1> QED
  BY <1>8 DEF best

\* Nobody holds a role that whoever gave it couldn't manage, and nobody below a pack's rank may use its
\* commands (core_admin's role commands, PolicyStore, PolicySnapshot.requirement), whatever roles are made,
\* deleted and given side by side, and whatever rules name them.
THEOREM RolesSafety == Spec => []NobodyAbove
<1>1. Init => SettingsInv /\ RolesInv
  BY InitHolds, InitRoles
<1>2. SettingsInv /\ RolesInv /\ [Next]_vars => SettingsInv' /\ RolesInv'
  BY SettingsNext, RolesNext
<1>3. SettingsInv /\ RolesInv => NobodyAbove
  BY FloorIsKept DEF NobodyAbove, GrantedFromAbove, RolesInv, AllGranted
<1> QED
  BY <1>1, <1>2, <1>3, PTL DEF Spec
=============================================================================
