---------------------------- MODULE CommandTables ----------------------------
(***************************************************************************)
(* The tables of custom commands and packs: what a statement reads of them *)
(* and what a transaction makes of them (customcmds/service.py,            *)
(* customcmds/packs.py), and what their rows become for whoever lists them *)
(* (customcmds/resolution.py).                                             *)
(*                                                                         *)
(* A body is what it calls: names, and names of the chatter's own aliases. *)
(***************************************************************************)
EXTENDS Integers, FiniteSets, Sequences, TLC

CONSTANTS
  User, Name,
  Channel, Global,  \* the channels, and the sentinel that means all of them
  Command, Pack,    \* their ids
  Position,         \* where a parameter can be declared
  None

ASSUME CommandTablesAssumption == Global \notin Channel /\ None \notin Pack /\ Position = 1..Cardinality(Position)

Scope == Channel \cup {Global}
Roles == {"everyone", "vip"}     \* PACK_ROLES, one of them for those that aren't everyone

NewRow(u, n) ==
  [owner |-> u, name |-> n, active |-> TRUE, shared |-> FALSE, current |-> 1, params |-> {}, described |-> FALSE]
NewPack(u, n) == [owner |-> u, name |-> n, active |-> TRUE, system |-> FALSE]
NewMember == [internal |-> FALSE, role |-> "everyone"]

-----------------------------------------------------------------------------
(* Reads. *)

Active(t, c) == c \in Command /\ t.cmd[c] # None /\ t.cmd[c].active

\* by_owner.
Owned(t, u, n) == {c \in Command : Active(t, c) /\ t.cmd[c].owner = u /\ t.cmd[c].name = n}

\* count_owned.
CountOwned(t, u) == Cardinality({c \in Command : Active(t, c) /\ t.cmd[c].owner = u})

\* personal: the link of that alias, if it leads to a command that is still there.
Personal(t, u, n) == {c \in {t.link[u, n]} \ {None} : Active(t, c)}

\* publications_in: of commands that are there, whatever the publication's status.
PublishedRows(t, s, n) == {p \in {t.pub[s, n]} \ {None} : Active(t, p.cmd)}

\* publication.
Published(t, s, n) == {p.cmd : p \in {p \in PublishedRows(t, s, n) : p.status = "active"}}

\* PackService.by_owner.
OwnPack(t, u, n) == {k \in Pack : t.pack[k] # None /\ t.pack[k].active /\ t.pack[k].owner = u /\ t.pack[k].name = n}

\* members, all of them or those that are internal or not.
Members(t, k) == {c \in Command : t.member[k, c] # None /\ Active(t, c)}
Helpers(t, k) == {c \in Members(t, k) : t.member[k, c].internal}

\* internal_member.
InternalMember(t, k, n) == {c \in Helpers(t, k) : t.cmd[c].name = n}

\* PackService.publications_in: the packs that are offered there.
Offered(t, s) == {k \in Pack : <<s, k>> \in t.offer /\ t.pack[k].active}

\* find_in_scope, in one scope: fetch_one takes any of them.
InPacks(t, s, n) ==
  UNION {{[cmd |-> c, pack |-> k] : c \in {c \in Members(t, k) \ Helpers(t, k) : t.cmd[c].name = n}} : k \in Offered(t, s)}

\* system_members: what resolves with the built-ins (SystemResolver.public).
SystemNames(t) ==
  {t.cmd[c].name : c \in UNION {Members(t, k) \ Helpers(t, k) : k \in {k \in Pack : t.pack[k] # None /\ t.pack[k].system}}}

\* What a channel offers under a name: publications first, its own before the global
\* one, then packs likewise (publication_in_scope, then find_in_scope).
Found(t, s, n) ==
  LET alone(scope) == {[cmd |-> c, pack |-> None] : c \in Published(t, scope, n)} IN
  IF alone(s) # {} THEN alone(s)
  ELSE IF alone(Global) # {} THEN alone(Global)
  ELSE IF InPacks(t, s, n) # {} THEN InPacks(t, s, n)
  ELSE InPacks(t, Global, n)

\* Mutant: the channel's own come before the global ones, which then win.
ListsLocalFirst(t, s, n) ==
  LET rows(scope) == {[cmd |-> p.cmd, pack |-> None] : p \in PublishedRows(t, scope, n)}
      places == <<InPacks(t, s, n), InPacks(t, Global, n), rows(s), rows(Global)>>
      filled == {i \in 1..4 : places[i] # {}}
  IN IF filled = {} THEN {} ELSE places[CHOOSE i \in filled : \A j \in filled : j <= i]

\* published_specs: what a channel's settings are about under a name.  Whatever is listed
\* later takes the name.
Lists(t, s, n) ==
  LET rows(scope) == {[cmd |-> p.cmd, pack |-> None] : p \in PublishedRows(t, scope, n)}
      places == <<InPacks(t, Global, n), InPacks(t, s, n), rows(Global), rows(s)>>
      filled == {i \in 1..4 : places[i] # {}}
  IN IF filled = {} THEN {} ELSE places[CHOOSE i \in filled : \A j \in filled : j <= i]

\* to_params: rows that leave a gap are no parameters.
Params(row) == IF row.params = 1..Cardinality(row.params) THEN row.params ELSE {}

\* declare and remove: the rows that are then stored.  Only what is declared is checked
\* for gaps.
Declared(row, p) ==
  {rows \in {row.params \cup {p}, row.params \ {p}} : p \in rows => rows = 1..Cardinality(rows)}

\* spec_for: a pack's member belongs to the module of the pack and has the rank it sets.
SpecFor(t, target) ==
  [key |-> target.cmd,
   params |-> Params(t.cmd[target.cmd]),
   module |-> IF target.pack = None THEN "custom" ELSE t.pack[target.pack].name,
   floor |-> IF target.pack = None THEN "everyone" ELSE t.member[target.pack, target.cmd].role]

\* custom_modules: what a channel can switch off.
CustomModules(t, s) ==
  {t.pack[k].name : k \in Offered(t, s) \cup Offered(t, Global)}
    \cup (IF \E scope \in {s, Global}, n \in Name : t.pub[scope, n] # None THEN {"custom"} ELSE {})

\* Whose packs a user may publish: their own, and those whose every command is shared.
MayPublishPack(t, u, k) ==
  \/ t.pack[k].owner = u
  \/ Members(t, k) # {} /\ \A c \in Members(t, k) : t.cmd[c].shared

\* conflicts: a member's name is published there by another command.
Conflicts(t, s, k) == \E c \in Members(t, k) : Published(t, s, t.cmd[c].name) \ {c} # {}

-----------------------------------------------------------------------------
(* Transactions: what the statements of a write make of the tables. *)

\* A new command, its first version and its owner's alias.
Created(t, w) ==
  [t EXCEPT !.cmd[w.cmd] = NewRow(w.user, w.name), !.body[w.cmd] = <<w.body>>, !.link[<<w.user, w.name>>] = w.cmd]

\* _new_version.
Edited(t, w) ==
  LET bodies == t.body[w.cmd] IN
  [t EXCEPT !.cmd[w.cmd].current = w.version + 1,
            !.body[w.cmd] = [v \in DOMAIN bodies \cup {w.version + 1} |-> IF v = w.version + 1 THEN w.body ELSE bodies[v]]]

\* delete: soft; publications are orphaned and grants go, links and packs keep it.
Deleted(t, w) ==
  [t EXCEPT !.cmd[w.cmd].active = FALSE,
            !.pub = [p \in DOMAIN @ |-> IF @[p] # None /\ @[p].cmd = w.cmd
                                        THEN [@[p] EXCEPT !.status = "orphaned"] ELSE @[p]],
            !.grant = {g \in @ : g[2] # w.cmd}]

\* publish: the row of that name is replaced, whatever it is by now.
Publish(t, w) ==
  [t EXCEPT !.pub[<<w.scope, w.name>>] = [cmd |-> w.cmd, status |-> "active", ran |-> IF @ = None THEN 0 ELSE @.ran]]

\* unpublish: the name goes, and the grants of the command it was read to be.
Unpublished(t, w) == [t EXCEPT !.pub[<<w.scope, w.name>>] = None, !.grant = @ \ {<<w.scope, w.cmd>>}]

\* PackService.unpublish: its members' grants there go with it.
PackUnpublished(t, w) ==
  [t EXCEPT !.offer = @ \ {<<w.scope, w.pack>>},
            !.grant = {g \in @ : ~(g[1] = w.scope /\ t.member[w.pack, g[2]] # None)}]

\* add_member: ON CONFLICT DO NOTHING.
MemberAdded(t, w) == [t EXCEPT !.member[<<w.pack, w.cmd>>] = IF @ = None THEN NewMember ELSE @]

\* The tables a write leaves.
After(t, w) ==
  CASE w.op = "create" -> Created(t, w)
    [] w.op = "edit" -> Edited(t, w)
    [] w.op = "delete" -> Deleted(t, w)
    [] w.op = "share" -> [t EXCEPT !.cmd[w.cmd].shared = w.on]
    [] w.op = "describe" -> [t EXCEPT !.cmd[w.cmd].described = TRUE]
    [] w.op = "params" -> [t EXCEPT !.cmd[w.cmd].params = w.params]
    [] w.op = "link" -> [t EXCEPT !.link[<<w.user, w.name>>] = w.cmd]
    [] w.op = "unlink" -> [t EXCEPT !.link[<<w.user, w.name>>] = None]
    [] w.op = "publish" -> Publish(t, w)
    [] w.op = "status" -> [t EXCEPT !.pub[<<w.scope, w.name>>].status = w.status]
    [] w.op = "unpublish" -> Unpublished(t, w)
    [] w.op = "touch" -> [t EXCEPT !.pub[<<w.scope, w.name>>].ran = w.version]
    [] w.op = "grant" -> [t EXCEPT !.grant = @ \cup {<<w.scope, w.cmd>>}]
    [] w.op = "revoke" -> [t EXCEPT !.grant = @ \ {<<w.scope, w.cmd>>}]
    [] w.op = "pack" -> [t EXCEPT !.pack[w.pack] = NewPack(w.user, w.name)]
    [] w.op = "add" -> MemberAdded(t, w)
    [] w.op = "remove" -> [t EXCEPT !.member[<<w.pack, w.cmd>>] = None]
    [] w.op = "internal" -> [t EXCEPT !.member[<<w.pack, w.cmd>>].internal = w.on]
    [] w.op = "role" -> [t EXCEPT !.member[<<w.pack, w.cmd>>].role = w.role]
    [] w.op = "publish_pack" -> [t EXCEPT !.offer = @ \cup {<<w.scope, w.pack>>}]
    [] w.op = "unpublish_pack" -> PackUnpublished(t, w)
    [] w.op = "delete_pack" -> [t EXCEPT !.pack[w.pack].active = FALSE]

\* UNIQUE (owner_user_id, name), and the key of an alias: what is deleted keeps its name
\* and its links.
NameTaken(t, u, n) == \E c \in Command : t.cmd[c] # None /\ t.cmd[c].owner = u /\ t.cmd[c].name = n
PackNameTaken(t, u, n) == \E k \in Pack : t.pack[k] # None /\ t.pack[k].owner = u /\ t.pack[k].name = n
AliasTaken(t, u, n) == t.link[u, n] # None

\* What was read to be a command or a pack never came to be: it was rolled back.
Vanished(t, w) ==
  \/ w.op \in {"edit", "link", "publish", "grant", "add"} /\ t.cmd[w.cmd] = None
  \/ w.op \in {"add", "publish_pack"} /\ t.pack[w.pack] = None

\* Mutant: a version that is there is overwritten.
ClashesButEdits(t, w) ==
  \/ w.op = "create" /\ (NameTaken(t, w.user, w.name) \/ AliasTaken(t, w.user, w.name))
  \/ w.op = "link" /\ AliasTaken(t, w.user, w.name)
  \/ w.op = "pack" /\ PackNameTaken(t, w.user, w.name)
  \/ Vanished(t, w)

\* A key of the schema refuses it, and the transaction is rolled back.
Clashes(t, w) ==
  \/ w.op = "create" /\ (NameTaken(t, w.user, w.name) \/ AliasTaken(t, w.user, w.name))
  \/ w.op = "link" /\ AliasTaken(t, w.user, w.name)
  \/ w.op = "pack" /\ PackNameTaken(t, w.user, w.name)
  \/ w.op = "edit" /\ w.version + 1 \in DOMAIN t.body[w.cmd]
  \/ Vanished(t, w)

\* Its statements touch no row, so there is nothing to do.
Misses(t, w) ==
  \/ w.op \in {"delete", "share", "describe", "params"} /\ t.cmd[w.cmd] = None
  \/ w.op = "unlink" /\ t.link[w.user, w.name] = None
  \/ w.op = "status" /\ (t.pub[w.scope, w.name] = None \/ t.pub[w.scope, w.name].status = "orphaned")
  \/ w.op = "touch" /\ t.pub[w.scope, w.name] = None
  \/ w.op = "remove" /\ t.member[w.pack, w.cmd] = None
  \/ w.op = "internal" /\ (t.member[w.pack, w.cmd] = None \/ t.member[w.pack, w.cmd].internal = w.on)
  \/ w.op = "role" /\ (t.member[w.pack, w.cmd] = None \/ t.member[w.pack, w.cmd].role = w.role)
  \/ w.op = "unpublish_pack" /\ <<w.scope, w.pack>> \notin t.offer
  \/ w.op = "delete_pack" /\ t.pack[w.pack] = None

Applies(t, w) == ~Clashes(t, w) /\ ~Misses(t, w)

=============================================================================
