---------------------------- MODULE CustomCommands ----------------------------
(***************************************************************************)
(* Custom commands and packs as `!cc` (modules/customcmds.py) and the web  *)
(* (api/routes/commands.py) change them, and as a line that types their    *)
(* names loads them before it runs (customcmds/resolution.py).             *)
(*                                                                         *)
(* A call reads what it needs to check, then makes its writes one after    *)
(* the other: each waits for the connection's write lock and runs its      *)
(* transaction, and some then have what is kept in memory read again.      *)
(* Every read is a statement on the connection that transactions run on,   *)
(* so it sees what is not committed yet.  The statements of one            *)
(* transaction are one step, its end another.                              *)
(*                                                                         *)
(* The calls of one behaviour are about one part of all this, its `theme`. *)
(***************************************************************************)
EXTENDS CommandTables, SequencesExt

CONSTANTS
  Themes, FirstTables(_), Asks(_),  \* the tables and the calls of each theme
  Body, Accepted(_),                \* those that parse and that the channel's filter lets pass
  Builtins, Reserved,               \* command names; names of built-in modules
  Moderators, Admins,               \* who reaches publish_min_role and grant_min_role; the bot's admins
  Call,                             \* calls that are under way at once
  Quota,                            \* QUOTA_PER_USER
  MaxDepth,                         \* MAX_CC_DEPTH
  MaxVersion,                       \* bound: versions of a command
  MaxCalls(_)                       \* bound: calls and runs of a theme

ASSUME CustomCommandsAssumption ==
  Quota \in Nat /\ MaxDepth \in Nat /\ MaxVersion \in Nat /\ IsFiniteSet(Command) /\ None \notin Call

\* The tables at first: what is current of a command is stored, and nothing of one that is not there; what is
\* published was a command, is orphaned only when that is gone, and is disabled only in a channel.
ASSUME FirstTablesAssumption ==
  \A th \in Themes : LET t == FirstTables(th) IN
    /\ {"cmd", "body", "pub"} \subseteq DOMAIN t /\ DOMAIN t.cmd = Command /\ DOMAIN t.body = Command
    /\ \A c \in Command :
         IF t.cmd[c] = None THEN DOMAIN t.body[c] = {}
         ELSE {"current", "active"} \subseteq DOMAIN t.cmd[c] /\ t.cmd[c].current \in DOMAIN t.body[c] \cap Nat
    /\ \A p \in Scope \X Name : p \in DOMAIN t.pub /\ (t.pub[p] # None =>
         /\ {"cmd", "status"} \subseteq DOMAIN t.pub[p] /\ t.pub[p].cmd \in Command /\ t.cmd[t.pub[p].cmd] # None
         /\ Active(t, t.pub[p].cmd) => t.pub[p].status = "active" \/ (p[1] \in Channel /\ t.pub[p].status = "disabled"))

VARIABLES
  theme,
  db,       \* what is stored
  work,     \* what a statement on the connection sees
  open,     \* the call whose transaction is open
  access,   \* VariableAccessPolicy._grants
  placed,   \* where the trigger service has it that each pack is published
  cached,   \* CustomCommandService._asts, a body for its tree
  helpers,  \* the commands that were read as a pack's helper, for CacheAgrees
  used,     \* the ids new_id and new_pack_id have drawn
  call,     \* what each call is doing, with what it read
  started   \* how many calls and runs there have been

tables == <<db, work, open>>
memory == <<access, placed>>
vars == <<theme, tables, memory, cached, helpers, used, call, started>>

Idle == [at |-> "idle"]
Nothing == [ask |-> "nothing"]

Places(t) == {o \in t.offer : t.pack[o[2]].active}

Init ==
  /\ theme \in Themes
  /\ db = FirstTables(theme) /\ work = FirstTables(theme) /\ open = None
  /\ access = FirstTables(theme).grant /\ placed = Places(FirstTables(theme))
  /\ cached = <<>> /\ helpers = {}
  /\ used = {c \in Command : db.cmd[c] # None} \cup {k \in Pack : db.pack[k] # None}
  /\ call = [h \in Call |-> Idle]
  /\ started = 0

-----------------------------------------------------------------------------
(* Calls: what they check, and the writes they make of it. *)

Begin(h, ask) == call[h] = Idle /\ started < MaxCalls(theme) /\ ask \in Asks(theme)

\* `todo`: the writes that are settled.  `more`: what is read again once they are done.
AskFor(h, todo, more) ==
  /\ todo # <<>> \/ more # Nothing
  /\ call' = [call EXCEPT ![h] = [at |-> IF todo # <<>> THEN "asked" ELSE "reading",
                                  todo |-> todo, more |-> more, loads |-> {}]]
  /\ started' = started + 1
  /\ used' = used \cup {todo[i].cmd : i \in {i \in DOMAIN todo : todo[i].op = "create"}}
                  \cup {todo[i].pack : i \in {i \in DOMAIN todo : todo[i].op = "pack"}}
  /\ UNCHANGED <<theme, tables, memory, cached, helpers>>

Ask(h, write) == AskFor(h, <<write>>, Nothing)
If(condition, write) == IF condition THEN <<write>> ELSE <<>>

Free(ids) == CHOOSE i \in ids : i \notin used

\* `cc add`, and on the web with a summary, which is a transaction of its own.
AskCreate(h) == \E u \in User, n \in Name, b \in {b \in Body : Accepted(b)}, summary \in BOOLEAN :
  /\ Begin(h, "create")
  /\ Command \ used # {}
  /\ Owned(work, u, n) = {} /\ CountOwned(work, u) < Quota
  /\ AskFor(h, <<[op |-> "create", user |-> u, name |-> n, cmd |-> Free(Command), body |-> b]>>
                 \o If(summary, [op |-> "describe", cmd |-> Free(Command)]), Nothing)

\* `cc edit`, `cc describe` and `cc share` are one of these; the web's call may be all.
AskEdit(h) == \E u \in User, n \in Name, b \in Body, summary, on \in BOOLEAN : \E c \in Owned(work, u, n) :
  LET row == work.cmd[c]
      old == work.body[c][row.current] IN
  /\ Begin(h, "edit")
  /\ b # old => Accepted(b) /\ row.current < MaxVersion
  /\ AskFor(h, If(b # old, [op |-> "edit", cmd |-> c, version |-> row.current, body |-> b])
                 \o If(summary /\ ~row.described, [op |-> "describe", cmd |-> c])
                 \o If(on # row.shared, [op |-> "share", cmd |-> c, on |-> on]), Nothing)

\* `cc revert`: an old body as a new version, checked when it was stored.
AskRevert(h) == \E u \in User, n \in Name : \E c \in Owned(work, u, n) : \E v \in DOMAIN work.body[c] :
  /\ Begin(h, "revert")
  /\ work.cmd[c].current < MaxVersion
  /\ Ask(h, [op |-> "edit", cmd |-> c, version |-> work.cmd[c].current, body |-> work.body[c][v]])

\* `cc param`: the whole declaration again, with one position added, replaced or removed.
AskParam(h) == \E u \in User, n \in Name, p \in Position : \E c \in Owned(work, u, n) :
  \E rows \in Declared(work.cmd[c], p) :
    Begin(h, "params") /\ Ask(h, [op |-> "params", cmd |-> c, params |-> rows])

\* `cc rm`.
AskDelete(h) == \E u \in User, n \in Name : \E c \in Owned(work, u, n) :
  Begin(h, "delete") /\ Ask(h, [op |-> "delete", cmd |-> c])

\* `cc link`: someone's shared command, or what a channel publishes.
AskLink(h) == \E u, o \in User, n, alias \in Name, ch \in Channel :
  \E c \in {c \in Owned(work, o, n) : work.cmd[c].shared} \cup Published(work, ch, n) :
    /\ Begin(h, "link")
    /\ work.cmd[c].owner # u /\ Personal(work, u, alias) = {}
    /\ Ask(h, [op |-> "link", user |-> u, name |-> alias, cmd |-> c])

\* `cc unlink`.
AskUnlink(h) == \E u \in User, alias \in Name :
  Begin(h, "unlink") /\ Ask(h, [op |-> "unlink", user |-> u, name |-> alias])

\* _scope and _may: moderators publish here, the bot's admins everywhere.
MayPublish(u, s) == IF s = Global THEN u \in Admins ELSE u \in Moderators

\* `cc publish`: the caller's command, or else alias, under a name that is free here
\* or already this command's.
AskPublish(h) == \E u \in User, s \in Scope, n, as \in Name :
  \E c \in IF Owned(work, u, n) # {} THEN Owned(work, u, n) ELSE Personal(work, u, n) :
    /\ Begin(h, "publish") /\ MayPublish(u, s)
    /\ work.pub[s, as] # None => work.pub[s, as].cmd = c
    /\ Ask(h, [op |-> "publish", scope |-> s, name |-> as, cmd |-> c])

\* `cc disable` and `cc enable`.
AskStatus(h) == \E ch \in Channel, n \in Name, status \in {"active", "disabled"} :
  /\ Begin(h, "status") /\ Moderators # {}
  /\ Ask(h, [op |-> "status", scope |-> ch, name |-> n, status |-> status])

\* `cc unpublish`: which command it is, is read here.
AskUnpublish(h) == \E u \in User, s \in Scope, n \in Name :
  /\ Begin(h, "unpublish") /\ MayPublish(u, s)
  /\ work.pub[s, n] # None
  /\ Ask(h, [op |-> "unpublish", scope |-> s, name |-> n, cmd |-> work.pub[s, n].cmd])

\* `cc grant` and `cc revoke`, of what the channel has under that name.
AskGrant(h) == \E ch \in Channel, n \in Name, op \in {"grant", "revoke"} : \E f \in Found(work, ch, n) :
  /\ Begin(h, "grant") /\ Moderators # {}
  /\ Ask(h, [op |-> op, scope |-> ch, cmd |-> f.cmd])

\* `cc pack create`.
AskPack(h) == \E u \in User, n \in Name \ Reserved :
  /\ Begin(h, "pack")
  /\ Pack \ used # {}
  /\ OwnPack(work, u, n) = {}
  /\ Ask(h, [op |-> "pack", user |-> u, name |-> n, pack |-> Free(Pack)])

\* The caller's own pack, to change it: never a system pack.
Writable(u, n) == {k \in OwnPack(work, u, n) : ~work.pack[k].system}

\* `cc pack add|rm|internal|role <pack> <commands…>`: the names are looked at one by one,
\* the members for a role only once.
AskMembers(h) == \E u \in User, n, first, second \in Name, what \in {"add", "remove", "internal", "role"} :
  \E k \in Writable(u, n), on \in BOOLEAN, role \in Roles :
    /\ Begin(h, "members")
    /\ what # "internal" => on
    /\ what # "role" => role = "everyone"
    /\ AskFor(h, <<>>, [ask |-> what, user |-> u, pack |-> k, names |-> <<first, second>>, on |-> on, role |-> role,
                        members |-> {work.cmd[c].name : c \in Members(work, k)}])

\* The web's call for one member: in the pack, and internal and of a rank as it says.
AskMember(h) == \E u \in User, n, m \in Name, on \in BOOLEAN, role \in Roles :
  \E k \in Writable(u, n), c \in Owned(work, u, m) :
    /\ Begin(h, "member")
    /\ Ask(h, [op |-> "remove", pack |-> k, cmd |-> c])
       \/ AskFor(h, <<[op |-> "add", pack |-> k, cmd |-> c], [op |-> "internal", pack |-> k, cmd |-> c, on |-> on],
                      [op |-> "role", pack |-> k, cmd |-> c, role |-> role]>>, Nothing)

\* `cc pack share`: a transaction for every member; the web's call leaves out those that
\* are so already.
AskSharePack(h) == \E u \in User, n \in Name, on, web \in BOOLEAN : \E k \in Writable(u, n) :
  LET members == {c \in Members(work, k) : web => work.cmd[c].shared # on} IN
  /\ Begin(h, "share")
  /\ members # {}
  /\ AskFor(h, SetToSeq({[op |-> "share", cmd |-> c, on |-> on] : c \in members}), Nothing)

\* `cc pack delete`.
AskDeletePack(h) == \E u \in User, n \in Name : \E k \in Writable(u, n) :
  Begin(h, "delete_pack") /\ Ask(h, [op |-> "delete_pack", pack |-> k])

\* `cc publish pack`.
AskPublishPack(h) == \E u, owner \in User, n \in Name, s \in Scope : \E k \in OwnPack(work, owner, n) :
  /\ Begin(h, "publish_pack") /\ MayPublish(u, s)
  /\ MayPublishPack(work, u, k) /\ ~work.pack[k].system
  /\ Members(work, k) # {} /\ ~Conflicts(work, s, k)
  /\ Ask(h, [op |-> "publish_pack", scope |-> s, pack |-> k])

\* `cc unpublish pack`.
AskUnpublishPack(h) == \E u, owner \in User, n \in Name, s \in Scope : \E k \in OwnPack(work, owner, n) :
  /\ Begin(h, "unpublish_pack") /\ MayPublish(u, s)
  /\ MayPublishPack(work, u, k)
  /\ Ask(h, [op |-> "unpublish_pack", scope |-> s, pack |-> k])

-----------------------------------------------------------------------------
(* A call's writes. *)

\* What is left once a write is done.
Rest(c) ==
  IF Len(c.todo) > 1 THEN [c EXCEPT !.at = "asked", !.todo = Tail(@), !.loads = {}]
  ELSE IF c.more # Nothing THEN [c EXCEPT !.at = "reading", !.todo = <<>>, !.loads = {}]
  ELSE Idle

\* _pack, _pack_internal, _pack_role: the next name is one of the caller's commands, and a
\* member where it has to be.
NextName(m) ==
  LET n == Head(m.names)
      member == CASE m.ask = "internal" -> n \in {work.cmd[c].name : c \in Members(work, m.pack)}
                  [] m.ask = "role" -> n \in m.members
                  [] OTHER -> TRUE
  IN IF member THEN {<<[op |-> m.ask, pack |-> m.pack, cmd |-> c, on |-> m.on, role |-> m.role]>> : c \in Owned(work, m.user, n)}
     ELSE {}

\* _note_edits: the version the run had, for the publication the channel has by now.
NextNote(m) ==
  LET n == Head(m.names) IN
  {IF Published(work, m.scope, n.name) # {} /\ work.pub[<<m.scope, n.name>>].ran # n.version
   THEN <<[op |-> "touch", scope |-> m.scope, name |-> n.name, version |-> n.version]>> ELSE <<>>}

\* A name that isn't right ends the call; what it did for the names before stays.
ReadOn(h) ==
  LET m == call[h].more
      rest == IF Len(m.names) > 1 THEN [m EXCEPT !.names = Tail(@)] ELSE Nothing
      found == IF m.ask = "note" THEN NextNote(m) ELSE NextName(m)
  IN /\ call[h].at = "reading"
     /\ \/ \E todo \in found :
             LET c == [call[h] EXCEPT !.todo = todo, !.more = rest] IN
             call' = [call EXCEPT ![h] = IF todo = <<>> THEN Rest(c) ELSE [c EXCEPT !.at = "asked"]]
        \/ found = {} /\ call' = [call EXCEPT ![h] = Idle]
     /\ UNCHANGED <<theme, tables, memory, cached, helpers, used, started>>

\* Mutant: a new version leaves the trees of the command alone.
UncachedNever(k, w) == k

\* _add_version: the trees of the command go.
Uncached(k, w) == IF w.op = "edit" THEN [e \in {e \in DOMAIN k : e[1] # w.cmd} |-> k[e]] ELSE k

\* The write lock is free (in what order it is given is left open).
Transact(h) ==
  /\ call[h].at = "asked" /\ open = None
  /\ LET w == Head(call[h].todo) IN
     /\ Applies(work, w)
     /\ work' = After(work, w)
     /\ cached' = Uncached(cached, w)
  /\ open' = h
  /\ call' = [call EXCEPT ![h].at = "open"]
  /\ UNCHANGED <<theme, db, memory, helpers, used, started>>

\* A write that touches no row is followed by the next; an error ends the call.
GiveUp(h) ==
  /\ call[h].at = "asked" /\ open = None
  /\ ~Applies(work, Head(call[h].todo))
  /\ call' = [call EXCEPT ![h] = IF Clashes(work, Head(@.todo)) THEN Idle ELSE Rest(@)]
  /\ UNCHANGED <<theme, tables, memory, cached, helpers, used, started>>

\* _grants_changed, _published_changed and set_grant: what is read again after a write.
Reloads(w) ==
  (IF w.op \in {"delete", "unpublish", "grant", "revoke", "unpublish_pack"} THEN {"access"} ELSE {})
    \cup (IF w.op \in {"publish_pack", "unpublish_pack", "delete_pack"} THEN {"placed"} ELSE {})

Commit(h) ==
  /\ call[h].at = "open"
  /\ db' = work /\ open' = None
  /\ LET loads == Reloads(Head(call[h].todo)) IN
     call' = [call EXCEPT ![h] = IF loads = {} THEN Rest(@) ELSE [@ EXCEPT !.at = "reloading", !.loads = loads]]
  /\ UNCHANGED <<theme, work, memory, cached, helpers, used, started>>

\* A later statement fails, or the stage's timeout cancels the call in its transaction.
RollBack(h) ==
  /\ call[h].at = "open"
  /\ work' = db /\ open' = None
  /\ call' = [call EXCEPT ![h] = Idle]
  /\ UNCHANGED <<theme, db, memory, cached, helpers, used, started>>

\* VariableAccessPolicy.reload and then TriggerService.reload, which wait for no lock.
Reload(h) ==
  /\ call[h].at = "reloading"
  /\ IF "access" \in call[h].loads
     THEN /\ access' = work.grant /\ placed' = placed
          /\ call' = [call EXCEPT ![h] = IF "placed" \in @.loads THEN [@ EXCEPT !.loads = {"placed"}] ELSE Rest(@)]
     ELSE /\ placed' = Places(work) /\ access' = access
          /\ call' = [call EXCEPT ![h] = Rest(@)]
  /\ UNCHANGED <<theme, tables, cached, helpers, used, started>>

\* The timeout cancels a call between its writes, or before it has reloaded.
Cut(h) ==
  /\ call[h].at \in {"asked", "reading", "reloading"}
  /\ call' = [call EXCEPT ![h] = Idle]
  /\ UNCHANGED <<theme, tables, memory, cached, helpers, used, started>>

-----------------------------------------------------------------------------
(* Runs: what a line can reach is loaded before it is checked (resolver_for). *)

Base == Builtins \cup SystemNames(FirstTables(theme))

\* Mutant: in a pack's body a name is only looked for among the pack's helpers.
HelpersOnly(calls, k) ==
  [i \in DOMAIN calls |-> [name |-> calls[i].name, own |-> calls[i].own, pack |-> IF calls[i].own THEN None ELSE k]]

\* _names: in the body of a pack's command a name is the pack's own helper, if it has one.
Names(calls, k) ==
  FlattenSeq([i \in DOMAIN calls |->
    If(k # None /\ ~calls[i].own, [name |-> calls[i].name, own |-> FALSE, pack |-> k])
      \o <<[name |-> calls[i].name, own |-> calls[i].own, pack |-> None]>>])

\* _lookup, but for a helper's: publications and packs, then the chatter's own alias;
\* `@name` is only that.
Lookup(u, ch, key) ==
  IF ~key.own /\ Found(work, ch, key.name) # {}
  THEN {[cmd |-> f.cmd, pack |-> f.pack, personal |-> FALSE] : f \in Found(work, ch, key.name)}
  ELSE {[cmd |-> c, pack |-> None, personal |-> TRUE] : c \in Personal(work, u, key.name)}

\* ast_for: the tree of the version that was read, from the cache if it is there.
Tree(row) == IF <<row.cmd, row.version>> \in DOMAIN cached THEN cached[<<row.cmd, row.version>>] ELSE row.body
Row(target) ==
  LET version == work.cmd[target.cmd].current IN
  [cmd |-> target.cmd, pack |-> target.pack, personal |-> target.personal,
   version |-> version, body |-> work.body[target.cmd][version]]

Loading(u, ch, typed, line) ==
  [at |-> "loading", user |-> u, scope |-> ch, typed |-> typed, line |-> line, level |-> 0,
   wanted |-> Names(line, None), seen |-> ToSet(Names(line, None)), next |-> <<>>, entries |-> <<>>, row |-> None]

\* A line types a name, `@name` for the chatter's own alias, or `cc run <id>`.
Type(h) == \E u \in User, ch \in Channel :
  /\ Begin(h, "run")
  /\ \/ \E n \in Name, own \in BOOLEAN : call' = [call EXCEPT ![h] = Loading(u, ch, TRUE, <<[name |-> n, own |-> own]>>)]
     \/ \E c \in {c \in Command : Active(work, c) /\ (work.cmd[c].owner = u \/ work.cmd[c].shared)} :
          call' = [call EXCEPT ![h] = Loading(u, ch, FALSE, work.body[c][work.cmd[c].current])]
  /\ started' = started + 1
  /\ UNCHANGED <<theme, tables, memory, cached, helpers, used>>

\* The entry for the name that is first wanted, and the names of its body.
Enter(h, row) ==
  LET key == Head(call[h].wanted)
      version == <<row.cmd, row.version>>
      tree == Tree(row)
      entry == [cmd |-> row.cmd, pack |-> row.pack, personal |-> row.personal, version |-> row.version, body |-> tree]
  IN /\ cached' = [e \in DOMAIN cached \cup {version} |-> IF e = version THEN tree ELSE cached[e]]
     /\ call' = [call EXCEPT ![h].wanted = Tail(@), ![h].row = None, ![h].at = "loading",
                             ![h].entries = key :> entry @@ @, ![h].next = @ \o Names(tree, row.pack)]

\* Built-ins and system packs take a name first.  Of a helper the row is read before its pack.
LookUp(h) ==
  /\ call[h].at = "loading" /\ call[h].wanted # <<>>
  /\ LET key == Head(call[h].wanted)
         skip == call' = [call EXCEPT ![h].wanted = Tail(@)] /\ UNCHANGED <<cached, helpers>>
     IN IF ~key.own /\ key.name \in Base THEN skip
        ELSE IF key.pack # None
        THEN \/ \E c \in InternalMember(work, key.pack, key.name) :
                  /\ call' = [call EXCEPT ![h].at = "fetched",
                                          ![h].row = Row([cmd |-> c, pack |-> key.pack, personal |-> FALSE])]
                  /\ helpers' = helpers \cup {c} /\ cached' = cached
             \/ InternalMember(work, key.pack, key.name) = {} /\ skip
        ELSE \/ \E target \in Lookup(call[h].user, call[h].scope, key) : Enter(h, Row(target)) /\ helpers' = helpers
             \/ Lookup(call[h].user, call[h].scope, key) = {} /\ skip
  /\ UNCHANGED <<theme, tables, memory, used, started>>

\* The pack of a helper is read; then its body is parsed.
PackRead(h) ==
  /\ call[h].at = "fetched"
  /\ Enter(h, call[h].row)
  /\ UNCHANGED <<theme, tables, memory, helpers, used, started>>

\* The names of the bodies that were found come next, to the depth a command may have.
NextLevel(h) ==
  LET new == SelectSeq(call[h].next, LAMBDA key : key \notin call[h].seen) IN
  /\ call[h].at = "loading" /\ call[h].wanted = <<>>
  /\ call' = [call EXCEPT ![h] =
       IF new # <<>> /\ @.level < MaxDepth
       THEN [@ EXCEPT !.level = @ + 1, !.wanted = new, !.next = <<>>, !.seen = @ \cup ToSet(new)]
       ELSE [@ EXCEPT !.at = "loaded", !.next = <<>>]]
  /\ UNCHANGED <<theme, tables, memory, cached, helpers, used, started>>

\* PreloadedResolver: the entry a name has in a body of that pack.
Resolve(entries, n, own, k) ==
  LET helper == [name |-> n, own |-> FALSE, pack |-> k]
      plain == [name |-> n, own |-> own, pack |-> None]
  IN {entries[key] : key \in IF ~own /\ n \in Base THEN {}
                             ELSE IF k # None /\ ~own /\ helper \in DOMAIN entries THEN {helper}
                             ELSE {plain} \cap DOMAIN entries}

\* The run ends; what it typed and the channel publishes is noted.
RunEnds(h) ==
  LET c == call[h]
      is(i) == Resolve(c.entries, i.name, i.own, None)
      ran == SelectSeq(c.line, LAMBDA i : c.typed /\ \E e \in is(i) : ~e.personal)
      notes == [i \in DOMAIN ran |-> [name |-> ran[i].name, version |-> (CHOOSE e \in is(ran[i]) : TRUE).version]]
  IN /\ c.at = "loaded"
     /\ call' = [call EXCEPT ![h] = IF notes = <<>> THEN Idle
          ELSE [at |-> "reading", todo |-> <<>>, loads |-> {}, more |-> [ask |-> "note", scope |-> c.scope, names |-> notes]]]
     /\ UNCHANGED <<theme, tables, memory, cached, helpers, used, started>>

AskCommand(h) ==
  \/ AskCreate(h) \/ AskEdit(h) \/ AskRevert(h) \/ AskParam(h) \/ AskDelete(h) \/ AskLink(h) \/ AskUnlink(h)
  \/ AskPublish(h) \/ AskStatus(h) \/ AskUnpublish(h) \/ AskGrant(h)

AskOfPack(h) ==
  \/ AskPack(h) \/ AskMembers(h) \/ AskMember(h) \/ AskSharePack(h) \/ AskDeletePack(h)
  \/ AskPublishPack(h) \/ AskUnpublishPack(h)

Next == \E h \in Call :
  \/ AskCommand(h) \/ AskOfPack(h) \/ ReadOn(h)
  \/ Transact(h) \/ GiveUp(h) \/ Commit(h) \/ RollBack(h) \/ Reload(h) \/ Cut(h)
  \/ Type(h) \/ LookUp(h) \/ PackRead(h) \/ NextLevel(h) \/ RunEnds(h)

Spec == Init /\ [][Next]_vars

-----------------------------------------------------------------------------
(* Properties. *)

\* Two edits of one command at once never overwrite each other: a version that is stored
\* stays what it is, and the current one is always one that is stored (ADR-0009).  It is
\* never an older one either, as long as no number is missing below it: an edit that read
\* a version which was then rolled back leaves one out, and another edit may take it later.
EditsKept == [][\A c \in Command :
  /\ \A v \in DOMAIN db.body[c] : v \in DOMAIN db'.body[c] /\ db'.body[c][v] = db.body[c][v]
  /\ db.cmd[c] # None =>
       /\ db'.cmd[c].current \in DOMAIN db'.body[c]
       /\ DOMAIN db.body[c] = 1..db.cmd[c].current => db'.cmd[c].current >= db.cmd[c].current]_vars

\* What runs is what is stored: a tree in the cache is that of the version it is kept
\* for, also when an edit that was read before its commit is rolled back and another
\* takes its number.  It does not hold of a command that was read as a pack's helper, whose
\* row is read before another statement and parsed after it.
CacheAgrees == \A e \in DOMAIN cached :
  e[1] \notin helpers /\ e[2] \in DOMAIN work.body[e[1]] => cached[e] = work.body[e[1]][e[2]]

\* The names a run meets at each depth: the line's, then those of the bodies they lead to.
Met(c) ==
  LET met[d \in 0..MaxDepth] ==
        IF d = 0 THEN {[name |-> c.line[i].name, own |-> c.line[i].own, pack |-> None] : i \in DOMAIN c.line}
        ELSE UNION {UNION {{[name |-> e.body[i].name, own |-> e.body[i].own, pack |-> e.pack] : i \in DOMAIN e.body} :
                           e \in Resolve(c.entries, m.name, m.own, m.pack)} : m \in met[d - 1]}
  IN UNION {met[d] : d \in 0..MaxDepth}

\* A run that says a command is unknown is right: every name it can come to, down to the
\* depth where commands are refused, whoever's body it is in and whatever changed while it
\* was loading, was looked for among the pack's helpers and among what the channel offers.
LoadedIsEnough == \A h \in Call : call[h].at = "loaded" =>
  \A m \in Met(call[h]) : (~m.own /\ m.name \in Base) \/
    ([m EXCEPT !.pack = None] \in call[h].seen /\ (m.own \/ m.pack = None \/ m \in call[h].seen))

\* The settings of a name are those of the command that runs under it, and belong to a
\* module the channel can switch off: what published_specs and custom_modules list is what
\* a line resolves, but for a name that is switched off here.
ListedAsRun == \A ch \in Channel, n \in Name \ Base :
  (work.pub[ch, n] = None \/ work.pub[ch, n].status # "disabled") =>
    /\ {SpecFor(work, f) : f \in Found(work, ch, n)} = {SpecFor(work, l) : l \in Lists(work, ch, n)}
    /\ \A f \in Found(work, ch, n) : SpecFor(work, f).module \in CustomModules(work, ch)

=============================================================================
