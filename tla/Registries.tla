----------------------------- MODULE Registries -----------------------------
(***************************************************************************)
(* The other settings with a copy in memory: the channel's triggers and    *)
(* its packs', the word filter, the hosts a command may fetch and their    *)
(* limits.  Each service writes its rows and the audit row in one          *)
(* transaction and reads all its rows again after it.                      *)
(***************************************************************************)
EXTENDS PolicyTables

CONSTANT MaxPackTriggers
ASSUME MaxPackTriggersIsPositive == MaxPackTriggers \in Nat \ {0}

Row(scope, key, f) == [scope |-> scope, key |-> key, enabled |-> "on", f |-> f]

-----------------------------------------------------------------------------
(* What the services hold.                                                 *)

\* The channel's own triggers, then its pack's, while the pack's module is on here.
InChannel(m) == {i \in DOMAIN m.triggers : m.triggers[i].scope = "here" \/ ModuleOn(m)}

\* Names are looked up among the listeners that are on.
ListenerNamed(m, name) ==
  {i \in InChannel(m) : m.triggers[i].key = name /\ m.triggers[i].enabled = "on"}

PackTrigger(m, key) == {i \in DOMAIN m.triggers : m.triggers[i].scope = "pack" /\ m.triggers[i].key = key}
PackTriggers(m) == {i \in DOMAIN m.triggers : m.triggers[i].scope = "pack"}

-----------------------------------------------------------------------------
(* Triggers.                                                               *)

AddTrigger(w, t, new) ==
  Done([t EXCEPT !.triggers = Put(@, new, Row("here", w.key, w.f))], {<<"triggers", new>>})

\* All columns are written, as they were worked out before; the edit is audited though no row be left.
UpdateTrigger(w, t) ==
  Done(IF w.id \in DOMAIN t.triggers THEN [t EXCEPT !.triggers[w.id].f = w.f] ELSE t, {<<"triggers", w.id>>})

RemoveTrigger(w, t) ==
  IF w.id \notin DOMAIN t.triggers THEN Done(t, {})
  ELSE Done([t EXCEPT !.triggers = Without(@, {w.id})], {<<"triggers", w.id>>})

EnableTrigger(w, t) ==
  IF w.id \notin DOMAIN t.triggers THEN Done(t, {})
  ELSE Done([t EXCEPT !.triggers[w.id].enabled = w.f["enabled"]], {<<"triggers", w.id>>})

\* The pack's row for a key is found in the transaction and keeps its on/off state.
WritePackTrigger(w, t, new) ==
  LET found == PackTrigger(t, w.key)
  IN IF found = {} THEN Done([t EXCEPT !.triggers = Put(@, new, Row("pack", w.key, w.f))], {<<"triggers", new>>})
     ELSE LET i == CHOOSE i \in found : TRUE
          IN IF t.triggers[i].f = w.f THEN Done(t, {})
             ELSE Done([t EXCEPT !.triggers[i].f = w.f], {<<"triggers", i>>})

EnablePackTrigger(w, t) ==
  LET found == PackTrigger(t, w.key)
  IN Done([t EXCEPT !.triggers = [i \in DOMAIN @ |-> IF i \in found THEN [@[i] EXCEPT !.enabled = w.f["enabled"]]
                                                       ELSE @[i]]], {<<"triggers", i>> : i \in found})

\* By the id that was found in memory, and audited whether or not a row is left.
EditPackTrigger(w, t) ==
  Done(IF w.id \in DOMAIN t.triggers THEN [t EXCEPT !.triggers[w.id].f = w.f @@ @] ELSE t, {<<"triggers", w.id>>})

RemovePackTrigger(w, t) ==
  LET found == PackTrigger(t, w.key)
  IN Done([t EXCEPT !.triggers = Without(@, found)], {<<"triggers", i>> : i \in found})

-----------------------------------------------------------------------------
(* The word filter.                                                        *)

AddFilter(w, t, new) ==
  Done([t EXCEPT !.filters = Put(@, new, Row(w.scope, "", w.f))], {<<"filters", new>>})

FilterRow(w, t) == w.id \in DOMAIN t.filters /\ t.filters[w.id].scope = w.scope

UpdateFilter(w, t) ==
  Done(IF FilterRow(w, t) THEN [t EXCEPT !.filters[w.id].f = w.f] ELSE t, {<<"filters", w.id>>})

RemoveFilter(w, t) ==
  IF ~FilterRow(w, t) THEN Done(t, {})
  ELSE Done([t EXCEPT !.filters = Without(@, {w.id})], {<<"filters", w.id>>})

EnableFilter(w, t) ==
  IF ~FilterRow(w, t) THEN Done(t, {})
  ELSE Done([t EXCEPT !.filters[w.id].enabled = w.f["enabled"]], {<<"filters", w.id>>})

-----------------------------------------------------------------------------
(* Hosts.                                                                  *)

\* A host that is listed keeps its secret.
AllowHost(w, t) ==
  LET row == IF w.key \in DOMAIN t.hosts THEN t.hosts[w.key] ELSE "secret" :> "none"
  IN Done([t EXCEPT !.hosts = Put(@, w.key, w.f @@ row)], {<<"hosts", w.key>>})

DenyHost(w, t) == Done([t EXCEPT !.hosts = Without(@, {w.key})], {<<"hosts", w.key>>})

SetSecret(w, t) ==
  Done(IF w.key \in DOMAIN t.hosts THEN [t EXCEPT !.hosts[w.key] = w.f @@ @] ELSE t, {<<"hosts", w.key>>})

SetLimits(w, t) == Done([t EXCEPT !.limits = w.f], {<<"limits", "row">>})
=============================================================================
