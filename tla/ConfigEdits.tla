---------------------------- MODULE ConfigEdits -----------------------------
(***************************************************************************)
(* The canonical config as its commands edit it:                           *)
(* src/crates/core/src/store.rs, with src/crates/cli/src/commands/add.rs,  *)
(* remove.rs, toggle.rs and clients.rs.  A config is the servers by name   *)
(* and, per client, the set of servers its [clients.KIND] table names      *)
(* (Absent without such a table, empty for "all of them").                 *)
(***************************************************************************)
EXTENDS SyncPlanning

Kinds == {KindOf[f] : f \in Files}
Config(servers, scopes) == [exists |-> TRUE, servers |-> servers, scopes |-> scopes]
\* A config that is not there reads as an empty one, and is told apart.
NoConfig == [Config(NoServers, [kind \in Kinds |-> Absent]) EXCEPT !.exists = FALSE]

\* An overwrite redefines the transport, not the limits around it.
Upsert(servers, n, server) ==
    [servers EXCEPT ![n] =
        [server EXCEPT !.rules = IF @ = Absent /\ servers[n] # Absent THEN servers[n].rules ELSE @]]
RemoveServer(servers, n)        == [servers EXCEPT ![n] = Absent]
SetEnabled(servers, n, enabled) == [servers EXCEPT ![n].enabled = enabled]
SetRules(servers, n, rules)     == [servers EXCEPT ![n].rules = rules]
\* A scope that says nothing takes its table away.
SetClientScope(config, kind, names) ==
    [config EXCEPT !.scopes[kind] = IF names = {} THEN Absent ELSE names]

\* The names a command must find in the config.
MustKnow(cmd) ==
    CASE cmd.kind \in {"remove", "enable", "disable", "rules"} -> {cmd.name}
      [] cmd.kind = "scope" -> cmd.names
      [] OTHER -> {}
Accepts(config, cmd) ==
    /\ MustKnow(cmd) \subseteq Known(config.servers)
    /\ cmd.kind # "add" => config.exists
    \* Without --force somebody must be there to say yes.
    /\ cmd.kind = "add" /\ ~cmd.force => config.servers[cmd.name] = Absent

Edited(config, cmd) ==
    LET servers == config.servers
        Saved(changed) == [config EXCEPT !.exists = TRUE, !.servers = changed]
    IN CASE cmd.kind = "add" -> Saved(Upsert(servers, cmd.name, cmd.server))
         [] cmd.kind = "remove" -> Saved(RemoveServer(servers, cmd.name))
         [] cmd.kind = "enable" -> Saved(SetEnabled(servers, cmd.name, TRUE))
         [] cmd.kind = "disable" -> Saved(SetEnabled(servers, cmd.name, FALSE))
         [] cmd.kind = "rules" -> Saved(SetRules(servers, cmd.name, cmd.rules))
         [] cmd.kind = "scope" -> SetClientScope(config, cmd.client, cmd.names)

EditKinds == {"add", "remove", "enable", "disable", "rules", "scope"}
\* after_edit: a sync of the per-user files, unless --no-sync; the commands
\* that only say how to run one do not.
SyncsAfter(cmd) == cmd.kind \in {"add", "remove", "enable", "disable"} /\ cmd.sync
=============================================================================
