----------------------------- MODULE ConfigReload -----------------------------
(***************************************************************************)
(* How a running gateway follows its config file: reload.rs, the live      *)
(* [clients] table of config.rs, the endpoint table of endpoints.rs and    *)
(* what of a config decides who may reach a tool.                          *)
(*                                                                         *)
(* An edit is the text one write left in the file, numbered by the writes  *)
(* so far.  The three things a reload publishes - the client scopes, the   *)
(* server map, the endpoint table - each hold the edit they were made from.*)
(***************************************************************************)
EXTENDS Naturals, FiniteSets

CONSTANTS
    Names,      \* server names
    Clients,    \* client kinds, the ids of [clients.KIND]
    Tools,
    Selection,  \* the names of `serve --server`, or Absent
    Contents,   \* the texts the config file may be given
    Boot,       \* the one the gateway starts with
    MaxEdits,   \* bound on writes to the config file
    Absent      \* None

Everything == [allow |-> {}, deny |-> {}]

\* A config that loads: name -> Absent or [enabled, transport, rules], and
\* client -> Absent or [servers, rules].  A file may also be gone or broken.
Missing == [loads |-> FALSE, why |-> "not found"]
Broken  == [loads |-> FALSE, why |-> "parse error"]

ASSUME ReloadAssumption ==
    /\ MaxEdits \in Nat
    /\ Boot \in Contents /\ Boot.loads
    /\ \A c \in Contents :
          \/ c \in {Missing, Broken}
          \/ /\ DOMAIN c.servers = Names /\ DOMAIN c.clients = Clients
             /\ \A n \in Names : c.servers[n] # Absent => c.servers[n].enabled \in BOOLEAN

-----------------------------------------------------------------------------
(* What a config lets through.                                              *)

\* ToolRules::allows: deny-by-default once allow has an entry, then deny.
Allows(rules, tool) == (rules.allow = {} \/ tool \in rules.allow) /\ tool \notin rules.deny

ServerAllows(config, name, tool) ==
    LET server == config.servers[name]
    IN server = Absent \/ server.rules = Absent \/ Allows(server.rules, tool)

\* The half of Gateway::refusal that asks the client's scope; client is
\* Absent for an endpoint without a ?client= tag.
ScopeAllows(config, client, name, tool) ==
    \/ client = Absent
    \/ config.clients[client] = Absent
    \/ LET scope == config.clients[client]
       IN /\ scope.servers = {} \/ name \in scope.servers
          /\ scope.rules = Absent \/ Allows(scope.rules, tool)

\* Reloader::select.
Select(config) ==
    {n \in Names : /\ config.servers[n] # Absent /\ config.servers[n].enabled
                   /\ Selection = Absent \/ n \in Selection}

-----------------------------------------------------------------------------
VARIABLES
    file,     \* the edit on disk
    seen,     \* Reloader::seen, the stamp of the edit last read
    hangup,   \* a SIGHUP is pending
    watcher,  \* the task of Reloader::watch: where it is, the stamp it took
              \* and the edit it read
    scopes,   \* ClientScopes
    servers,  \* the manager's map
    table     \* Endpoints

published == << scopes, servers, table >>
reloadVars == << file, seen, hangup, watcher, scopes, servers, table >>

NoStamp == 0
\* stamp: a file that is not there has none.
Stamp(edit) == IF edit.is = Missing THEN NoStamp ELSE edit.at

WatcherPlaces == {"asleep", "woken", "reading", "marking", "scopes", "servers", "table", "stopped"}
Asleep == [at |-> "asleep", stamp |-> NoStamp, read |-> Absent]

ReloadInit ==
    \E edit \in {[at |-> 1, is |-> Boot]} :
        /\ file = edit /\ scopes = edit /\ servers = edit /\ table = edit
        /\ seen = NoStamp  \* serve's own load does not mark it
        /\ hangup = FALSE
        /\ watcher = Asleep

\* Somebody writes the file, or removes it.
EditFile(content) ==
    /\ file.at <= MaxEdits
    /\ content # file.is
    /\ file' = [at |-> file.at + 1, is |-> content]
    /\ UNCHANGED << seen, hangup, watcher, published >>

\* An operator sends SIGHUP.
HangUpSignal ==
    /\ ~hangup /\ watcher.at # "stopped" /\ file.at > 1
    /\ hangup' = TRUE
    /\ UNCHANGED << file, seen, watcher, published >>

\* Reloader::watch wakes: by its timer, when the file differs from what was
\* last read, or by the signal, whatever the file says.
Changed(edit) == Stamp(edit) # seen
PollWhenForced ==  \* mutant: the timer never fires
    /\ watcher.at = "asleep" /\ Changed(file) /\ hangup
    /\ watcher' = [watcher EXCEPT !.at = "woken"]
    /\ UNCHANGED << file, seen, hangup, published >>
Poll ==
    /\ watcher.at = "asleep" /\ Changed(file)
    /\ watcher' = [watcher EXCEPT !.at = "woken"]
    /\ UNCHANGED << file, seen, hangup, published >>
Forced ==
    /\ watcher.at = "asleep" /\ hangup
    /\ hangup' = FALSE
    /\ watcher' = [watcher EXCEPT !.at = "woken"]
    /\ UNCHANGED << file, seen, published >>

\* reload: the stamp first, then the text.
TakeStamp ==
    /\ watcher.at = "woken"
    /\ watcher' = [watcher EXCEPT !.at = "reading", !.stamp = Stamp(file)]
    /\ UNCHANGED << file, seen, hangup, published >>

\* The text is read, then the stamp marked, also when the text does not load:
\* such a text changes nothing else.
ReadText ==
    /\ watcher.at = "reading"
    /\ watcher' = [watcher EXCEPT !.at = "marking", !.read = file]
    /\ UNCHANGED << file, seen, hangup, published >>
MarkedAfterRead == Stamp(file)  \* mutant: the stamp is taken after the text
Marked == watcher.stamp
MarkSeen ==
    /\ watcher.at = "marking"
    /\ seen' = Marked
    /\ watcher' = IF watcher.read.is.loads THEN [watcher EXCEPT !.at = "scopes"] ELSE Asleep
    /\ UNCHANGED << file, hangup, published >>

\* apply, in its order: the scopes, the upstreams, the endpoints.
StoreEndpointsEarly ==  \* mutant: the endpoints are published before the upstreams
    /\ watcher.at = "scopes"
    /\ scopes' = watcher.read /\ table' = watcher.read
    /\ watcher' = [watcher EXCEPT !.at = "servers"]
    /\ UNCHANGED << file, seen, hangup, servers >>
StoreScopes ==
    /\ watcher.at = "scopes"
    /\ scopes' = watcher.read
    /\ watcher' = [watcher EXCEPT !.at = "servers"]
    /\ UNCHANGED << file, seen, hangup, servers, table >>
StoreServers ==
    /\ watcher.at = "servers"
    /\ servers' = watcher.read
    /\ watcher' = [watcher EXCEPT !.at = "table"]
    /\ UNCHANGED << file, seen, hangup, scopes, table >>
StoreTable ==
    /\ watcher.at = "table"
    /\ table' = watcher.read
    /\ watcher' = Asleep
    /\ UNCHANGED << file, seen, hangup, scopes, servers >>

\* The shutdown serve hands to watch: taken between two reloads only.
StopWatching ==
    /\ watcher.at = "asleep"
    /\ watcher' = [watcher EXCEPT !.at = "stopped"]
    /\ UNCHANGED << file, seen, hangup, published >>

\* The steps of the watcher itself, without those a composition joins with
\* what the upstream manager does.
WatchSteps == Poll \/ Forced \/ TakeStamp \/ ReadText \/ MarkSeen \/ StoreScopes \/ StoreTable

-----------------------------------------------------------------------------
(* Properties.                                                              *)

EditOf(content) == [at : 1 .. MaxEdits + 1, is : {content}]
Edits == UNION {EditOf(c) : c \in Contents}
ReloadTypeOK ==
    /\ file \in Edits /\ scopes \in Edits /\ servers \in Edits /\ table \in Edits
    /\ seen \in 0 .. MaxEdits + 1
    /\ hangup \in BOOLEAN
    /\ watcher.at \in WatcherPlaces
    /\ watcher.read \in Edits \cup {Absent}

\* The config in force is the one on disk, unless that one cannot be loaded.
InForce == file.is.loads => scopes.is = file.is /\ servers.is = file.is /\ table.is = file.is

\* No edit is lost: when the watcher is at rest and the file has not changed
\* since it was read, what the gateway serves is what the file says, however
\* the writes fell between the stamp and the read (reload.rs:193-201).
NoEditLost == watcher.at = "asleep" /\ ~Changed(file) => InForce
=============================================================================
