---------------------------- MODULE SyncCommands ----------------------------
(***************************************************************************)
(* The commands that write the canonical config, the state file and the    *)
(* client files, run from several terminals at once: sync, the edits that  *)
(* end in a sync, import, eject, rollback and the wizard's import and sync *)
(* steps (src/crates/cli/src/commands/), with the two locks and the backups *)
(* of src/crates/core/src/state.rs, store.rs and backup.rs.  Beside them   *)
(* the clients and their users edit the client files, which no lock        *)
(* protects, and a command may die at any point.                           *)
(*                                                                         *)
(* Each file is replaced atomically, and one action writes one file.  The  *)
(* files that a command only reads before it takes a lock, or before it    *)
(* asks (ImportStarts, EjectPlan, Refresh, SyncStep), are read in one      *)
(* action.  What a command holds in memory between two of its steps is     *)
(* term[p]: config, state and docs as it read them, `seen` the state its   *)
(* plans are made from, and the files it still has to do.                  *)
(***************************************************************************)
EXTENDS ImportPlanning
LOCAL INSTANCE SequencesExt

CONSTANTS
    Terminals,    \* where commands run
    Commands,     \* the command lines that may be given, each of them once
    Installed,    \* the per-user files whose client is on this machine
    Token,        \* what gateway entries carry, or Absent
    UserEntries,  \* file -> the entries users write there themselves
    Keep,         \* backups kept per file (KEEP, 5 in the code)
    Nobody,
    MaxCommands, MaxDisturbances,  \* bounds of the model: commands, and user edits and crashes
    Machines       \* the machines to start from: config, state file and client files

States == [managed : [Files -> SUBSET Names], resolved : [Files -> [Names -> Names \cup {Absent}]], migrated : BOOLEAN]
\* What is no map has no entries.
Fits(doc) == /\ DOMAIN doc = {"shape", "entries", "excluded"}
             /\ doc.shape \in Shapes /\ DOMAIN doc.entries = Names
             /\ doc.shape \notin {"map", "inline"} => doc.entries = NoEntries

\* Every transport leads somewhere; only a remote one has a headers helper, of
\* a line with a word in it.
HelperFits(helper) ==
    helper = Absent \/ (helper = Argv(helper.line, helper.inside) /\ helper.line \notin {Absent, Wrong})
TransportFits(t) ==
    /\ t = [kind |-> t.kind, at |-> t.at, given |-> t.given, helper |-> t.helper]
    /\ t.kind \in {"stdio", "http"} /\ Wrong \notin {t.at, t.given} /\ HelperFits(t.helper)
    /\ t.kind = "stdio" => t.helper = Absent
ServerFits(server) == DOMAIN server = {"transport", "enabled", "rules"} /\ TransportFits(server.transport)
ConfigFits(cfg) == /\ DOMAIN cfg = {"exists", "servers", "scopes"} /\ DOMAIN cfg.servers = Names
                   /\ \A n \in Known(cfg.servers) : ServerFits(cfg.servers[n])

\* An entry of f through which its client reaches the gateway.
ReachesGateway(f, entry) ==
    LET read == Parse(Codec(KindOf[f]).entries, entry) IN ~read.problem /\ AimsAtGateway(read.transport)
\* Those of a file are among the names mcpgw claims there.
ClaimsWhatReaches(doc, f, claimed) ==
    \A n \in Present(doc) : ReachesGateway(f, doc.entries[n]) => n \in claimed

\* Users lead their clients to servers of their own; the gateway's entries
\* that are there to begin with are the ones that mcpgw wrote and claimed.
\* What is missing is no key, no type and no switch, and what is wrong is no
\* token and no address.
ASSUME CommandAssumption ==
    /\ Nobody \notin Terminals /\ Keep \in Nat \ {0}
    /\ \A machine \in Machines :
          /\ ConfigFits(machine.config) /\ machine.state \in States /\ DOMAIN machine.docs = Files
          /\ \A f \in Files :
                Fits(machine.docs[f]) /\ ClaimsWhatReaches(machine.docs[f], f, Managed(machine.state, f))
    /\ \A f \in Files : \A entry \in UserEntries[f] : ~ReachesGateway(f, entry)
    /\ \A cmd \in Commands : cmd.kind = "add" => ServerFits(cmd.server)
    /\ Wrong \notin {Absent, Token, "helper"} /\ Absent \notin EntryWords \cup {"helper"} /\ Absent \notin BOOLEAN
    /\ \A kind \in ClientKind : \A n \in Names : \A scoped \in BOOLEAN :
          Wrong \notin {Endpoint(kind, n, scoped), Bridge(kind, n, scoped)}

VARIABLES
    config,      \* config.toml
    stateFile,   \* managed.json
    docs,        \* the client files
    backups,     \* file -> its backups, oldest first
    configLock,  \* who holds the config's lock file
    stateLock,   \* who holds the state file's
    term,        \* what each terminal is at
    raced,       \* history: files that changed since they were last backed up
    loose,       \* history: files whose claims a crash, a rollback or the wizard left behind
    spent        \* the commands given, and how many user edits or crashes there were

files == <<config, stateFile, docs, backups>>
vars  == <<files, configLock, stateLock, term, raced, loose, spent>>

NoDocs  == [f \in Files |-> Missing]
NoPlans == [f \in Files |-> Absent]
Idle == [ pc |-> "idle", cmd |-> Absent, config |-> NoConfig, state |-> NoState, seen |-> NoState,
          docs |-> NoDocs, plans |-> NoPlans, todo |-> {}, answers |-> << >>, skip |-> {}, imported |-> Absent, notified |-> FALSE ]

Init ==
    /\ \E machine \in Machines :
          config = machine.config /\ stateFile = machine.state /\ docs = machine.docs
    /\ backups = [f \in Files |-> << >>]
    /\ configLock = Nobody /\ stateLock = Nobody
    /\ term = [p \in Terminals |-> Idle]
    /\ raced = Files /\ loose = {}
    /\ spent = [commands |-> {}, disturbances |-> 0]

-----------------------------------------------------------------------------
(* Locks.                                                                   *)

FreeIgnored(lock) == lock = lock  \* mutant: nobody waits for the lock
Free(lock) == lock = Nobody
Held(lock, p) == IF lock = p THEN Nobody ELSE lock
\* A command that ends, by itself or not, closes its files.
Release(p) ==
    /\ configLock' = Held(configLock, p)
    /\ stateLock' = Held(stateLock, p)

-----------------------------------------------------------------------------
(* Plans of files.                                                          *)

Scoped(cfg, f) == cfg.scopes[KindOf[f]]
GatewayServers(cfg, f) ==
    PerServerGatewayServers(KindOf[f], cfg.servers, Token, Scoped(cfg, f))

\* What a command wants a file to hold: sync the gateway's entries and eject
\* the servers themselves, both under the client's own names; the wizard the
\* gateway's entries as they are called in the config.
Desired(t, f) ==
    CASE t.cmd.kind = "eject" -> UnderClientNames(t.config.servers, Resolved(t.seen, f))
      [] t.cmd.kind = "init" -> GatewayServers(t.config, f)
      [] OTHER -> UnderClientNames(GatewayServers(t.config, f), Resolved(t.seen, f))
PlanOf(t, f) == PlanFile(f, t.docs[f], Desired(t, f), Managed(t.seen, f))

\* resolve_target and discover: is there a file to plan, or one to create?
Findable(f, doc) == doc.shape # "missing" \/ (f \notin InProject /\ f \in Installed)
Planned(f, doc) ==
    /\ Findable(f, doc)
    /\ doc.shape # "missing" => Parses(ScopeCodec(f).format, doc)
Writable(f, doc) == Planned(f, doc) /\ ~Refuses(doc)

\* An entry that still leads to its server is about to lead to the gateway.
DialsItsServer(read) == ~read.problem /\ ~AimsAtGateway(read.transport)
Migrates(t, f, plan) ==
    ~t.state.migrated /\ \E n \in plan.updates : DialsItsServer(Parse(Codec(KindOf[f]).entries, t.docs[f].entries[n]))

\* The file whose turn it is: the first of those still to do.
Turn(todo) ==
    {f \in todo : \A g \in todo :
        \E i, j \in DOMAIN FileOrder : i <= j /\ FileOrder[i] = f /\ FileOrder[j] = g}

-----------------------------------------------------------------------------
(* Command lines.                                                           *)

Starts(p, kind, cmd) ==
    /\ term[p].pc = "idle" /\ Cardinality(spent.commands) < MaxCommands
    /\ cmd \in Commands \ spent.commands /\ cmd.kind = kind
    /\ spent' = [spent EXCEPT !.commands = @ \cup {cmd}]
At(p, pc) == term[p].pc = pc
Goes(p, t) == term' = [term EXCEPT ![p] = t]
Ends(p) == Goes(p, Idle) /\ Release(p)
KeepsLocks == UNCHANGED <<configLock, stateLock>>
Quiet == UNCHANGED <<raced, loose>>

\* sync: the config is read before the state lock is asked for.
SyncStarts(p) == \E cmd \in Commands :
    /\ Starts(p, "sync", cmd)
    /\ Goes(p, [Idle EXCEPT !.pc = "lock for sync", !.cmd = cmd, !.config = config,
                            !.todo = cmd.targets])
    /\ UNCHANGED files /\ KeepsLocks /\ Quiet

LockForSync(p) ==
    /\ At(p, "lock for sync") /\ Free(stateLock)
    /\ stateLock' = p
    /\ Goes(p, [term[p] EXCEPT !.pc = "plan", !.state = stateFile, !.seen = stateFile])
    /\ UNCHANGED <<files, configLock, spent>> /\ Quiet

\* Run::one up to the point where something is written.
PlanNext(p) ==
    /\ At(p, "plan")
    /\ \E f \in Turn(term[p].todo) :
       LET t == [term[p] EXCEPT !.docs[f] = docs[f]]
       IN \E plan \in {PlanOf(t, f)} :
             IF Writable(f, docs[f]) /\ HasChanges(plan)
             THEN Goes(p, [t EXCEPT !.pc = "back up", !.plans[f] = plan,
                                    !.notified = @ \/ Migrates(t, f, plan)])
             ELSE Goes(p, [term[p] EXCEPT !.todo = @ \ {f}])
    /\ UNCHANGED <<files, spent>> /\ KeepsLocks /\ Quiet

FinishSync(p) ==
    /\ At(p, "plan") /\ term[p].todo = {}
    /\ stateFile' = IF term[p].notified THEN [term[p].state EXCEPT !.migrated = TRUE] ELSE stateFile
    /\ Ends(p)
    /\ UNCHANGED <<config, docs, backups, spent>> /\ Quiet

-----------------------------------------------------------------------------
(* apply_client: a backup, the claim, the file.                             *)

BackedUpAsPlanned(t, f) == t.docs[f]  \* mutant: the copy that was planned from
BackedUp(t, f) == docs[f]
PushedAll(stack, doc) == Append(stack, doc)  \* mutant: old backups are never pruned
Pushed(stack, doc) ==
    LET all == Append(stack, doc)
    IN IF Len(all) > Keep THEN Tail(all) ELSE all

BackUp(p) ==
    /\ At(p, "back up")
    /\ \E f \in Turn(term[p].todo) :
       LET existed == term[p].docs[f].shape # "missing"
       IN IF existed /\ docs[f].shape = "missing"
          THEN Ends(p) /\ UNCHANGED <<backups, raced>>  \* nothing to copy: the command fails
          ELSE /\ backups' = IF existed THEN [backups EXCEPT ![f] = Pushed(@, BackedUp(term[p], f))]
                             ELSE backups
               /\ raced' = IF existed THEN raced \ {f} ELSE raced
               /\ Goes(p, [term[p] EXCEPT !.pc = "claim"]) /\ KeepsLocks
    /\ UNCHANGED <<config, stateFile, docs, loose, spent>>

ClaimNames(p) ==
    /\ At(p, "claim")
    /\ \E f \in Turn(term[p].todo) :
       LET claimed == Claim(term[p].state, f, ManagedAfter(term[p].plans[f]))
       IN /\ stateFile' = claimed
          /\ Goes(p, [term[p] EXCEPT !.pc = "write", !.state = claimed])
    /\ UNCHANGED <<config, docs, backups, spent>> /\ KeepsLocks /\ Quiet

\* sync goes on to plan the next file, eject and the wizard have planned it.
Write(p) ==
    /\ At(p, "write")
    /\ \E f \in Turn(term[p].todo) :
       LET t == term[p]
           next == [t EXCEPT !.todo = @ \ {f}, !.docs[f] = Missing, !.plans[f] = Absent]
       IN /\ docs' = [docs EXCEPT ![f] = ApplyPlanTo(t.docs[f], t.plans[f])]
          /\ raced' = raced \cup {f}
          /\ IF t.cmd.kind \in {"eject", "init"}
             THEN IF next.todo = {} THEN Ends(p)
                  ELSE Goes(p, [next EXCEPT !.pc = "back up"]) /\ KeepsLocks
             ELSE Goes(p, [next EXCEPT !.pc = "plan"]) /\ KeepsLocks
    /\ UNCHANGED <<config, stateFile, backups, loose, spent>>

-----------------------------------------------------------------------------
(* add, remove, enable, disable, `tools` and `clients servers`.             *)

\* `clients servers` looks its names up before it asks for the lock.
EditStarts(p) == \E kind \in EditKinds : \E cmd \in Commands :
    /\ Starts(p, kind, cmd)
    /\ kind = "scope" => MustKnow(cmd) \subseteq Known(config.servers)
    /\ Goes(p, [Idle EXCEPT !.pc = "lock for edit", !.cmd = cmd])
    /\ UNCHANGED files /\ KeepsLocks /\ Quiet

LockForEdit(p) ==
    /\ At(p, "lock for edit") /\ Free(configLock)
    /\ IF Accepts(config, IF term[p].cmd.kind = "scope" THEN [term[p].cmd EXCEPT !.names = {}]
                          ELSE term[p].cmd)
       THEN /\ configLock' = p /\ UNCHANGED stateLock
            /\ Goes(p, [term[p] EXCEPT !.pc = "save edit", !.config = config])
       ELSE Ends(p)
    /\ UNCHANGED <<files, spent>> /\ Quiet

\* The lock file stays open to the end of the command, its sync included.
SaveEdit(p) ==
    /\ At(p, "save edit")
    /\ LET saved == Edited(term[p].config, term[p].cmd)
       IN /\ config' = saved
          /\ IF SyncsAfter(term[p].cmd)
             THEN /\ Goes(p, [term[p] EXCEPT !.pc = "lock for sync", !.config = saved,
                                             !.todo = Files \ InProject])
                  /\ KeepsLocks
             ELSE Ends(p)
    /\ UNCHANGED <<stateFile, docs, backups, spent>> /\ Quiet

-----------------------------------------------------------------------------
(* import, and the import step of the wizard.                               *)

Reads(t) == [f \in Files |-> Source(f, t.docs[f])]

\* The wizard drops what mcpgw manages and what somebody was asked about.
Undecided(state, reads) ==
    [f \in Files |-> [n \in Names |->
        IF n \in Managed(state, f) \/ Resolved(state, f)[n] # Absent THEN Problem ELSE reads[f][n]]]
Offered(t) == IF t.cmd.kind = "init" THEN Undecided(t.seen, Reads(t)) ELSE Reads(t)
Nothing(plan) == plan.new = << >> /\ plan.already = << >> /\ plan.conflicts = << >>
ConflictNames(plan) == {plan.conflicts[i].name : i \in DOMAIN plan.conflicts}
NamesOf(candidates) == {candidates[i].name : i \in DOMAIN candidates}
SharedNames(plan) == NamesOf(SelectSeq(plan.new, LAMBDA c : c.shared))
ConflictChoice == {"overwrite", "keep both", "keep canonical"}

\* The files are read without a lock.
ImportStarts(p) == \E cmd \in Commands :
    /\ Starts(p, "import", cmd)
    /\ Goes(p, [Idle EXCEPT !.pc = "lock for import", !.cmd = cmd,
                            !.docs = [f \in Files |-> IF f \in cmd.targets THEN docs[f] ELSE Missing]])
    /\ UNCHANGED files /\ KeepsLocks /\ Quiet

LockForImport(p) ==
    /\ At(p, "lock for import") /\ Free(configLock)
    /\ \E plan \in {PlanImport(Offered(term[p]), config.servers)} :
       LET t == [term[p] EXCEPT !.config = config]
           asks == ConflictNames(plan) \cup SharedNames(plan) # {} /\ ~t.cmd.yes
       IN \/ Nothing(plan) /\ Ends(p)
          \/ ~Nothing(plan) /\ asks /\ Goes(p, [t EXCEPT !.pc = "ask"]) /\ KeepsLocks
          \/ /\ ~Nothing(plan) /\ ~asks
             /\ configLock' = p /\ UNCHANGED stateLock
             /\ Goes(p, [t EXCEPT !.pc = "adopt"])
    /\ UNCHANGED <<files, spent>> /\ Quiet

\* Think-time.  The answers are about the plan as it was shown, and are used
\* on a plan made again from the config as it is once the lock is back.  What
\* a user of the wizard strikes out is taken out of its sources.
RelockedStale(t) == t.config  \* mutant: the plan of the first lock is written
Relocked(t) == config
StruckOut(t, plan, names) ==
    LET gone == UNION {plan.new[i].origins : i \in {j \in DOMAIN plan.new : plan.new[j].name \in names}}
    IN [f \in Files |->
          [t.docs[f] EXCEPT !.entries = [n \in Names |-> IF <<f, n>> \in gone THEN Absent ELSE @[n]]]]
Answer(p) ==
    /\ At(p, "ask") /\ Free(configLock)
    /\ \E plan \in {PlanImport(Offered(term[p]), term[p].config.servers)} :
       LET t == term[p]
           init == t.cmd.kind = "init"
       IN \E answers \in [ConflictNames(plan) -> ConflictChoice],
             skip \in SUBSET (IF init THEN NamesOf(plan.new) ELSE SharedNames(plan)) :
             Goes(p, [t EXCEPT !.pc = "adopt", !.config = Relocked(t), !.answers = answers,
                               !.skip = IF init THEN {} ELSE skip,
                               !.docs = IF init THEN StruckOut(t, plan, skip) ELSE @])
    /\ configLock' = p
    /\ UNCHANGED <<files, stateLock, spent>> /\ Quiet

\* What is written is worked out in memory, under both locks.  (When the
\* model is out of names, the command gives up.)
Answered(t) == [n \in Names |-> IF n \in DOMAIN t.answers THEN t.answers[n] ELSE Absent]
LockToAdopt(p) ==
    /\ At(p, "adopt") /\ Free(stateLock)
    /\ \E plan \in {PlanImport(Offered(term[p]), term[p].config.servers)} :
          IF NamesSuffice(plan)
          THEN /\ stateLock' = p /\ UNCHANGED configLock
               /\ Goes(p, [term[p] EXCEPT !.pc = "save config", !.state = stateFile,
                             !.imported = Imported(plan, [config |-> term[p].config, state |-> stateFile],
                                                   Answered(term[p]), term[p].skip)])
          ELSE Ends(p)
    /\ UNCHANGED <<files, spent>> /\ Quiet

\* The config goes first.
SaveImported(p) ==
    /\ At(p, "save config")
    /\ config' = term[p].imported.config
    /\ Goes(p, [term[p] EXCEPT !.pc = "save adoptions"])
    /\ UNCHANGED <<stateFile, docs, backups, spent>> /\ KeepsLocks /\ Quiet

AdoptFirst(p) ==  \* mutant: the adoption record before the config
    /\ term[p].pc \in {"save config", "save adoptions"}
    /\ stateFile' = term[p].imported.state
    /\ Ends(p)
    /\ UNCHANGED <<config, docs, backups, spent>> /\ Quiet
SaveAdoptions(p) ==
    /\ At(p, "save adoptions")
    /\ stateFile' = term[p].imported.state
    /\ IF term[p].cmd.kind = "init"
       THEN Goes(p, [Idle EXCEPT !.pc = "refresh", !.cmd = term[p].cmd]) /\ Release(p)
       ELSE Ends(p)
    /\ UNCHANGED <<config, docs, backups, spent>> /\ Quiet

-----------------------------------------------------------------------------
(* eject.                                                                   *)

\* Without a config there is nothing to restore to.
EjectStarts(p) == \E cmd \in Commands :
    /\ Starts(p, "eject", cmd) /\ config.exists
    /\ Goes(p, [Idle EXCEPT !.pc = "lock for eject", !.cmd = cmd, !.config = config])
    /\ UNCHANGED files /\ KeepsLocks /\ Quiet

\* Every file with claims is planned at once; no file is created.
Claimed(t) == {f \in Files : Managed(t.seen, f) # {}}
Replanned(t) ==
    [f \in Files |-> IF f \in Claimed(t) /\ t.docs[f].shape # "missing" /\ Planned(f, t.docs[f])
                     THEN PlanOf(t, f) ELSE Absent]
Changing(t) == {f \in Claimed(t) : t.plans[f] # Absent /\ HasChanges(t.plans[f])}
Restored(t) == {f \in Changing(t) : ~Refuses(t.docs[f])}
EjectPlan(t) == [t EXCEPT !.state = stateFile, !.seen = stateFile, !.docs = docs,
                          !.plans = Replanned([t EXCEPT !.seen = stateFile, !.docs = docs])]
\* What was printed: the plans, and a note for each other file with claims.
Note(t, f) ==
    CASE t.docs[f].shape = "missing" -> "gone"
      [] t.docs[f].shape # "missing" /\ t.plans[f] = Absent -> "skipped"
      [] OTHER -> "already"
Shown(t) == [plans |-> {<<f, t.plans[f]>> : f \in Changing(t)},
             notes |-> {<<f, Note(t, f)>> : f \in Claimed(t) \ Changing(t)}]

LockForEject(p) ==
    /\ At(p, "lock for eject") /\ Free(stateLock)
    /\ \E t \in {EjectPlan(term[p])} :
       LET next == [t EXCEPT !.todo = Restored(t)]
       IN \/ Restored(t) = {} /\ Ends(p)
          \/ /\ Restored(t) # {} /\ ~t.cmd.yes
             /\ Goes(p, [next EXCEPT !.pc = "confirm"]) /\ KeepsLocks
          \/ /\ Restored(t) # {} /\ t.cmd.yes
             /\ stateLock' = p /\ UNCHANGED configLock
             /\ Goes(p, [next EXCEPT !.pc = "back up"])
    /\ UNCHANGED <<files, spent>> /\ Quiet

\* The answer is to a plan that must still be the plan.
Confirm(p) ==
    /\ At(p, "confirm") /\ Free(stateLock)
    /\ \E t \in {EjectPlan(term[p])} :
          IF Shown(t) = Shown(term[p])
          THEN /\ stateLock' = p /\ UNCHANGED configLock
               /\ Goes(p, [t EXCEPT !.pc = "back up", !.todo = Restored(t)])
          ELSE Ends(p)
    /\ UNCHANGED <<files, spent>> /\ Quiet

-----------------------------------------------------------------------------
(* rollback takes no lock and leaves the claims as they are.                *)

RollbackStarts(p) == \E cmd \in Commands :
    /\ Starts(p, "rollback", cmd)
    /\ Goes(p, [Idle EXCEPT !.pc = "roll back", !.cmd = cmd, !.todo = cmd.targets])
    /\ UNCHANGED files /\ KeepsLocks /\ Quiet

RollBackNext(p) ==
    /\ At(p, "roll back")
    /\ \E f \in Turn(term[p].todo) :
       LET there == docs[f].shape # "missing"
       IN IF backups[f] = << >> \/ (f \in InProject /\ ~there)
          THEN Goes(p, [term[p] EXCEPT !.todo = @ \ {f}]) /\ UNCHANGED <<backups, raced>>
          ELSE /\ Goes(p, [term[p] EXCEPT !.pc = "put back", !.docs[f] = Last(backups[f])])
               /\ backups' = IF there THEN [backups EXCEPT ![f] = Pushed(@, docs[f])] ELSE backups
               /\ raced' = IF there THEN raced \ {f} ELSE raced
    /\ UNCHANGED <<config, stateFile, docs, loose, spent>> /\ KeepsLocks

PutBack(p) ==
    /\ At(p, "put back")
    /\ \E f \in Turn(term[p].todo) :
          /\ docs' = [docs EXCEPT ![f] = term[p].docs[f]]
          /\ raced' = raced \cup {f} /\ loose' = loose \cup {f}
          /\ Goes(p, [term[p] EXCEPT !.pc = "roll back", !.todo = @ \ {f}, !.docs[f] = Missing])
    /\ UNCHANGED <<config, stateFile, backups, spent>> /\ KeepsLocks

FinishRollback(p) ==
    /\ At(p, "roll back") /\ term[p].todo = {}
    /\ Ends(p) /\ UNCHANGED <<files, spent>> /\ Quiet

-----------------------------------------------------------------------------
(* The wizard: import what the clients have, then point them at the         *)
(* gateway.  Its context is read without locks, the config first.           *)

InitStarts(p) == \E cmd \in Commands :
    /\ Starts(p, "init", cmd)
    /\ Goes(p, [Idle EXCEPT !.pc = "read state", !.cmd = cmd, !.config = config])
    /\ UNCHANGED files /\ KeepsLocks /\ Quiet
Refresh(p) ==
    /\ At(p, "refresh")
    /\ Goes(p, [Idle EXCEPT !.pc = "sync step", !.cmd = term[p].cmd, !.config = config, !.seen = stateFile])
    /\ UNCHANGED <<files, spent>> /\ KeepsLocks /\ Quiet
ReadState(p) ==
    /\ At(p, "read state")
    /\ Goes(p, [term[p] EXCEPT !.pc = "import step", !.seen = stateFile])
    /\ UNCHANGED <<files, spent>> /\ KeepsLocks /\ Quiet

\* A declined or an empty import goes on to the next step.
ImportStep(p) ==
    /\ At(p, "import step")
    /\ LET t == [term[p] EXCEPT !.docs = docs]
       IN \/ Goes(p, [term[p] EXCEPT !.pc = "sync step"])
          \/ /\ ~Nothing(PlanImport(Offered(t), t.config.servers))
             /\ Goes(p, [t EXCEPT !.pc = "ask"])
    /\ UNCHANGED <<files, spent>> /\ KeepsLocks /\ Quiet

SyncStep(p) ==
    /\ At(p, "sync step")
    /\ LET t == [term[p] EXCEPT !.docs = docs]
       IN \E plans \in {[f \in Files |-> IF Writable(f, docs[f]) THEN PlanOf(t, f) ELSE Absent]} :
          LET todo == {f \in Files : plans[f] # Absent /\ HasChanges(plans[f]) /\ Mirrored(t.config.servers) # {}}
          IN Goes(p, IF todo = {} THEN Idle
                     ELSE [t EXCEPT !.pc = "lock to apply", !.todo = todo, !.plans = plans])
    /\ UNCHANGED <<files, spent>> /\ KeepsLocks /\ Quiet

\* The plans were made before the lock: from another state or other files,
\* perhaps, than there are now.
LockToApply(p) ==
    /\ At(p, "lock to apply") /\ Free(stateLock)
    /\ stateLock' = p
    /\ Goes(p, [term[p] EXCEPT !.pc = "back up", !.state = stateFile])
    /\ loose' = loose \cup {f \in Files : term[p].seen # stateFile \/ term[p].docs[f] # docs[f]}
    /\ UNCHANGED <<files, configLock, raced, spent>>

AllAtRest == \A p \in Terminals : term[p].pc = "idle"

-----------------------------------------------------------------------------
(* Everybody else: the clients and their users, and what ends a command.    *)

\* (Before the first command the machine is one of Machines.)
Edits(f, doc) ==
    /\ spent.disturbances < MaxDisturbances /\ spent.commands # {}
    /\ ~AllAtRest \/ Cardinality(spent.commands) < MaxCommands
    /\ docs' = [docs EXCEPT ![f] = doc]
    /\ docs[f] # doc
    /\ raced' = raced \cup {f}
    /\ spent' = [spent EXCEPT !.disturbances = @ + 1]
    /\ UNCHANGED <<config, stateFile, backups, term, loose>> /\ KeepsLocks
Sane(f) == docs[f].shape \in {"map", "missing"}

\* A user adds, changes or takes out an entry...
UserWrites(f) == \E n \in Names, entry \in UserEntries[f] \cup {Absent} :
    /\ Sane(f) /\ (entry = Absent => n \in Present(docs[f]))
    /\ Edits(f, Doc("map", [Entries(docs[f]) EXCEPT ![n] = entry], docs[f].excluded))
\* ...flips its switch inside the client, where the client has one...
UserSwitches(f) == \E n \in Names :
    LET entry == Entries(docs[f])[n]
    IN /\ "disabled" \in PreservedFields(Codec(KindOf[f]).entries)
       /\ entry \notin {Absent, Wrong} /\ ~Has(entry, "disabled")
       /\ Edits(f, [docs[f] EXCEPT !.entries[n] = @ \cup { <<"disabled", TRUE>> }])
\* ...puts a name on the client's exclusion list...
UserExcludes(f) == \E n \in Names :
    /\ HasExclusionList(KindOf[f]) /\ docs[f].shape = "map"
    /\ Edits(f, [docs[f] EXCEPT !.excluded = @ \cup {n}])
\* ...deletes the file, or leaves it as no command can read it.
UserDeletes(f) == Edits(f, Missing)
UserBreaks(f) == \E shape \in {"broken", "no map"} : Sane(f) /\ Edits(f, Doc(shape, NoEntries, {}))

\* The command is killed, or one of its calls fails: its locks are gone.
Crash(p) ==
    /\ term[p].pc # "idle" /\ spent.disturbances < MaxDisturbances
    /\ spent' = [spent EXCEPT !.disturbances = @ + 1]
    /\ Ends(p)
    /\ loose' = IF At(p, "write") THEN loose \cup Turn(term[p].todo) ELSE loose
    /\ UNCHANGED <<files, raced>>

Apply(p) == BackUp(p) \/ ClaimNames(p) \/ Write(p)
Sync(p) == SyncStarts(p) \/ LockForSync(p) \/ PlanNext(p) \/ FinishSync(p)
EditConfig(p) == EditStarts(p) \/ LockForEdit(p) \/ SaveEdit(p)
Import(p) == \/ ImportStarts(p) \/ LockForImport(p) \/ Answer(p) \/ LockToAdopt(p)
             \/ SaveImported(p) \/ SaveAdoptions(p)
Eject(p) == EjectStarts(p) \/ LockForEject(p) \/ Confirm(p)
Rollback(p) == RollbackStarts(p) \/ RollBackNext(p) \/ PutBack(p) \/ FinishRollback(p)
Wizard(p) == \/ InitStarts(p) \/ Refresh(p) \/ ReadState(p) \/ ImportStep(p)
             \/ SyncStep(p) \/ LockToApply(p)
User(f) == \/ UserWrites(f) \/ UserSwitches(f) \/ UserExcludes(f) \/ UserDeletes(f) \/ UserBreaks(f)

Next ==
    \/ \E p \in Terminals :
          \/ Sync(p) \/ Apply(p) \/ EditConfig(p) \/ Import(p) \/ Eject(p) \/ Rollback(p) \/ Wizard(p)
          \/ Crash(p)
    \/ \E f \in Files : User(f)
\* The machine rests: all that may happen has.
Rest == AllAtRest /\ UNCHANGED vars
Spec == Init /\ [][Next \/ Rest]_vars

-----------------------------------------------------------------------------
(* Properties.                                                              *)

\* Every file holds what its readers expect, and a terminal holds the locks
\* its step in the protocol needs: the types of ConfigStore, ManagedState and
\* the client documents.
TypeOK ==
    /\ \A n \in Known(config.servers) :
          /\ DOMAIN config.servers[n] = {"transport", "enabled", "rules"}
          /\ config.servers[n].transport.kind \in {"stdio", "http"}
    /\ stateFile.managed \in [Files -> SUBSET Names]
    /\ stateFile.resolved \in [Files -> [Names -> Names \cup {Absent}]]
    /\ \A f \in Files : docs[f].shape \in Shapes /\ Len(backups[f]) <= Keep
    /\ configLock \in Terminals \cup {Nobody} /\ stateLock \in Terminals \cup {Nobody}
    /\ \A p \in Terminals :
          /\ term[p].pc \in {"save edit", "adopt", "save config", "save adoptions"} => configLock = p
          /\ term[p].pc \in {"plan", "back up", "claim", "write", "save config", "save adoptions"}
                => stateLock = p

\* No command writes the config or the state file from a copy that is not
\* what the file holds: two commands never drop each other's changes (the
\* locks of store.rs and state.rs, held from the read to the write, and the
\* second read of import behind its question).
NoLostUpdate ==
    \A p \in Terminals :
        /\ term[p].pc \in {"save edit", "save config"} => term[p].config = config
        /\ term[p].pc \in {"claim", "save config", "save adoptions"}
              => term[p].state = stateFile
        /\ At(p, "plan") => term[p].state = stateFile

\* Every entry in a client file that leads to the gateway is one the state
\* file claims: entries mcpgw wrote and never claimed are foreign for ever
\* (sync.rs:445-450).  A crash between the claim and the write of a removal,
\* a rollback and a wizard whose plans are older than its lock do leave such
\* entries; while a file is being written they are on their way out.
BeingWritten == UNION {Turn(term[p].todo) : p \in {q \in Terminals : At(q, "write")}}
WrittenIsClaimed ==
    \A f \in Files \ (loose \cup BeingWritten) : ClaimsWhatReaches(docs[f], f, Managed(stateFile, f))

\* p replaces f, and the text changes.
Replaces(p, f) ==
    /\ At(p, "write") /\ f \in Turn(term[p].todo)
    /\ term'[p] # term[p] /\ docs'[f] # docs[f]

\* A file that sync has just written needs nothing more: planning it again
\* from the same config and the claims just made finds no change, whatever
\* switches, exclusions and entries of their own its users keep in it.
SyncIsIdempotent ==
    [][\A p \in Terminals : \A f \in Files :
          Replaces(p, f)
          => LET after == [term[p] EXCEPT !.docs = docs', !.seen = term[p].state]
             IN ~HasChanges(PlanOf(after, f))]_vars

\* A command never touches what is the user's side of a file: an entry that
\* mcpgw did not manage when it made its plan, and that nobody touched since
\* it was read, stays as it is; and a switch the user flipped inside the
\* client stays on every entry that is still there (carry_over).
UserSideSurvives ==
    [][\A p \in Terminals : \A f \in Files :
          Replaces(p, f)
          => \A n \in Present(docs[f]) :
                LET before == docs[f].entries[n]
                    after  == docs'[f].entries[n]
                    kept   == PreservedFields(Codec(KindOf[f]).entries)
                IN term[p].docs[f].entries[n] = before
                   => /\ n \notin Managed(term[p].seen, f) => after = before
                      /\ after # Absent => \A k \in kept : Has(before, k) => Field(after, k) = Field(before, k)]_vars

\* "Undo everything this run did: mcpgw sync --rollback": when a file that was
\* there is replaced, its newest backup is what it held, unless somebody
\* changed it in the moment between the backup and the write.
RollbackUndoesTheWrite ==
    [][\A p \in Terminals : \A f \in Files :
          /\ Replaces(p, f)
          /\ term[p].docs[f].shape # "missing" /\ f \notin raced
          => Last(backups[f]) = docs[f]]_vars

\* import claims a client entry only when the config on disk holds a server
\* for it: a claim nothing backs is a removal to the next sync, which would
\* delete the user's own entry (import.rs:177-188).
ClaimsAreBacked ==
    [][\A p \in Terminals : \A f \in Files :
          term[p].pc \in {"save config", "save adoptions"} /\ term'[p] # term[p]
          => \A n \in Managed(stateFile', f) \ Managed(stateFile, f) :
                LET read == Parse(Codec(KindOf[f]).entries, term[p].docs[f].entries[n])
                IN \E c \in Known(config.servers) : config.servers[c].transport = read.transport]_vars

\* An entry somebody was asked about keeps standing for the server they said
\* it does: whatever writes it leads it there (state.rs:43-57).
LeadsTo(f, n, doc) == LET read == Parse(Codec(KindOf[f]).entries, doc.entries[n])
                      IN IF doc.entries[n] = Absent THEN Absent ELSE read.transport.at[2]
FollowsTheAnswer(p) ==
    \A f \in Files :
        Replaces(p, f)
        => \A n \in ManagedAfter(term[p].plans[f]) :
              Resolved(term[p].state, f)[n] # Absent => LeadsTo(f, n, docs'[f]) = Resolved(term[p].state, f)[n]
AnswersAreFollowed == [][\A p \in Terminals : FollowsTheAnswer(p)]_vars
SyncFollowsAnswers ==
    [][\A p \in Terminals : term[p].cmd # Absent /\ term[p].cmd.kind \in {"sync", "add", "remove"}
                            => FollowsTheAnswer(p)]_vars

\* Whatever server a command saves, each client reads it back from the entry
\* sync or eject would emit for it, and finds nothing to remark: Parse after
\* Emit, for every client.  Its headers helper comes back where the client has
\* one, unless an argument of it has a blank: "the one shape that cannot make
\* the round trip" (codec.rs:400-404).
Helpers == {Argv("helper", {}), Argv("helper", {1})}
Emitted(kind, n, server) ==
    {server.transport, PerServerGatewayServer(kind, n, server, Token, FALSE).transport}
    \cup {[server.transport EXCEPT !.helper = h] : h \in IF server.transport.kind = "http" THEN Helpers ELSE {}}
BlankInside(helper) == helper # Absent /\ helper.inside # {}
ReadsBack(schema, transport) ==
    LET read == Parse(schema, Emit(schema, transport))
    IN /\ ~read.problem
       /\ read = Sound([transport EXCEPT !.helper = read.transport.helper], TRUE, {})
       /\ IF HelperField(schema) = Absent THEN read.transport.helper = Absent
          ELSE read.transport.helper = transport.helper <=> ~BlankInside(transport.helper)
SavedReadsBack ==
    [][config' # config
       => \A n \in Known(config'.servers) : \A kind \in ClientKind :
             \A transport \in Emitted(kind, n, config'.servers[n]) : ReadsBack(Codec(kind).entries, transport)]_vars
=============================================================================
