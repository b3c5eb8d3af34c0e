---------------------------- MODULE SyncPlanning -----------------------------
(***************************************************************************)
(* What sync, eject and import would do to one client file:                *)
(* src/crates/core/src/sync.rs, state.rs and projects.rs.  A plan is a     *)
(* function of the file, the canonical servers and what the state file     *)
(* says mcpgw owns there.                                                  *)
(*                                                                         *)
(* A canonical server is [transport, enabled, rules], rules standing for   *)
(* its tool rules and call budget.  A set of servers or entries by name is *)
(* a function over Names, Absent where there is none.                      *)
(***************************************************************************)
EXTENDS ClientEntries

CONSTANTS
    Files,      \* the client files: per-user ones and those of repositories
    KindOf,     \* file -> the client that reads it
    InProject,  \* the files of repositories, which --project selects
    NameOrder   \* the order of the names, as every BTreeMap has it

ASSUME PlanningAssumption ==
    /\ KindOf \in [Files -> ClientKind]
    /\ InProject \subseteq {f \in Files : HasProjectFile(KindOf[f])}
    /\ NameOrder \in Seq(Names) /\ \A n \in Names : \E i \in DOMAIN NameOrder : NameOrder[i] = n
    /\ Absent \notin Names

NoServers == [n \in Names |-> Absent]
Known(servers) == {n \in Names : servers[n] # Absent}

-----------------------------------------------------------------------------
(* The state file: the entries mcpgw owns in a file, and what the entries   *)
(* it had to ask about stand for.  A Scope is the file itself.              *)

NoState == [ managed  |-> [f \in Files |-> {}],
             resolved |-> [f \in Files |-> NoServers],
             migrated |-> FALSE ]
ScopeCodec(f) == IF f \in InProject THEN ProjectCodec(KindOf[f]) ELSE Codec(KindOf[f])
Managed(state, f)  == state.managed[f]
Resolved(state, f) == state.resolved[f]
Claim(state, f, names) == [state EXCEPT !.managed[f] = names]
Adopt(state, f, n)     == [state EXCEPT !.managed[f] = @ \cup {n}]
ResolveTo(state, f, n, canonical) == [state EXCEPT !.resolved[f][n] = canonical]
\* The repository files a command finds in the state rather than on the disk.
ProjectScopes(state) == {f \in InProject : Managed(state, f) # {}}

-----------------------------------------------------------------------------
(* Gateway entries.                                                         *)

\* A [clients.KIND] table that names no server offers them all.
HasServer(scope, n) == scope = Absent \/ scope = {} \/ n \in scope
Restricts(scope)    == scope # Absent /\ scope # {}

GatewayHeaders(kind, token) == IF CarriesGatewayToken(kind) THEN token ELSE Absent
Endpoint(kind, n, scoped)   == << "gateway", n, IF scoped THEN kind ELSE "any" >>
Bridge(kind, n, scoped)     == << "bridge", n, IF scoped THEN kind ELSE "any" >>

\* A client without remote entries runs the bridge instead.
PerServerGatewayServer(kind, n, server, token, scoped) ==
    [ enabled   |-> server.enabled,
      rules     |-> Absent,
      transport |-> IF SupportsHttpEntries(kind)
                    THEN Http(Endpoint(kind, n, scoped), GatewayHeaders(kind, token), Absent)
                    ELSE Stdio(Bridge(kind, n, scoped), Absent) ]

PerServerGatewayServers(kind, canonical, token, scope) ==
    [n \in Names |->
        IF canonical[n] = Absent \/ ~HasServer(scope, n) THEN Absent
        ELSE PerServerGatewayServer(kind, n, canonical[n], token, Restricts(scope))]

AimsAtGateway(transport) == transport.at[1] \in {"gateway", "bridge"}

-----------------------------------------------------------------------------
(* Client names.                                                            *)

\* The entry that stands for a canonical server: the last one that does.
EntryFor(resolved, canonical) ==
    LET entries == {i \in DOMAIN NameOrder : resolved[NameOrder[i]] = canonical}
    IN IF entries = {} THEN Absent
       ELSE NameOrder[CHOOSE i \in entries : \A j \in entries : j <= i]

UnderCanonicalNames(desired, resolved) == desired  \* mutant: a kept-both entry is forgotten
UnderClientNames(desired, resolved) ==
    [n \in Names |->
        LET renamed == {c \in Known(desired) : EntryFor(resolved, c) = n}
        IN CASE renamed # {} -> desired[CHOOSE c \in renamed : TRUE]
             [] renamed = {} /\ resolved[n] = Absent /\ EntryFor(resolved, n) = Absent -> desired[n]
             [] OTHER -> Absent]

-----------------------------------------------------------------------------
(* Plans.                                                                   *)

ClientEntry(kind, server) == Emit(Codec(kind).entries, server.transport)

\* The client's own fields stay, unless mcpgw writes them.
ResetFields(kind, existing, emitted) == emitted  \* mutant: the switches are reset
CarryOver(kind, existing, emitted) ==
    IF existing \in {Absent, Wrong} THEN emitted
    ELSE emitted \cup {pair \in existing : /\ pair[1] \in PreservedFields(Codec(kind).entries)
                                           /\ ~Has(emitted, pair[1])}

Unmanaged(current, managed, n) == current[n] # Absent /\ n \notin managed
Mirrored(canonical) == {n \in Known(canonical) : canonical[n].enabled}
Conflicts(current, canonical, managed) ==
    {n \in Mirrored(canonical) : Unmanaged(current, managed, n)}
DesiredEntries(kind, current, canonical, names) ==
    [n \in Names |-> IF n \in names THEN CarryOver(kind, current[n], ClientEntry(kind, canonical[n]))
                     ELSE Absent]
\* The difference between what a file holds and what it should.
Difference(current, desired, managed, conflicts) ==
    LET owned == {n \in Names : desired[n] # Absent}
        rest  == {n \in Names : current[n] # Absent} \ (owned \cup conflicts)
    IN [ adds      |-> {n \in owned : current[n] = Absent},
         updates   |-> {n \in owned : current[n] \notin {Absent, desired[n]}},
         removes   |-> rest \cap managed,
         conflicts |-> conflicts,
         foreign   |-> rest \ managed,
         unexclude |-> {},
         desired   |-> desired ]
PlanSync(kind, current, canonical, managed) ==
    Difference(current,
               DesiredEntries(kind, current, canonical,
                              Mirrored(canonical) \ Conflicts(current, canonical, managed)),
               managed, Conflicts(current, canonical, managed))

ManagedWritten(plan) == plan.adds \cup plan.updates  \* mutant: unchanged entries are given up
ManagedAfter(plan) == {n \in Names : plan.desired[n] # Absent}
Upserts(plan) ==
    [n \in Names |-> IF n \in plan.adds \cup plan.updates THEN plan.desired[n] ELSE Absent]
HasChanges(plan) == plan.adds \cup plan.updates \cup plan.removes \cup plan.unexclude # {}

\* The names mcpgw answers for leave the client's exclusion list.
PlanClientContext(kind, doc, plan) ==
    IF HasExclusionList(kind)
    THEN [plan EXCEPT !.unexclude = doc.excluded \cap (ManagedAfter(plan) \cup plan.removes)]
    ELSE plan

ApplyPlanTo(doc, plan) == Edit(doc, plan.removes, Upserts(plan), plan.unexclude)

\* plan_file: what a file that is there, or one to be created, would become.
PlanFile(f, doc, desired, managed) ==
    LET kind == KindOf[f]
    IN PlanClientContext(kind, doc, PlanSync(kind, Entries(doc), desired, managed))

-----------------------------------------------------------------------------
(* Repository files, as the reports stand to them.                          *)

Standing(canonical, managed, n, transport) ==
    CASE n \in managed -> "managed"
      [] n \notin managed /\ canonical[n] # Absent /\ canonical[n].transport = transport -> "mirrors"
      [] OTHER -> "unmanaged"

ReadOrProblem(f, doc) ==
    IF Readable(ScopeCodec(f), doc) THEN ReadEntries(KindOf[f], ScopeCodec(f), doc)
    ELSE [n \in Names |-> Problem]

UnmanagedIn(f, doc, canonical, managed) ==
    LET read == ReadOrProblem(f, doc)
    IN {n \in Names : /\ ~read[n].problem
                      /\ Standing(canonical, managed, n, read[n].transport) = "unmanaged"}
=============================================================================
