--------------------------- MODULE ImportPlanning ----------------------------
(***************************************************************************)
(* Planning of `mcpgw import`: src/crates/core/src/import.rs and the way   *)
(* src/crates/cli/src/commands/import.rs gathers its sources and writes    *)
(* what was decided.                                                       *)
(***************************************************************************)
EXTENDS ConfigEdits
LOCAL INSTANCE SequencesExt

CONSTANTS
    FileOrder,  \* the files, the per-user ones first
    Spelling,   \* name -> itself, then with -2, -3... (as far as Names goes)
    Slug,       \* name -> what it is slugified into
    NotOnPath   \* the commands this machine does not have

ASSUME ImportAssumption ==
    /\ FileOrder \in Seq(Files) /\ Files \subseteq {FileOrder[i] : i \in DOMAIN FileOrder}
    /\ \A i, j \in DOMAIN FileOrder : FileOrder[i] = FileOrder[j] => i = j
    /\ Spelling \in [Names -> Seq(Names)] /\ Slug \in [Names -> Names]

ValidName(n) == Slug[n] = n
NextFree(base, taken) ==
    LET free == {i \in DOMAIN Spelling[base] : Spelling[base][i] \notin taken}
    IN IF free = {} THEN Absent ELSE Spelling[base][CHOOSE i \in free : \A j \in free : i <= j]

\* URLs are compared after canonical_url; an address stands for all its spellings.
SameTransport(a, b) == a = b

\* One server that wears two sets of credentials.
OtherCredentials(a, b) ==
    /\ a.kind = "http" /\ b.kind = "http" /\ a.at = b.at
    /\ a.given # Absent /\ b.given # Absent /\ a.given # b.given
SameAddress(transport, canonical, candidates) ==
    \/ \E n \in Known(canonical) : OtherCredentials(transport, canonical[n].transport)
    \/ \E i \in DOMAIN candidates : OtherCredentials(transport, candidates[i].transport)

CommandMissing(transport) == transport.kind = "stdio" /\ transport.at \in NotOnPath

\* One entry of one client: another origin of a candidate, or a new one.
NewCandidate(candidates, canonical, f, n, entry) ==
    LET claimed == {candidates[i].name : i \in DOMAIN candidates}
        keeps   == ValidName(n) /\ n \notin claimed
    IN [ name      |-> IF keeps THEN n
                       ELSE NextFree(Slug[n], claimed \cup (Known(canonical) \ {n})),
         transport |-> entry.transport,
         enabled   |-> entry.enabled /\ ~CommandMissing(entry.transport),
         origins   |-> {<<f, n>>},
         shared    |-> SameAddress(entry.transport, canonical, candidates),
         adoptAs   |-> Absent ]
AddEntry(candidates, canonical, f, n, entry) ==
    LET same == {i \in DOMAIN candidates : SameTransport(candidates[i].transport, entry.transport)}
    IN IF entry.problem THEN candidates
       ELSE IF same # {}
       THEN LET i == CHOOSE i \in same : TRUE
            IN [candidates EXCEPT ![i].origins = @ \cup {<<f, n>>},
                                  ![i].enabled = @ /\ entry.enabled]
       ELSE Append(candidates, NewCandidate(candidates, canonical, f, n, entry))

\* File by file, and name by name.
AddFile(candidates, canonical, f, read) ==
    LET after[i \in 0 .. Len(NameOrder)] ==
            IF i = 0 THEN candidates
            ELSE AddEntry(after[i - 1], canonical, f, NameOrder[i], read[NameOrder[i]])
    IN after[Len(NameOrder)]
Candidates(reads, canonical) ==
    LET after[i \in 0 .. Len(FileOrder)] ==
            IF i = 0 THEN << >>
            ELSE AddFile(after[i - 1], canonical, FileOrder[i], reads[FileOrder[i]])
    IN after[Len(FileOrder)]

\* Every conflict is offered a name no other candidate or server has.
OfferName(plan, candidate) ==
    LET second == NextFree(candidate.name, plan.taken)
    IN [plan EXCEPT !.taken = @ \cup {second},
                    !.conflicts = Append(@, [candidate EXCEPT !.adoptAs = second])]
Classify(plan, candidate, canonical) ==
    LET mine == IF candidate.name = Absent THEN Absent ELSE canonical[candidate.name]
    IN IF mine = Absent THEN [plan EXCEPT !.new = Append(@, candidate)]
       ELSE IF SameTransport(mine.transport, candidate.transport)
       THEN [plan EXCEPT !.already = Append(@, candidate)]
       ELSE OfferName(plan, candidate)

PlanImport(reads, canonical) ==
    LET candidates == Candidates(reads, canonical)
        none == [ new |-> << >>, already |-> << >>, conflicts |-> << >>,
                  taken |-> Known(canonical) \cup {candidates[i].name : i \in DOMAIN candidates} ]
        after[i \in 0 .. Len(candidates)] ==
            IF i = 0 THEN none ELSE Classify(after[i - 1], candidates[i], canonical)
    IN after[Len(candidates)]

-----------------------------------------------------------------------------
(* What is written: the canonical servers and the state file, both held     *)
(* under their locks as `held`.                                             *)

\* A file that is there but does not parse has nothing to import.
Source(f, doc) ==
    IF doc.shape = "missing" THEN [n \in Names |-> Problem] ELSE ReadOrProblem(f, doc)

ServerOf(candidate) ==
    [transport |-> candidate.transport, enabled |-> candidate.enabled, rules |-> Absent]

\* The candidates that become servers, and the name each gets: the new ones,
\* but for the shared addresses the user kept once (names in skip), and the
\* conflicts that overwrite a server or come beside it.
Chose(plan, answers, answer) == {c \in ToSet(plan.conflicts) : answers[c.name] = answer}
Brought(plan, answers, skip) ==
    LET named == {c \in ToSet(plan.new) : ~c.shared \/ c.name \notin skip} \cup Chose(plan, answers, "overwrite")
    IN {[as |-> c.name, from |-> c] : c \in named}
       \cup {[as |-> c.adoptAs, from |-> c] : c \in Chose(plan, answers, "keep both")}

\* adopt: the entries that are mcpgw's from now on.
AdoptOrigins(plan, brought, f) ==
    {n \in Names : \/ \E b \in brought : <<f, n>> \in b.from.origins
                   \/ \E c \in ToSet(plan.already) : <<f, n>> \in c.origins}
\* resolve_to: what the entries of an answered conflict stand for.
ResolveOrigins(plan, answers, f, n) ==
    {canonical \in Names :
        \/ \E c \in Chose(plan, answers, "overwrite") \cup Chose(plan, answers, "keep canonical") :
              <<f, n>> \in c.origins /\ canonical = c.name
        \/ \E c \in Chose(plan, answers, "keep both") : <<f, n>> \in c.origins /\ canonical = c.adoptAs}

\* What import leaves in memory, given the answers: name -> choice.  No two
\* candidates get one name, and no entry is an origin of two.
Imported(plan, held, answers, skip) ==
    LET brought == Brought(plan, answers, skip)
        under(n) == {b.from : b \in {x \in brought : x.as = n}}
        standing(f, n) == ResolveOrigins(plan, answers, f, n)
        write(servers) ==
            [n \in Names |-> IF under(n) = {} THEN servers[n]
                             ELSE Upsert(servers, n, ServerOf(CHOOSE c \in under(n) : TRUE))[n]]
    IN [ config |-> [held.config EXCEPT !.exists = @ \/ brought # {}, !.servers = write(@)],
         state  |-> [held.state EXCEPT
                        !.managed = [f \in Files |-> @[f] \cup AdoptOrigins(plan, brought, f)],
                        !.resolved = [f \in Files |-> [n \in Names |->
                            IF standing(f, n) = {} THEN @[f][n] ELSE CHOOSE c \in standing(f, n) : TRUE]]] ]

\* The names the model has run out of.
NamesSuffice(plan) ==
    /\ \A i \in DOMAIN plan.new : plan.new[i].name # Absent
    /\ \A i \in DOMAIN plan.conflicts : plan.conflicts[i].adoptAs # Absent
=============================================================================
