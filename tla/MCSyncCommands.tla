--------------------------- MODULE MCSyncCommands ---------------------------
\* Two terminals on a machine with Cline, a repository with a Gemini file, and
\* a second name that is the first one with -2.
EXTENDS SyncCommands, TLC

CONSTANTS a, a2, s1, s2

MCNames     == {a, a2}
MCNameOrder == <<a, a2>>
MCSpelling  == a :> <<a, a2>> @@ a2 :> <<a2>>
MCSlug      == [n \in MCNames |-> n]
MCFiles     == {"home", "repo"}
MCFileOrder == <<"home", "repo">>
MCKindOf    == [f \in MCFiles |-> IF f = "home" THEN "cline" ELSE "gemini"]
MCTerminals == {s1, s2}
MCSymmetry  == Permutations(MCTerminals)

\* One server under two keys, and a second server.
Site(key) == Http(<<"site", Absent, "any">>, key, Absent)
Tool      == Stdio(<<"tool", Absent, "any">>, Absent)
MCUserEntries ==
    "home" :> {Emit("cline", Site("key 1"))} @@ "repo" :> {Emit("gemini", Site("key 2"))}

Holds(f, entries)  == Doc("map", [n \in MCNames |-> IF n \in DOMAIN entries THEN entries[n] ELSE Absent], {})
Serving(transport) == Config([n \in MCNames |-> IF n = a THEN [transport |-> transport, enabled |-> TRUE, rules |-> Absent] ELSE Absent],
                             [kind \in {"cline", "gemini"} |-> Absent])
Gateway(kind)      == Emit(Codec(kind).entries, Http(Endpoint(kind, a, FALSE), Token, Absent))

\* Before the first import; and after a sync, in a repository whose client
\* disagrees with the config.
MCMachines ==
    { [config |-> NoConfig, state |-> NoState,
       docs |-> "home" :> Holds("home", a :> Emit("cline", Site("key 1")))
                @@ "repo" :> Holds("repo", a :> Emit("gemini", Site("key 2")))],
      [config |-> Serving(Tool), state |-> [NoState EXCEPT !.managed["home"] = {a}],
       docs |-> "home" :> Holds("home", a :> Gateway("cline"))
                @@ "repo" :> Holds("repo", a :> Emit("gemini", Site("key 2")))] }

Both == {"home", "repo"}
MCCommands ==
    { [kind |-> "sync", targets |-> Both],
      [kind |-> "add", name |-> a2, server |-> [transport |-> Site("key 1"), enabled |-> TRUE, rules |-> Absent],
       force |-> FALSE, sync |-> TRUE],
      [kind |-> "remove", name |-> a, sync |-> TRUE],
      [kind |-> "import", targets |-> Both, yes |-> FALSE],
      [kind |-> "eject", yes |-> FALSE], [kind |-> "eject", yes |-> TRUE],
      [kind |-> "scope", client |-> "cline", names |-> {a2}],
      [kind |-> "rollback", targets |-> Both],
      [kind |-> "init"] }
\* The wizard after an import.
MCWizardCommands == {cmd \in MCCommands : cmd.kind \in {"import", "init"}}
=============================================================================
