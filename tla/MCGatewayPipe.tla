---------------------------- MODULE MCGatewayPipe ----------------------------
\* A pipe to one server; each workload puts one of its concerns in front.
EXTENDS GatewayPipe, TLC

NoRules == Absent
Server(transport, rules) == [enabled |-> TRUE, transport |-> transport, rules |-> rules]
Configured(server, scope) ==
    [loads |-> TRUE, servers |-> [n \in {"github"} |-> server], clients |-> [c \in {"cursor"} |-> scope]]
Open     == Configured(Server("here", NoRules), Absent)
Scoped   == Configured(Server("here", NoRules), [servers |-> {}, rules |-> [allow |-> {}, deny |-> {"delete"}]])
Ruled    == Configured(Server("here", [allow |-> {"read"}, deny |-> {}]), [servers |-> {"other"}, rules |-> Absent])
Moved    == Configured(Server("there", NoRules), Absent)
Disabled == Configured([Server("here", NoRules) EXCEPT !.enabled = FALSE], Absent)
Gone     == Configured(Absent, Absent)
MCContents == {Open, Scoped, Ruled, Moved, Disabled, Gone, Missing, Broken}

MCRuns == "token" :> [length |-> 40, classes |-> 3, longestWord |-> 2, separators |-> 1, entropy |-> 41]
       @@ "slug"  :> [length |-> 36, classes |-> 2, longestWord |-> 9, separators |-> 6, entropy |-> 37]
Text(form, pieces) == [form |-> form, pieces |-> [i \in DOMAIN pieces |-> Piece(pieces[i])]]

Plain == [family |-> "call", cursor |-> FALSE, tool |-> "delete", tag |-> "cursor", client |-> Absent,
          session |-> Absent, origin |-> "none", token |-> "right", peer |-> "loopback", method |-> "POST",
          path |-> "/s/github", metered |-> FALSE,
          args |-> NoText, response |-> NoText, error |-> NoText]
MCAsks ==
    "call"     :> [Plain EXCEPT !.metered = TRUE, !.session = "old"]
 @@ "list"     :> [Plain EXCEPT !.family = "list"]
 @@ "cursor"   :> [Plain EXCEPT !.family = "list", !.cursor = TRUE, !.tag = Absent]
 @@ "json"     :> [Plain EXCEPT !.tool = "read", !.args = Text("json", <<"keyed", "slug">>),
                                !.response = Text("json", <<"prose", "keyed">>),
                                !.error = Text("text", <<"matched", "shaped">>)]
 @@ "text"     :> [Plain EXCEPT !.tool = "read", !.tag = Absent, !.client = "claude-code",
                                !.response = Text("text", <<"slug", "token", "shaped">>)]
 @@ "late"     :> [Plain EXCEPT !.family = "resources"]
 @@ "page"     :> [Plain EXCEPT !.origin = "elsewhere"]
 @@ "unsynced" :> [Plain EXCEPT !.token = "none", !.family = "prompts"]
 @@ "remote"   :> [Plain EXCEPT !.token = "wrong", !.peer = "remote"]
 @@ "probe"    :> [Plain EXCEPT !.method = "GET", !.path = "/mcp", !.token = "none"]
 @@ "base"     :> [Plain EXCEPT !.path = "/mcp"]
MCRequests == DOMAIN MCAsks

MCWants == "old" :> [kind |-> "handshake", hears |-> {}]
        @@ "new" :> [kind |-> "stream", hears |-> {"tools", "resource updates"}]
MCFamilies == {"tools", "resources", "prompts"}
Declares == [families |-> {"tools", "resources"}, listChanged |-> {"tools", "resources"},
             extras |-> {"logging", "resources.subscribe", "ui"}]
MCInfos == {Declares, [ToolsOnly EXCEPT !.listChanged = {"tools"}]}

\* Three pages, the last of which points back at the second.
MCPages == "start" :> [tools |-> <<"read">>, next |-> "two"]
        @@ "two"   :> [tools |-> <<"delete">>, next |-> "three"]
        @@ "three" :> [tools |-> << >>, next |-> "two"]

Nothing  == [edits |-> {}, signals |-> 0, connects |-> 0, changes |-> 0, departures |-> 0,
             midnights |-> 0, failures |-> 0, shutdowns |-> 0]
Guarded  == [token |-> TRUE, require |-> FALSE]
Workload(requests, insessions, declared, guard, budget) ==
    [requests |-> requests, sessions |-> insessions, info |-> declared, auth |-> guard, left |-> budget]
Calling == Workload({"call"}, {"old"}, NoInfo, Guarded, [Nothing EXCEPT !.edits = {Scoped, Ruled}])
Listing == Workload({"list"}, {}, NoInfo, Guarded, [Nothing EXCEPT !.edits = {Scoped, Ruled}])
Reloading == Workload({}, {}, NoInfo, Guarded,
                      [Nothing EXCEPT !.edits = {Broken, Missing, Gone, Disabled, Scoped}, !.signals = 1])
Vanishing == Workload({"list"}, {}, NoInfo, Guarded, [Nothing EXCEPT !.edits = {Disabled, Gone}])
Telling == Workload({}, {"old", "new"}, Declares, Guarded, [Nothing EXCEPT !.edits = {Moved}, !.changes = 2])
Leaving == Workload({}, {"old", "new"}, NoInfo, Guarded,
                    [Nothing EXCEPT !.edits = {Gone, Open}, !.connects = 1, !.changes = 1])
Ending  == Workload({"late"}, {"old", "new"}, Declares, Guarded, [Nothing EXCEPT !.changes = 1, !.departures = 2])
Logging == Workload({"json", "text"}, {}, NoInfo, Guarded,
                    [Nothing EXCEPT !.midnights = 1, !.failures = 1, !.shutdowns = 1])
Filling == Workload({"json", "text", "late"}, {}, NoInfo, Guarded, [Nothing EXCEPT !.shutdowns = 1])
Turning == Workload({"page", "unsynced", "remote", "probe"}, {}, NoInfo, Guarded, Nothing)
Strict  == Workload({"page", "unsynced", "base", "cursor"}, {}, NoInfo, [token |-> TRUE, require |-> TRUE], Nothing)
MCWorkloads == {Calling, Listing, Reloading, Vanishing, Telling, Leaving, Ending, Logging, Filling, Turning, Strict}
=============================================================================
