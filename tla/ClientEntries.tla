---------------------------- MODULE ClientEntries ----------------------------
(***************************************************************************)
(* What the thirteen clients' MCP config files look like:                  *)
(* src/crates/core/src/clients.rs and clients/codec.rs.                    *)
(*                                                                         *)
(* A JSON object is the set of its <<key, value>> pairs.  A client file is *)
(* a record of its shape, its server map and the names in its exclusion    *)
(* list; how the text spells it (indentation, comments, quotes) is left    *)
(* out.  A transport is a record of where it leads (argv or URL), what it  *)
(* is given there (environment or headers) and the headers helper.         *)
(***************************************************************************)
EXTENDS Naturals, Sequences, FiniteSets

CONSTANTS
    Names,   \* server names
    Absent,  \* no such key, entry, helper...
    Wrong    \* a value of a JSON type the key may not have

-----------------------------------------------------------------------------
(* The clients.                                                             *)

ClientKind ==
    { "claude-desktop", "claude-code", "cursor", "vscode", "gemini", "codex", "opencode",
      "windsurf", "zed", "cline", "cline-cli", "amp", "zoo" }

SupportsHttpEntries(kind) == kind # "claude-desktop"

\* ClientKind::codec: the format of the file and the schema of its entries.
Codec(kind) ==
    [ format  |-> CASE kind = "codex" -> "toml"
                    [] kind \in {"opencode", "zed", "cline", "cline-cli", "amp"} -> "jsonc"
                    [] OTHER -> "json",
      entries |-> CASE kind = "cline-cli" -> "cline"
                    [] kind \in {"claude-desktop", "claude-code", "cursor"} -> "mcpServers"
                    [] OTHER -> kind ]
Schemas == {Codec(kind).entries : kind \in ClientKind}

\* A file of a repository is edited in place, never serialised whole.
ProjectCodec(kind) ==
    [Codec(kind) EXCEPT !.format = IF @ = "json" THEN "jsonc" ELSE @]

HasExclusionList(kind) == kind = "gemini"
HasProjectFile(kind) ==
    kind \notin {"claude-desktop", "windsurf", "zed", "cline", "cline-cli"}

\* Everybody but Zed is known to send the headers of an entry.
CarriesHeaders(schema) == schema # "zed"
CarriesGatewayToken(kind) == SupportsHttpEntries(kind) /\ CarriesHeaders(Codec(kind).entries)

\* A config file makes a client "configured", its directory "installed".
Detect(configured, trace) ==
    IF configured THEN "configured" ELSE IF trace THEN "installed" ELSE "not installed"

\* Where a client accepts several names, the first that is there; the first
\* of all when none is.
ConfigPath(candidates, files) ==
    LET there == {i \in DOMAIN candidates : candidates[i] \in files}
    IN IF there = {} THEN candidates[1]
       ELSE candidates[CHOOSE i \in there : \A j \in there : i <= j]

-----------------------------------------------------------------------------
(* JSON objects.                                                            *)

Keys(obj)     == {pair[1] : pair \in obj}
Field(obj, k) == IF k \in Keys(obj) THEN (CHOOSE pair \in obj : pair[1] = k)[2] ELSE Absent
Has(obj, k)   == k \in Keys(obj)
\* An optional field is written when it has something to say.
Opt(k, value) == IF k = Absent \/ value = Absent THEN {} ELSE { <<k, value>> }
\* Of the wrong type.
Mistyped(obj, ks) == \E k \in ks : Field(obj, k) = Wrong

-----------------------------------------------------------------------------
(* Entries.                                                                 *)

Stdio(at, given)        == [kind |-> "stdio", at |-> at, given |-> given, helper |-> Absent]
Http(at, given, helper) == [kind |-> "http", at |-> at, given |-> given, helper |-> helper]
Sound(transport, enabled, note) ==
    [problem |-> FALSE, transport |-> transport, enabled |-> enabled, note |-> note]
\* The argv of a headers helper: the words of its line, and the blanks between
\* them, by number, that stand inside an argument.  Blanks are not told apart.
Argv(line, inside) == [line |-> line, inside |-> inside]
\* join(" ") writes any blank as one, split_whitespace reads each as the end of
\* an argument.
Joined(argv) == IF argv = Absent THEN Absent ELSE argv.line
SplitLine(line) == IF line \in {Absent, Wrong} THEN Absent ELSE Argv(line, {})

Problem == [problem |-> TRUE, transport |-> Absent, enabled |-> FALSE, note |-> {}]

HelperField(schema) ==
    CASE schema = "mcpServers" -> "headersHelper"
      [] schema = "codex" -> "http_headers_helper"
      [] OTHER -> Absent

\* The switches a user flips inside the client.
PreservedFields(schema) ==
    CASE schema = "cline" -> {"disabled", "autoApprove"}
      [] schema = "zoo" -> {"disabled", "autoApprove", "alwaysAllow", "disabledTools"}
      [] schema = "amp" -> {"disabled"}
      [] OTHER -> {}

TypeWritten(schema, kind) ==
    CASE schema = "opencode" -> IF kind = "stdio" THEN "local" ELSE "remote"
      [] schema = "vscode" /\ kind = "stdio" -> "stdio"
      [] schema \in {"mcpServers", "vscode"} /\ kind = "http" -> "http"
      [] schema = "cline" /\ kind = "http" -> "streamableHttp"
      [] schema = "zoo" /\ kind = "http" -> "streamable-http"
      [] OTHER -> Absent
UrlKey(schema) ==
    CASE schema = "gemini" -> "httpUrl" [] schema = "windsurf" -> "serverUrl" [] OTHER -> "url"
HeadersKey(schema) == IF schema = "codex" THEN "http_headers" ELSE "headers"
EnvKey(schema) == IF schema = "opencode" THEN "environment" ELSE "env"

Target(schema, transport) ==
    IF transport.kind = "stdio"
    THEN {<<"command", transport.at>>} \cup Opt(EnvKey(schema), transport.given)
         \cup (IF schema = "zed" THEN {<<"source", "custom">>} ELSE {})
    ELSE {<<UrlKey(schema), transport.at>>}
         \cup Opt(HeadersKey(schema), transport.given)
         \cup Opt(HelperField(schema), Joined(transport.helper))
EmitUntyped(schema, transport) == Target(schema, transport)  \* mutant: no type is written
Emit(schema, transport) ==
    Target(schema, transport) \cup Opt("type", TypeWritten(schema, transport.kind))

\* The keys that are written, and the types that are written or read.
EntryWords == { "command", "env", "environment", "source", "url", "httpUrl", "serverUrl", "headers", "http_headers",
                "headersHelper", "http_headers_helper", "type", "stdio", "local", "remote", "http", "sse",
                "streamableHttp", "streamable-http", "streamable_http" }

LegacySse   == {"legacy sse transport read as http"}
UrlIgnored  == {"url ignored"}
NotCarried  == {"auth not carried over"}
HttpSpellings == {"http", "streamable-http", "streamable_http", "streamableHttp"}

\* One shape of entry: what leads there, what it is given, and the rest.
Read(kind, obj, target, given, enabled, note) ==
    IF ~Has(obj, target) \/ Mistyped(obj, {target, given}) THEN Problem
    ELSE Sound([ kind |-> kind, at |-> Field(obj, target), given |-> Field(obj, given), helper |-> Absent ],
               enabled, note)
Noting(read, note) == IF read.problem THEN read ELSE [read EXCEPT !.note = @ \cup note]

\* The mcpServers shape: an optional type, command for stdio, url for remote.
McpServersEntry(obj, type, command, url) ==
    IF type \notin {Absent, "stdio", "sse"} \cup HttpSpellings \/ (type = Absent /\ (command <=> url))
    THEN Problem
    ELSE IF type = "stdio" \/ (type = Absent /\ command)
    THEN Read("stdio", obj, "command", "env", Field(obj, "disabled") # TRUE, {})
    ELSE Read("http", obj, "url", "headers", Field(obj, "disabled") # TRUE,
              IF type = "sse" THEN LegacySse ELSE {})
ParseMcpServers(obj) ==
    McpServersEntry(obj, Field(obj, "type"), Has(obj, "command"), Has(obj, "url"))

Renamed(obj) ==
    IF ~Has(obj, "serverUrl") THEN obj
    ELSE {pair \in obj : pair[1] \notin {"url", "serverUrl"}} \cup { <<"url", Field(obj, "serverUrl")>> }
ParseWindsurf(obj) ==
    Noting(ParseMcpServers(Renamed(obj)),
           IF Has(obj, "serverUrl") /\ Has(obj, "url") THEN UrlIgnored ELSE {})

\* A remote entry that Cline finds without a type is the legacy transport.
ParseCline(obj) ==
    Noting(ParseMcpServers(obj), IF Has(obj, "type") \/ Has(obj, "command") THEN {} ELSE LegacySse)

ParseGemini(obj) ==
    IF Mistyped(obj, {"httpUrl", "url"}) THEN Problem
    ELSE IF Has(obj, "httpUrl")
    THEN Read("http", obj, "httpUrl", "headers", TRUE, IF Has(obj, "url") THEN UrlIgnored ELSE {})
    ELSE IF Has(obj, "url") THEN Read("http", obj, "url", "headers", TRUE, LegacySse)
    ELSE Read("stdio", obj, "command", "env", TRUE, {})

ParseCodex(obj) ==
    IF (Has(obj, "command") <=> Has(obj, "url")) \/ Mistyped(obj, {"command", "url"}) THEN Problem
    ELSE IF Has(obj, "command")
    THEN Read("stdio", obj, "command", "env", Field(obj, "enabled") # FALSE, {})
    ELSE Read("http", obj, "url", "http_headers", Field(obj, "enabled") # FALSE, {})

OpencodeEntry(obj, type, command, url) ==
    IF type \notin {Absent, "local", "remote"} \/ (type = Absent /\ (command <=> url)) THEN Problem
    ELSE IF type = "local" \/ (type = Absent /\ command)
    THEN Read("stdio", obj, "command", "environment", Field(obj, "enabled") # FALSE, {})
    ELSE Read("http", obj, "url", "headers", Field(obj, "enabled") # FALSE, {})
ParseOpencode(obj) ==
    OpencodeEntry(obj, Field(obj, "type"), Has(obj, "command"), Has(obj, "url"))

\* The credential a client keeps for itself and an import cannot take along.
ClientManagedAuth(schema, obj) ==
    \/ schema = "codex" /\ (Has(obj, "auth") \/ Has(obj, "bearer_token_env_var"))
    \/ schema = "opencode" /\ Field(obj, "oauth") \notin {Absent, FALSE}
    \/ schema = "gemini" /\ (Has(obj, "oauth") \/ Has(obj, "authProviderType"))

HelperArgv(schema, obj) == SplitLine(Field(obj, HelperField(schema)))

ParseEntry(schema, obj) ==
    CASE schema = "gemini" -> ParseGemini(obj)
      [] schema = "codex" -> ParseCodex(obj)
      [] schema = "opencode" -> ParseOpencode(obj)
      [] schema = "windsurf" -> ParseWindsurf(obj)
      [] schema \in {"cline", "zoo"} -> ParseCline(obj)
      [] OTHER -> ParseMcpServers(obj)
\* EntrySchema::parse: what every schema of remote entries may add.
WithHelper(schema, obj, read) ==
    IF read.problem \/ read.transport.kind = "stdio" THEN read
    ELSE [read EXCEPT !.transport.helper = HelperArgv(schema, obj),
                      !.note = @ \cup IF ClientManagedAuth(schema, obj) THEN NotCarried ELSE {}]
Parse(schema, obj) ==
    IF obj = Wrong THEN Problem ELSE WithHelper(schema, obj, ParseEntry(schema, obj))

-----------------------------------------------------------------------------
(* Documents: what is at the root key of a file, and the list of excluded   *)
(* names.                                                                   *)

NoEntries == [n \in Names |-> Absent]
Shapes == { "missing",  \* there is no file
            "broken",   \* its text does not parse
            "blank",    \* it has no value at all
            "list",     \* its root is no object
            "bare",     \* an object without the root key
            "no map",   \* the root key holds something else
            "inline",   \* an inline table of TOML
            "map" }
Doc(shape, entries, excluded) == [shape |-> shape, entries |-> entries, excluded |-> excluded]
Missing == Doc("missing", NoEntries, {})

\* Codec::parse_document and parse_value accept the same texts.
Parses(format, doc) ==
    /\ doc.shape \notin {"missing", "broken"}
    /\ doc.shape = "blank" => format # "json"

\* ClientDocument::entries: no map and not a map read as empty.
Entries(doc) == IF doc.shape \in {"map", "inline"} THEN doc.entries ELSE NoEntries
Present(doc) == {n \in Names : Entries(doc)[n] # Absent}

\* RootPath::locate_in and its write-side twins: only a missing key is created.
Refuses(doc) == doc.shape \in {"list", "no map"}

\* mutant: the names stay excluded
EditEntriesOnly(doc, removes, upserts, unexclude) ==
    Doc("map", [n \in Names |-> IF upserts[n] # Absent THEN upserts[n]
                                ELSE IF n \in removes THEN Absent ELSE Entries(doc)[n]], doc.excluded)
\* ClientDocument::edit, and remove_from_string_array after it.
Edit(doc, removes, upserts, unexclude) ==
    Doc("map",
        [n \in Names |-> IF upserts[n] # Absent THEN upserts[n]
                         ELSE IF n \in removes THEN Absent ELSE Entries(doc)[n]],
        doc.excluded \ unexclude)

\* ClientKind::read_text: a root that is no object fails the file, a broken
\* entry is a problem of its own, an excluded name is off however it reads.
Readable(codec, doc) ==
    /\ Parses(codec.format, doc) /\ doc.shape # "list"
    /\ doc.shape = "blank" => codec.format = "toml"
UnlessExcluded(kind, excluded, n, read) ==
    IF ~read.problem /\ HasExclusionList(kind) /\ n \in excluded THEN [read EXCEPT !.enabled = FALSE]
    ELSE read
ReadEntries(kind, codec, doc) ==
    [n \in Names |->
        IF n \in Present(doc)
        THEN UnlessExcluded(kind, doc.excluded, n, Parse(codec.entries, doc.entries[n]))
        ELSE Problem]
=============================================================================
