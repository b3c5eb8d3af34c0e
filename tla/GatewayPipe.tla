------------------------------ MODULE GatewayPipe ------------------------------
(***************************************************************************)
(* The gateway's downstream face: gateway.rs and the dispatch of           *)
(* endpoints.rs.  Requests come in through the guards, are handed to the   *)
(* endpoint of the table of that moment, judged by the scopes and servers  *)
(* of the moment they are judged, forwarded under a deadline and recorded; *)
(* sessions and subscription streams are told of the lists the upstream    *)
(* changes.  Composed with the reload that moves the tables (ConfigReload) *)
(* and the log the records go to (CaptureLog).                             *)
(*                                                                         *)
(* One server, Name, is the upstream of the pipe.  What the manager does   *)
(* to reach it is UpstreamManager, its budget CallBudget, its pins         *)
(* ToolPins: here it answers, fails or stays silent.                       *)
(***************************************************************************)
EXTENDS ConfigReload, CaptureLog

CONSTANTS
    Name,         \* the upstream of the pipe
    Requests,     \* one request each
    Asks,         \* request -> what it asks for, and who asks
    Sessions,     \* sessions, and subscription streams
    Wants,        \* session -> its kind, and the families it asks to hear of
    Families,     \* ListChanged
    Infos,        \* capabilities an upstream may declare
    Backlog,      \* CHANGE_BACKLOG
    Pages,        \* cursor -> [tools, next], the upstream's tools/list
    MaxToolPages, MaxMergedTools,
    Workloads     \* how much of what happens in one run

NoInfo   == Absent
NoCursor == "start"  \* the request without one; in an answer, the last page

ASSUME PipeAssumption ==
    /\ Name \in Names
    /\ DOMAIN Asks = Requests /\ DOMAIN Wants = Sessions
    /\ Backlog \in Nat \ {0} /\ MaxToolPages \in Nat \ {0} /\ MaxMergedTools \in Nat \ {0}
    /\ NoCursor \in DOMAIN Pages
    /\ \A c \in DOMAIN Pages : Pages[c].next \in DOMAIN Pages
    /\ \A r \in Requests : \A f \in BodyFields : Asks[r][f] \in Texts /\ Incoming(Asks[r][f])
    \* What is recorded of an error is its display text behind a prefix.
    /\ \A r \in Requests : Asks[r].error.form # "json"
    /\ {"tools", "resources", "prompts"} \subseteq Families
    /\ Infos \subseteq [families : SUBSET Families, listChanged : SUBSET Families, extras : SUBSET STRING]

\* How much may happen: the edits still to come, and how often the rest.
Budgets == [edits : SUBSET Contents, signals : Nat, connects : Nat, changes : Nat, departures : Nat,
            midnights : Nat, failures : Nat, shutdowns : Nat]
ASSUME WorkloadAssumption ==
    \A w \in Workloads : w.info \in Infos \cup {NoInfo} /\ w.left \in Budgets

-----------------------------------------------------------------------------
(* The guards every request passes (serve_http_with).                       *)

\* guard_origin, is_local_origin: no Origin at all, or a loopback page's.
OriginPasses(ask) == ask.origin \in {"none", "loopback"}

\* is_probe: GET /mcp and nothing below it.
IsProbe(ask) == ask.method = "GET" /\ ask.path = "/mcp"

\* GatewayAuth::admits: the install token, or the grace of loopback while it
\* is not required.  A gateway without a token checks nothing.
Admits(auth, ask) ==
    \/ ~auth.token
    \/ ask.token = "right"
    \/ ~auth.require /\ ask.peer = "loopback"
\* The one line the grace period warns with.
Grace(auth, ask) ==
    /\ auth.token /\ ask.token # "right" /\ ~auth.require /\ ask.peer = "loopback"
    /\ ask.method # "GET"

-----------------------------------------------------------------------------
(* Capabilities and what a session is told of.                              *)

\* A declaration: the families served, those whose listChanged is set, and
\* the extras.
ToolsOnly == [families |-> {"tools"}, listChanged |-> {}, extras |-> {}]
\* forwarded: all of it but what a pipe cannot honour.
Forwarded(info) == [info EXCEPT !.extras = @ \ {"resources.subscribe", "logging", "tasks"}]
Capabilities(info) == IF info = NoInfo THEN ToolsOnly ELSE Forwarded(info)
\* promised, declared.
Promised(capabilities) == capabilities.listChanged \cap capabilities.families
\* accepted_subscription_filter: what is supported of what was asked for,
\* without per-resource subscriptions.
Accepted(want, capabilities) == (want.hears \cap Promised(capabilities)) \ {"resource updates"}

-----------------------------------------------------------------------------
VARIABLES
    auth,      \* GatewayAuth: a token is held, it is required
    warned,    \* GatewayAuth::warned
    req,       \* the requests
    info,      \* the upstream's last server info
    channels,  \* the upstream's list-changed channels, one per time the
               \* name entered the map: what was sent, and whether it is closed
    sessions,  \* sessions and streams
    owed,      \* history: session -> families changed since it was last told
    left,      \* what the workload still may do
    serving    \* "yes", "draining" once shutdown began, "over"

pipeVars == << auth, warned, req, info, channels, sessions, owed, left, serving >>
vars     == << reloadVars, captureVars, pipeVars >>

Unasked == [at |-> "new", table |-> 0, servers |-> Absent, scopes |-> Absent,
            tools |-> << >>, cursor |-> NoCursor, followed |-> {}, pages |-> 0,
            record |-> Absent, status |-> "none"]
Unopened == [at |-> "new", table |-> 0, hears |-> {}, channel |-> 0, next |-> 1]

Spend(what) == left[what] > 0 /\ left' = [left EXCEPT ![what] = @ - 1]

\* Each table of endpoints was made for one edit: its session managers know
\* the sessions opened on it and no other (EndpointTable::new).
OpenOn(s) == sessions[s].at # "new" /\ sessions[s].table = table.at
Serves(edit) == Name \in Select(edit.is)

PipeInit ==
    \E w \in Workloads :
        /\ auth = w.auth /\ warned = FALSE
        /\ req = [r \in Requests |-> IF r \in w.requests THEN Unasked ELSE [Unasked EXCEPT !.at = "never"]]
        /\ info = w.info
        /\ channels = << [sent |-> << >>, closed |-> FALSE] >>
        /\ sessions = [s \in Sessions |-> IF s \in w.sessions THEN Unopened ELSE [Unopened EXCEPT !.at = "never"]]
        /\ owed = [s \in Sessions |-> {}]
        /\ left = w.left
        /\ serving = "yes"

Init == ReloadInit /\ CaptureInit /\ PipeInit

-----------------------------------------------------------------------------
(* A request.                                                               *)

Move(r, to) == req' = [req EXCEPT ![r] = to]
Go(r, place) == Move(r, [req[r] EXCEPT !.at = place])
Reject(r, status) == Move(r, [req[r] EXCEPT !.at = "rejected", !.status = status])
OnlyReq == UNCHANGED << reloadVars, captureVars, auth, info, channels, sessions, owed, left, serving >>

\* dispatch, behind the guards: the table is loaded once, and the request
\* keeps the service it found there.  A session the service does not know is
\* refused by it.
KnowsSession(ask) == ask.session = Absent \/ OpenOn(ask.session)
Dispatched(r) ==
    LET ask == Asks[r]
    IN IF ~OriginPasses(ask) THEN Reject(r, "403")
       ELSE IF IsProbe(ask) THEN Reject(r, "probe answered")
       ELSE IF ~Admits(auth, ask) THEN Reject(r, "401")
       ELSE IF ask.path = "/mcp" THEN Reject(r, "no tools here")
       ELSE IF ~Serves(table) \/ ~KnowsSession(ask) THEN Reject(r, "404")
       ELSE Move(r, [req[r] EXCEPT !.table = table.at,
                        !.at = IF ask.family = "call" THEN "refusal"
                               ELSE IF ask.family = "list" /\ ask.cursor THEN "answered"
                               ELSE "acquire"])
Arrive(r) ==
    /\ serving = "yes" /\ req[r].at = "new"
    /\ Dispatched(r)
    /\ warned' = (warned \/ (OriginPasses(Asks[r]) /\ ~IsProbe(Asks[r]) /\ Grace(auth, Asks[r])))
    /\ OnlyReq

\* refusal: first the server's own table, then the client's scope.
ReadServer(r) ==
    /\ req[r].at \in {"refusal", "filter"}
    /\ Move(r, [req[r] EXCEPT !.servers = servers, !.at = IF @ = "filter" THEN "filter scope" ELSE "refusal scope"])
    /\ OnlyReq /\ UNCHANGED warned

\* A record, stamped with the time and built before it is appended.
Client(ask) == IF ask.client # Absent THEN ask.client ELSE ask.tag
Record(r, kind, ok, args, response, error) ==
    [id |-> << r, kind >>, day |-> today, kind |-> kind, ok |-> ok, client |-> Client(Asks[r]),
     args |-> args, response |-> response, error |-> error, bodies |-> "full"]
Finish(r, place, record) == Move(r, [req[r] EXCEPT !.at = place, !.record = record])

Visible(r, tool, inScopes) ==
    /\ ServerAllows(req[r].servers.is, Name, tool)
    /\ ScopeAllows(inScopes.is, Asks[r].tag, Name, tool)

\* The scope decides a call: denied, over its budget, or on its way.
JudgeCall(r) ==
    /\ req[r].at = "refusal scope"
    /\ LET judged == [req[r] EXCEPT !.scopes = scopes]
       IN IF ~Visible(r, Asks[r].tool, scopes)
          THEN Move(r, [judged EXCEPT !.at = "append",
                           !.record = Record(r, "denied", FALSE, NoText, NoText, Asks[r].error)])
          ELSE \/ Move(r, [judged EXCEPT !.at = "acquire"])
               \/ /\ Asks[r].metered  \* UpstreamManager::charge refuses
                  /\ Move(r, [judged EXCEPT !.at = "append",
                                 !.record = Record(r, "throttled", FALSE, NoText, NoText, Asks[r].error)])
    /\ OnlyReq /\ UNCHANGED warned

\* Asks' family by the name its records carry.
KindOf(r) == Asks[r].family
Failed(r) == Record(r, KindOf(r), FALSE, Asks[r].args, NoText, Asks[r].error)

\* call_upstream: the name is looked up again, and may have left the map.
Acquire(r) ==
    /\ req[r].at = "acquire"
    /\ IF servers.is.servers[Name] = Absent THEN Finish(r, "append", Failed(r)) ELSE Go(r, "calling")
    /\ OnlyReq /\ UNCHANGED warned

WalkStopsAtEnd(r, page) == page.next = NoCursor  \* mutant: follows any cursor
\* The upstream answers a call, or one page of a list (merged_tools): a
\* cursor seen before, too many pages or too many tools end the walk.
WalkStops(r, page) ==
    \/ page.next = NoCursor
    \/ page.next \in req[r].followed
    \/ req[r].pages + 1 >= MaxToolPages
    \/ Len(req[r].tools) + Len(page.tools) >= MaxMergedTools
AnswerCall(r) ==
    /\ req[r].at = "calling" /\ Asks[r].family # "list"
    /\ Finish(r, "append", Record(r, KindOf(r), TRUE, Asks[r].args, Asks[r].response, NoText))
    /\ OnlyReq /\ UNCHANGED warned
AnswerPage(r) ==
    /\ req[r].at = "calling" /\ Asks[r].family = "list"
    /\ LET page == Pages[req[r].cursor]
           more == [req[r] EXCEPT !.tools = @ \o page.tools, !.pages = @ + 1]
       IN IF WalkStops(r, page)
          THEN Move(r, [more EXCEPT !.at = "append", !.record = Record(r, KindOf(r), TRUE, NoText, NoText, NoText)])
          ELSE Move(r, [more EXCEPT !.cursor = page.next, !.followed = @ \cup {page.next}])
    /\ OnlyReq /\ UNCHANGED warned

\* The upstream fails, or the deadline over acquisition and call expires.
FailCall(r) ==
    /\ req[r].at = "calling"
    /\ Finish(r, "append", Failed(r))
    /\ OnlyReq /\ UNCHANGED warned

\* The client hangs up while its handler waits: the handler is dropped.
ClientGone(r) ==
    /\ req[r].at = "calling" /\ Spend("departures")
    /\ Go(r, "gone")
    /\ UNCHANGED << reloadVars, captureVars, auth, warned, info, channels, sessions, owed, serving >>

\* Gateway::record, then the answer; the tools of a list are filtered first,
\* each asked of both tables anew.
AfterRecord(r) == IF Asks[r].family = "list" /\ req[r].record.ok THEN "filter" ELSE "answered"
Recorded(r) ==
    /\ req[r].at = "append"
    /\ AppendRecord(req[r].record)
    /\ Go(r, AfterRecord(r))
    /\ UNCHANGED << reloadVars, auth, warned, info, channels, sessions, owed, left, serving >>
FilterList(r) ==
    /\ req[r].at = "filter scope"
    /\ Move(r, [req[r] EXCEPT !.at = "answered", !.scopes = scopes,
                   !.tools = SelectSeq(@, LAMBDA t : Visible(r, t, scopes))])
    /\ OnlyReq /\ UNCHANGED warned

Request(r) ==
    \/ Arrive(r) \/ ReadServer(r) \/ JudgeCall(r) \/ Acquire(r) \/ AnswerCall(r) \/ AnswerPage(r)
    \/ FailCall(r) \/ ClientGone(r) \/ Recorded(r) \/ FilterList(r)

-----------------------------------------------------------------------------
(* The upstream: it connects, and announces changes of its lists.           *)

Channel == Len(channels)  \* the one of the entry in the map
Listening(s) == sessions[s].at = "listening"
\* History: who is owed what was just published on channel c.
Owing(c, what) == [s \in Sessions |->
    IF Listening(s) /\ sessions[s].channel = c THEN owed[s] \cup (what \cap sessions[s].hears) ELSE owed[s]]

Connect(declared) ==
    /\ Spend("connects") /\ servers.is.servers[Name] # Absent
    /\ info # declared
    /\ info' = declared
    /\ UNCHANGED << reloadVars, captureVars, auth, warned, req, channels, sessions, owed, serving >>

\* UpstreamClient::publish.
Publish(what) ==
    /\ Spend("changes") /\ servers.is.servers[Name] # Absent /\ info # NoInfo
    /\ channels' = [channels EXCEPT ![Channel].sent = Append(@, what)]
    /\ owed' = Owing(Channel, {what})
    /\ UNCHANGED << reloadVars, captureVars, auth, warned, req, info, sessions, serving >>

\* UpstreamManager::apply, what of it the sessions notice: a name that left
\* closes its channel once its connection went, one that came has a new
\* channel and no info, one whose transport changed announces every family on
\* the channel carried over.
AllFamilies == << "tools", "resources", "prompts" >>
ApplyServers ==
    /\ StoreServers
    /\ LET old == servers.is.servers[Name]
           new == servers'.is.servers[Name]
       IN IF old = Absent /\ new # Absent
          THEN /\ channels' = Append(channels, [sent |-> << >>, closed |-> FALSE])
               /\ info' = NoInfo /\ UNCHANGED owed
          ELSE IF old # Absent /\ new = Absent
          THEN /\ channels' = [channels EXCEPT ![Channel].closed = TRUE]
               /\ info' = NoInfo /\ UNCHANGED owed
          ELSE IF old # Absent /\ old.transport # new.transport
          THEN /\ channels' = [channels EXCEPT ![Channel].sent = @ \o AllFamilies]
               /\ info' = NoInfo
               /\ owed' = Owing(Channel, ToSet(AllFamilies))
          ELSE UNCHANGED << channels, info, owed >>
    /\ UNCHANGED << captureVars, auth, warned, req, sessions, left, serving >>

-----------------------------------------------------------------------------
(* Sessions.                                                                *)

OnlySession == UNCHANGED << reloadVars, captureVars, auth, warned, req, info, channels, left, serving >>
Become(s, to) == sessions' = [sessions EXCEPT ![s] = to]

\* initialize: on the service of the table of the moment.
Initialize(s) ==
    /\ serving = "yes" /\ sessions[s].at = "new" /\ Wants[s].kind = "handshake" /\ Serves(table)
    /\ Become(s, [sessions[s] EXCEPT !.at = "open", !.table = table.at])
    /\ OnlySession /\ UNCHANGED owed

\* on_initialized: a session that is promised something subscribes, unless
\* the name has left the map.
Subscribed(s, hears) == [sessions[s] EXCEPT !.at = "listening", !.hears = hears,
                            !.channel = Channel, !.next = Len(channels[Channel].sent) + 1]
Initialized(s) ==
    /\ sessions[s].at = "open" /\ Wants[s].kind = "handshake"
    /\ \E hears \in {Promised(Capabilities(info))} :
          IF hears = {} \/ servers.is.servers[Name] = Absent
          THEN Become(s, [sessions[s] EXCEPT !.at = "idle"])
          ELSE Become(s, Subscribed(s, hears))
    /\ OnlySession /\ UNCHANGED owed

\* listen: a stream whose filter is accepted; it stays open, mute, when the
\* name has left the map.
Listen(s) ==
    /\ serving = "yes" /\ sessions[s].at = "new" /\ Wants[s].kind = "stream" /\ Serves(table)
    /\ \E hears \in {Accepted(Wants[s], Capabilities(info))} :
          IF hears = {} \/ servers.is.servers[Name] = Absent
          THEN Become(s, [sessions[s] EXCEPT !.at = "idle", !.table = table.at])
          ELSE Become(s, [Subscribed(s, hears) EXCEPT !.table = table.at])
    /\ OnlySession /\ UNCHANGED owed

\* recv on the broadcast channel: the next value still kept, or Lagged, which
\* moves the receiver to the oldest one kept.
Sent(s) == channels[sessions[s].channel].sent
Oldest(s) == IF Len(Sent(s)) > Backlog THEN Len(Sent(s)) - Backlog + 1 ELSE 1
NothingDueOnLag(s) == {}  \* mutant: a lag is skipped
DueOnLag(s) == sessions[s].hears
\* A notification is sent, or the send fails because no stream is open yet:
\* for a session that is not the end; a stream ends with it.
Told(s, due, next) ==
    \/ Become(s, [sessions[s] EXCEPT !.next = next]) /\ owed' = [owed EXCEPT ![s] = @ \ due]
    \/ /\ due # {} /\ Wants[s].kind = "stream"
       /\ Become(s, [sessions[s] EXCEPT !.at = "gone"]) /\ UNCHANGED owed
Receive(s) ==
    /\ Listening(s) /\ sessions[s].next <= Len(Sent(s))
    /\ IF sessions[s].next < Oldest(s)
       THEN Told(s, DueOnLag(s), Oldest(s))
       ELSE Told(s, {Sent(s)[sessions[s].next]} \cap sessions[s].hears, sessions[s].next + 1)
    /\ OnlySession
\* The channel closed and drained: the relay ends, a stream waits for its
\* client.
ChannelEnds(s) ==
    /\ Listening(s) /\ sessions[s].next > Len(Sent(s)) /\ channels[sessions[s].channel].closed
    /\ Become(s, [sessions[s] EXCEPT !.at = "idle"])
    /\ OnlySession /\ UNCHANGED owed
\* The client goes; the relay finds out within LIVENESS_POLL.
SessionEnds(s) ==
    /\ sessions[s].at \in {"open", "listening", "idle"}
    /\ Spend("departures")
    /\ Become(s, [sessions[s] EXCEPT !.at = "gone"])
    /\ UNCHANGED << reloadVars, captureVars, auth, warned, req, info, channels, owed, serving >>

Session(s) == Initialize(s) \/ Initialized(s) \/ Listen(s) \/ Receive(s) \/ ChannelEnds(s) \/ SessionEnds(s)

-----------------------------------------------------------------------------
(* Shutdown: no request is taken any more, those under way are waited for,  *)
(* then the watcher is stopped and the log flushed.                         *)

Settled(r) == req[r].at \in {"never", "new", "rejected", "answered", "gone"}
BeginShutdown ==
    /\ serving = "yes" /\ Spend("shutdowns")
    /\ serving' = "draining"
    /\ UNCHANGED << reloadVars, captureVars, auth, warned, req, info, channels, sessions, owed >>
Drained ==
    /\ serving = "draining" /\ flushing = "no"
    /\ \A r \in Requests : Settled(r)
    /\ watcher.at = "stopped"
    /\ flushing' = "sending"
    /\ UNCHANGED << reloadVars, pipeVars, today, queue, dropped, lost, files, prunedDay, pruneFailed >>
Exit ==
    /\ serving = "draining" /\ flushing = "done"
    /\ serving' = "over"
    /\ UNCHANGED << reloadVars, captureVars, auth, warned, req, info, channels, sessions, owed, left >>

-----------------------------------------------------------------------------
OnlyReload == UNCHANGED << captureVars, auth, warned, req, info, channels, sessions, owed, serving >>
WatcherGoesOn == WatchSteps /\ OnlyReload /\ UNCHANGED left
Reload ==
    \/ WatcherGoesOn
    \/ \E c \in left.edits : EditFile(c) /\ left' = [left EXCEPT !.edits = @ \ {c}] /\ OnlyReload
    \/ HangUpSignal /\ Spend("signals") /\ OnlyReload
    \/ serving = "draining" /\ StopWatching /\ OnlyReload /\ UNCHANGED left

OnlyLog == UNCHANGED << reloadVars, auth, warned, req, info, channels, sessions, owed, serving >>
Log ==
    \/ Midnight /\ Spend("midnights") /\ OnlyLog
    \/ WriteRecord(TRUE, TRUE) /\ OnlyLog /\ UNCHANGED left
    \/ \E works \in BOOLEAN : WriteRecord(works, ~works) /\ Spend("failures") /\ OnlyLog
    \/ SendMarker /\ OnlyLog /\ UNCHANGED left
    \/ AnswerMarker /\ OnlyLog /\ UNCHANGED left

Next ==
    \/ \E r \in Requests : Request(r)
    \/ \E s \in Sessions : Session(s)
    \/ \E declared \in Infos : Connect(declared)
    \/ \E what \in Families : Publish(what)
    \/ ApplyServers
    \/ Reload
    \/ Log
    \/ BeginShutdown \/ Drained \/ Exit

\* The watcher is a task with a timer: it keeps polling, and a reload under
\* way goes on.  Nothing else is owed: requests, clients and edits may stop.
Spec == Init /\ [][Next]_vars /\ WF_vars(WatcherGoesOn \/ ApplyServers)

-----------------------------------------------------------------------------
(* Properties.                                                              *)

\* The types, and the ceilings of the walk over a server's pages: whatever
\* cursors it hands out, and in a circle too, at most MaxToolPages pages are
\* asked for and each of them once (gateway.rs:839-850, 882-893).
TypeOK ==
    /\ ReloadTypeOK /\ CaptureTypeOK
    /\ warned \in BOOLEAN /\ serving \in {"yes", "draining", "over"}
    /\ \A s \in Sessions : sessions[s].hears \subseteq Families /\ sessions[s].channel \in 0 .. Len(channels)
    /\ \A r \in Requests : /\ req[r].pages <= MaxToolPages
                          /\ req[r].pages <= Cardinality(req[r].followed) + 1

\* A request is judged by nothing older than the table that dispatched it:
\* its endpoint's server is looked at as of that edit or a later one, and a
\* client's scope is never older than the server rules it is combined with
\* (apply's order, reload.rs:163-184, against refusal's, gateway.rs:341-365).
JudgedInOrder ==
    \A r \in Requests : req[r].scopes # Absent =>
        /\ req[r].table <= req[r].servers.at
        /\ req[r].servers.at <= req[r].scopes.at

\* The last text written is the one served in the end, unless it does not
\* load or the gateway is shutting down, with no signal from anybody: however
\* many broken or vanished texts came between (reload.rs:232-275).
EditsAreServed == <>[](watcher.at = "stopped" \/ InForce)

\* What a listening session was not yet told is on its way: every change of
\* a family it hears of is still in the channel before it, or has been
\* overrun, and then the lag tells it of every family (relay, listen).
ToldOfEveryChange ==
    \A s \in Sessions : Listening(s) =>
        owed[s] \subseteq IF sessions[s].next < Oldest(s) THEN sessions[s].hears
                         ELSE {Sent(s)[i] : i \in sessions[s].next .. Len(Sent(s))}

\* When the gateway has exited, every request that was answered is in the
\* traffic log, once, or was counted as dropped, or could not be written, or
\* its day has passed (serve's drain, then the flush: capture.rs:1168-1184).
Answered == {r \in Requests : req[r].at = "answered" /\ req[r].record # Absent}
InLog(record) ==
    LET name == DailyName(record.day)
    IN name \in DOMAIN files /\ Cardinality({i \in DOMAIN files[name] : files[name][i].id = record.id}) = 1
ExitLosesNoRecord ==
    serving = "over" =>
        \A r \in Answered :
            \/ req[r].record.id \in dropped \cup lost
            \/ RetainDays # 0 /\ req[r].record.day + RetainDays <= today
            \/ InLog(req[r].record)
=============================================================================
