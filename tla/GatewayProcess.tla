---------------------------- MODULE GatewayProcess ----------------------------
(***************************************************************************)
(* The processes that serve, or want to serve, one port of one install:    *)
(* the supervised service, `mcpgw serve` in a terminal and the gateway a   *)
(* `mcpgw connect` raises for itself (serve.rs, connect.rs); the runtime   *)
(* record they publish (runtime.rs); the watch on the service's binary     *)
(* (upgrade.rs); the install's token (gateway_token.rs); and the daemon    *)
(* commands over a supervisor (daemon/, commands/daemon.rs).               *)
(*                                                                         *)
(* What a gateway serves is GatewayPipe's; here a config loads or does not.*)
(***************************************************************************)
EXTENDS Naturals, Sequences, FiniteSets

CONSTANTS
    Procs,      \* slots for processes, numbers: the lowest free one is taken
    Binaries,   \* what the service's path may hold: [stamp, second, runs],
                \* with the modification time also cut to the second
    First,      \* the one it holds at first
    Cooldown,   \* RESTART_COOLDOWN
    MaxTime,    \* bound on the clock
    Absent      \* None, and a file that is not there

\* RuntimeRecord and its last_restart.
Restarts == [second : {b.second : b \in Binaries}, at : 0..MaxTime]
MaybeRestarts == Restarts \union {Absent}
Records == [by : Procs, last : MaybeRestarts]

ASSUME ProcessAssumption ==
    /\ Procs \subseteq Nat /\ Absent \notin Procs \union Records
    /\ Cooldown \in Nat /\ MaxTime \in Nat
    /\ First \in Binaries /\ First.runs
    /\ \A b \in Binaries : b.runs \in BOOLEAN
    /\ \A b, c \in Binaries : b.stamp = c.stamp => b = c

VARIABLES
    disk,        \* the file at the path the service was installed with
    clock,       \* unix time, in units of which Cooldown is some
    record,      \* gateway-PORT.json: who published it, and the last restart
                 \* made for a binary
    listener,    \* the process holding the port
    procs,
    supervisor,  \* launchd, systemd: what it knows of the service
    spec,        \* daemon.json is there
    token,       \* gateway-token on disk
    minted,
    cli,         \* the daemon command under way
    aside,       \* history: the last restart carried out, and whether somebody
                 \* else has touched the record since
    left         \* what the environment may still do

processVars == << disk, clock, record, listener, procs, supervisor, spec, token, minted, cli, aside, left >>

-----------------------------------------------------------------------------
(* The watch on the binary, Watcher of upgrade.rs.  What it says only once *)
(* (gone, throttled) is wording and not kept.                              *)

NoStamp == 0
Stat(path) == IF path = Absent THEN NoStamp ELSE path.stamp

UpgradeRestart(binary, now) == [second |-> binary.second, at |-> now]

NewWatch(path, guard) ==
    [seen |-> Stat(path), candidate |-> NoStamp, checking |-> Absent, guard |-> guard]

\* The predecessor already restarted for this binary, recently.
Refused(guard, restart) ==
    guard # Absent /\ guard.second = restart.second /\ restart.at < guard.at + Cooldown

\* One tick up to the verification, which takes its time: `checking` is then
\* the restart that would follow.
Ticked(watch, path, now) ==
    LET found   == Stat(path)
        restart == UpgradeRestart(path, now)
        settled == [watch EXCEPT !.candidate = NoStamp]
    IN CASE found \in {NoStamp, watch.seen} -> settled
         [] found \notin {NoStamp, watch.seen, watch.candidate} -> [watch EXCEPT !.candidate = found]
         [] OTHER ->
              [settled EXCEPT !.seen = found,
                              !.checking = IF Refused(watch.guard, restart) THEN Absent ELSE restart]

-----------------------------------------------------------------------------
(* Processes.                                                               *)

Kinds  == {"service", "serve", "bridge"}
Places == {"gone", "starting", "minting", "probing", "binding", "loading", "waiting", "publishing",
           "beginning", "serving", "bridging", "draining", "drained"}
Gone == [kind |-> "serve", at |-> "gone", binary |-> NoStamp, token |-> Absent, guard |-> Absent,
         watch |-> Absent, judged |-> {}, decided |-> Absent, stop |-> FALSE]
Started(kind) ==
    [Gone EXCEPT !.kind = kind, !.binary = disk.stamp, !.at = IF kind = "bridge" THEN "probing" ELSE "starting"]

FirstFree(p) == procs[p].at = "gone" /\ \A q \in Procs : q < p => procs[q].at # "gone"

\* Holding the port, from bind to the moment the server starts to drain.
Holding == {"loading", "publishing", "beginning", "serving"}

\* Exit statuses, and what the supervisors restart on: any but success.
Success     == 0
Failure     == 1
UpgradeExit == 75
Killed      == 137
RestartsOn(status) == status # Success

ReleasedAtTheEnd(p) == listener  \* mutant: the port is held through the drain
Released(p) == IF listener = p THEN Absent ELSE listener

Ends(p, status) ==
    /\ procs' = [procs EXCEPT ![p] = Gone]
    /\ listener' = IF listener = p THEN Absent ELSE listener
    /\ supervisor' = IF supervisor.child # p THEN supervisor
                     ELSE [supervisor EXCEPT !.child = Absent,
                                             !.due = RestartsOn(status) /\ ~supervisor.stopping]

Goes(p, from, to) ==
    /\ procs[p].at = from
    /\ procs' = [procs EXCEPT ![p].at = to]

outside == << disk, clock, spec, cli, left >>
others  == << outside, supervisor >>

\* GatewayToken::load_or_create, in the first half of serve's run: nothing
\* locks the file between the look and the write.
ReadToken(p) ==
    /\ left.loads
    /\ procs[p].at = "starting"
    /\ procs' = [procs EXCEPT ![p].at = IF token = Absent THEN "minting" ELSE "binding",
                              ![p].token = token]
    /\ UNCHANGED << record, listener, token, minted, aside, others >>
MintToken(p) ==
    /\ procs[p].at = "minting"
    /\ minted' = minted + 1 /\ token' = minted'
    /\ procs' = [procs EXCEPT ![p].at = "binding", ![p].token = token']
    /\ UNCHANGED << record, listener, aside, others >>

\* serve: a config that does not load, or nothing in it to serve.
RefuseConfig(p) ==
    /\ ~left.loads /\ procs[p].at = "starting"
    /\ Ends(p, Failure)
    /\ UNCHANGED << record, token, minted, aside, outside >>

\* A bridge binds before it loads anything, a gateway after.
Bind(p) ==
    /\ listener = Absent
    /\ procs[p].at = "binding"
    /\ listener' = p
    /\ procs' = [procs EXCEPT ![p].at = IF procs[p].kind = "bridge" THEN "loading" ELSE "publishing"]
    /\ UNCHANGED << record, token, minted, aside, others >>
CannotBind(p) ==
    /\ listener # Absent
    /\ procs[p].at = "binding" /\ procs[p].kind # "bridge"
    /\ Ends(p, Failure)
    /\ UNCHANGED << record, token, minted, aside, outside >>

\* publish_record: only a supervised gateway carries its predecessor's restart.
InheritedByNobody(p) == Absent  \* mutant: the old record is not read
Inherited(p) == IF procs[p].kind = "service" /\ record # Absent THEN record.last ELSE Absent
Publish(p) ==
    /\ procs[p].at = "publishing"
    /\ record' = [by |-> p, last |-> Inherited(p)]
    /\ procs' = [procs EXCEPT ![p].at = "beginning", ![p].guard = Inherited(p)]
    /\ aside' = [aside EXCEPT !.disturbed = @ \/ procs[p].kind # "service"]
    /\ UNCHANGED << listener, token, minted, others >>

\* A supervised gateway takes the stamp it starts from; a bridge reads the
\* token, which it never mints.
Begin(p) ==
    /\ procs[p].at = "beginning"
    /\ procs' = [procs EXCEPT
           ![p].at = "serving",
           ![p].token = IF procs[p].kind = "bridge" THEN token ELSE @,
           ![p].watch = IF procs[p].kind = "service" THEN NewWatch(disk, procs[p].guard) ELSE Absent,
           ![p].judged = IF procs[p].kind = "service" THEN {Stat(disk)} ELSE {}]
    /\ UNCHANGED << record, listener, token, minted, aside, others >>

Verifying(p) == procs[p].watch # Absent /\ procs[p].watch.checking # Absent

\* A tick; what the watch makes up its mind about without running it is judged.
Tick(p) ==
    /\ procs[p].at = "serving"
    /\ procs[p].watch # Absent /\ ~Verifying(p) /\ procs[p].decided = Absent
    /\ \E watch \in {Ticked(procs[p].watch, disk, clock)} :
          procs' = [procs EXCEPT ![p].watch = watch,
                                 ![p].judged = IF watch.checking = Absent THEN @ \union {watch.seen} ELSE @]
    /\ UNCHANGED << record, listener, token, minted, aside, others >>

\* verify_runs runs what is at the path now; a busy machine may take too long.
Verified(p, answers) ==
    /\ Verifying(p)
    /\ answers => disk # Absent /\ disk.runs
    /\ ~answers /\ disk # Absent /\ disk.runs => left.timeouts > 0
    /\ procs' = [procs EXCEPT
           ![p].watch.checking = Absent,
           ![p].decided = IF answers THEN procs[p].watch.checking ELSE Absent,
           ![p].judged = IF answers THEN @ ELSE @ \union {procs[p].watch.seen}]
    /\ left' = IF ~answers /\ disk # Absent /\ disk.runs THEN [left EXCEPT !.timeouts = @ - 1] ELSE left
    /\ UNCHANGED << disk, clock, spec, cli, supervisor, record, listener, token, minted, aside >>

\* shutdown_signal: a stop, or the watch's verdict.  The server lets go of the
\* port and drains.
StartDraining(p) ==
    /\ procs[p].at = "serving"
    /\ procs[p].stop \/ procs[p].decided # Absent
    /\ procs' = [procs EXCEPT ![p].at = "draining"]
    /\ listener' = Released(p)
    /\ UNCHANGED << record, token, minted, aside, others >>

\* Drained: by the clients going, or by UPGRADE_DRAIN once the watch decided.
\* A verification under way is waited for, and may still decide.
Drained(p) ==
    /\ ~Verifying(p)
    /\ Goes(p, "draining", "drained")
    /\ UNCHANGED << record, listener, token, minted, aside, others >>

ExitStatusCleanly(p) == Success  \* mutant: standing aside is a clean exit
ExitStatus(p) == IF procs[p].decided # Absent THEN UpgradeExit ELSE Success

StandAside(p) ==
    /\ procs[p].at = "drained" /\ procs[p].decided # Absent
    /\ record' = [by |-> p, last |-> procs[p].decided]
    /\ aside' = [last |-> procs[p].decided, disturbed |-> FALSE]
    /\ Ends(p, ExitStatus(p))
    /\ UNCHANGED << token, minted, outside >>
\* remove_record does not ask whose record it is.
Withdraw(p) ==
    /\ procs[p].at = "drained" /\ procs[p].decided = Absent
    /\ record' = Absent
    /\ aside' = [aside EXCEPT !.disturbed = TRUE]
    /\ Ends(p, ExitStatus(p))
    /\ UNCHANGED << token, minted, outside >>

-----------------------------------------------------------------------------
(* `mcpgw connect`.                                                         *)

Reach == IF listener = Absent THEN "down"
         ELSE IF procs[listener].at = "serving" THEN "answering" ELSE "not http"

\* startup: another gateway, an installed service, or this process.
Probe(p) ==
    /\ Goes(p, "probing", IF Reach = "down" /\ ~spec THEN "binding" ELSE "bridging")
    /\ UNCHANGED << record, listener, token, minted, aside, others >>
LoseTheRace(p) ==
    /\ listener # Absent /\ procs[p].kind = "bridge"
    /\ Goes(p, "binding", "waiting")
    /\ UNCHANGED << record, listener, token, minted, aside, others >>
\* wait_for_the_winner: until it answers, or the deadline.
Waited(p) ==
    /\ Goes(p, "waiting", "bridging")
    /\ UNCHANGED << record, listener, token, minted, aside, others >>
LoadConfig(p) ==
    /\ Goes(p, "loading", IF left.loads THEN "publishing" ELSE "bridging")
    /\ listener' = IF left.loads THEN p ELSE Absent
    /\ UNCHANGED << record, token, minted, aside, others >>
\* The client closes stdin; a gateway raised for it drains and goes too.
ClientCloses(p) ==
    /\ procs[p].kind = "bridge" /\ procs[p].at \in {"bridging", "serving"}
    /\ procs' = [procs EXCEPT ![p] = IF procs[p].at = "serving" THEN [@ EXCEPT !.at = "draining"] ELSE Gone]
    /\ listener' = Released(p)
    /\ UNCHANGED << record, token, minted, aside, others >>

ServeSteps(p) ==
    \/ ReadToken(p) \/ MintToken(p) \/ RefuseConfig(p)
    \/ Bind(p) \/ CannotBind(p) \/ Publish(p) \/ Begin(p)
    \/ Tick(p) \/ StartDraining(p) \/ StandAside(p) \/ Withdraw(p)
    \/ \E answers \in BOOLEAN : Verified(p, answers)
BridgeSteps(p) == Probe(p) \/ LoseTheRace(p) \/ Waited(p) \/ LoadConfig(p)

-----------------------------------------------------------------------------
(* The supervisor and the daemon commands.                                  *)

\* SIGTERM.  Before Signals::install it ends the process.
Signalled(p) ==
    IF procs[p].at \in {"starting", "minting"} THEN Ends(p, Killed)
    ELSE /\ procs' = [procs EXCEPT ![p].stop = TRUE]
         /\ UNCHANGED << listener, supervisor >>

Launch(p) ==
    /\ supervisor.loaded /\ supervisor.due /\ ~supervisor.stopping /\ supervisor.child = Absent
    /\ disk # Absent /\ disk.runs
    /\ FirstFree(p)
    /\ procs' = [procs EXCEPT ![p] = Started("service")]
    /\ supervisor' = [supervisor EXCEPT !.child = p, !.due = FALSE]
    /\ UNCHANGED << outside, record, listener, token, minted, aside >>
StopChild(p) ==
    /\ supervisor.stopping /\ supervisor.child = p /\ ~procs[p].stop
    /\ Signalled(p)
    /\ UNCHANGED << outside, record, token, minted, aside >>
\* A child that does not end in time is killed.
KillChild(p) ==
    /\ supervisor.stopping /\ supervisor.child = p /\ procs[p].stop
    /\ Ends(p, Killed)
    /\ UNCHANGED << outside, record, token, minted, aside >>

daemonRest == << disk, clock, record, listener, procs, minted, token, aside >>
Asks(command) ==
    /\ cli = Absent /\ command \in left.commands
    /\ left' = [left EXCEPT !.commands = @ \ {command}]

\* port_policy: the supervisor runs our service and a gateway answers.
OwnServiceAnswers == supervisor.installed /\ supervisor.child # Absent /\ Reach = "answering"
Install ==
    /\ Asks("install")
    /\ cli' = [at |-> "token", own |-> OwnServiceAnswers]
    /\ UNCHANGED << daemonRest, supervisor, spec >>
InstallReadsToken ==
    /\ cli # Absent /\ cli.at = "token"
    /\ cli' = [cli EXCEPT !.at = IF token = Absent THEN "mint" ELSE "preflight"]
    /\ UNCHANGED << daemonRest, supervisor, spec, left >>
InstallMints ==
    /\ cli # Absent /\ cli.at = "mint"
    /\ minted' = minted + 1 /\ token' = minted'
    /\ cli' = [cli EXCEPT !.at = "preflight"]
    /\ UNCHANGED << disk, clock, record, listener, procs, aside, supervisor, spec, left >>
\* preflight: BindPolicy::permits, and the port free unless it is our own.
Permits == left.loopback \/ (left.require /\ token # Absent)
Preflight ==
    /\ cli # Absent /\ cli.at = "preflight"
    /\ IF Permits /\ (cli.own \/ listener = Absent)
       THEN /\ cli' = [cli EXCEPT !.at = "register"]
            /\ supervisor' = [supervisor EXCEPT !.installed = TRUE, !.stopping = TRUE]
       ELSE cli' = Absent /\ UNCHANGED supervisor
    /\ UNCHANGED << daemonRest, spec, left >>
\* service.install: the old job is gone, the new one is started.
Register ==
    /\ cli # Absent /\ cli.at = "register" /\ supervisor.child = Absent
    /\ supervisor' = [supervisor EXCEPT !.loaded = TRUE, !.due = TRUE, !.stopping = FALSE]
    /\ cli' = [cli EXCEPT !.at = "save"]
    /\ UNCHANGED << daemonRest, spec, left >>
SaveSpec ==
    /\ cli # Absent /\ cli.at = "save"
    /\ spec' = TRUE /\ cli' = Absent
    /\ UNCHANGED << daemonRest, supervisor, left >>

Stop(command) ==
    /\ command \in {"stop", "uninstall"}
    /\ Asks(command)
    /\ cli' = [at |-> command, own |-> FALSE]
    /\ supervisor' = [supervisor EXCEPT !.stopping = TRUE]
    /\ UNCHANGED << daemonRest, spec >>
Stopped ==
    /\ cli # Absent /\ cli.at \in {"stop", "uninstall"} /\ supervisor.child = Absent
    /\ supervisor' = [supervisor EXCEPT !.loaded = FALSE, !.due = FALSE, !.stopping = FALSE,
                                        !.installed = @ /\ cli.at = "stop"]
    /\ cli' = IF cli.at = "stop" THEN Absent ELSE [cli EXCEPT !.at = "forget"]
    /\ UNCHANGED << daemonRest, spec, left >>
RemoveSpec ==
    /\ cli # Absent /\ cli.at = "forget"
    /\ spec' = FALSE /\ cli' = Absent
    /\ UNCHANGED << daemonRest, supervisor, left >>
\* start: the port must be free; a service not installed is refused.
Start ==
    /\ Asks("start")
    /\ supervisor' = IF supervisor.installed /\ Permits /\ listener = Absent
                     THEN [supervisor EXCEPT !.loaded = TRUE, !.due = supervisor.child = Absent]
                     ELSE supervisor
    /\ UNCHANGED << daemonRest, spec, cli >>
Rotate ==
    /\ Asks("rotate")
    /\ minted' = minted + 1 /\ token' = minted'
    /\ UNCHANGED << disk, clock, record, listener, procs, aside, supervisor, spec, cli >>

DaemonSteps ==
    \/ Install \/ InstallReadsToken \/ InstallMints \/ Preflight \/ Register \/ SaveSpec
    \/ \E command \in {"stop", "uninstall"} : Stop(command)
    \/ Stopped \/ RemoveSpec \/ Start \/ Rotate

-----------------------------------------------------------------------------
(* `mcpgw self-update`, the program replacing its own binary.               *)

updateRest == << clock, record, listener, procs, minted, token, aside, supervisor, spec >>

\* is_newer, of the binary the command was started from.  There is no release
\* where cargo or Homebrew owns the binary, or where nobody can be asked.
IsNewer == left.release # Absent /\ left.release.stamp > disk.stamp
SelfUpdate ==
    /\ disk # Absent /\ disk.runs
    /\ Asks("self-update")
    /\ cli' = IF IsNewer THEN [at |-> "fetch", own |-> FALSE] ELSE Absent
    /\ UNCHANGED << disk, updateRest >>
UpdateStep(at, works, next) ==
    /\ cli # Absent /\ cli.at = at
    /\ cli' = IF works THEN next ELSE Absent
    /\ UNCHANGED << left, updateRest >>
\* The archive is fetched, checked against its sum and unpacked, and the binary
\* written beside the old one; any of it may fail.
Stage(works) == UpdateStep("fetch", works, [cli EXCEPT !.at = "staged"]) /\ UNCHANGED disk
\* check_staged: it is run once, for its version.
CheckStaged(works) ==
    /\ UpdateStep("staged", works, [cli EXCEPT !.at = "replace"])
    /\ works => left.release.runs
    /\ UNCHANGED disk
\* self_replace renames over what is at the path by now.
Replace(works) ==
    /\ UpdateStep("replace", works, Absent)
    /\ works => disk # Absent
    /\ disk' = IF works THEN left.release ELSE disk
UpdateSteps ==
    \/ SelfUpdate
    \/ \E works \in BOOLEAN : Stage(works) \/ CheckStaged(works) \/ Replace(works)

-----------------------------------------------------------------------------
(* The environment.                                                         *)

environmentRest == << record, token, minted, aside, spec, cli >>

\* An upgrade, a build, a package manager at work on the path.
ReplaceBinary ==
    /\ left.edits # << >>
    /\ disk' = Head(left.edits)
    /\ left' = [left EXCEPT !.edits = Tail(@)]
    /\ UNCHANGED << clock, listener, procs, supervisor, environmentRest >>
TimePasses ==
    /\ clock < left.time
    /\ clock' = clock + 1
    /\ UNCHANGED << disk, listener, procs, supervisor, left, environmentRest >>
\* A user runs `mcpgw serve`, or a client starts its bridge.
Run(p, kind) ==
    /\ kind \in {"serve", "bridge"} /\ left.starts[kind] > 0
    /\ disk # Absent /\ disk.runs
    /\ FirstFree(p)
    /\ procs' = [procs EXCEPT ![p] = Started(kind)]
    /\ left' = [left EXCEPT !.starts[kind] = @ - 1]
    /\ UNCHANGED << disk, clock, listener, supervisor, environmentRest >>
\* Ctrl-C, or a SIGTERM sent by hand.
Interrupt(p) ==
    /\ left.signals > 0 /\ procs[p].at \notin {"gone"} /\ procs[p].kind # "bridge" /\ ~procs[p].stop
    /\ Signalled(p)
    /\ left' = [left EXCEPT !.signals = @ - 1]
    /\ UNCHANGED << disk, clock, environmentRest >>
Crash(p) ==
    /\ left.crashes > 0 /\ procs[p].at # "gone"
    /\ Ends(p, Killed)
    /\ left' = [left EXCEPT !.crashes = @ - 1]
    /\ UNCHANGED << disk, clock, environmentRest >>

Environment(p) ==
    \/ Interrupt(p) \/ Crash(p) \/ ClientCloses(p) \/ Drained(p)
    \/ \E kind \in {"serve", "bridge"} : Run(p, kind)

ProcessNext ==
    \/ \E p \in Procs : \/ ServeSteps(p) \/ BridgeSteps(p) \/ Environment(p)
                        \/ Launch(p) \/ StopChild(p) \/ KillChild(p)
    \/ DaemonSteps \/ UpdateSteps \/ ReplaceBinary \/ TimePasses

\* What a behaviour may still hold: whether a service serves at first, whether
\* the config loads, and how often what is outside mcpgw does what it does.
Workings ==
    [settled : BOOLEAN, loads : BOOLEAN, edits : Seq(Binaries \union {Absent}), time : 0..MaxTime,
     crashes : Nat, timeouts : Nat, signals : Nat, starts : [serve : Nat, bridge : Nat],
     commands : SUBSET {"install", "uninstall", "start", "stop", "rotate", "self-update"},
     release : Binaries \union {Absent}, loopback : BOOLEAN, require : BOOLEAN]

\* A machine that never had a gateway, or one whose service has been serving.
NoService == [installed |-> FALSE, loaded |-> FALSE, due |-> FALSE, child |-> Absent, stopping |-> FALSE]
Fresh ==
    /\ record = Absent /\ listener = Absent /\ supervisor = NoService /\ spec = FALSE
    /\ token = Absent /\ minted = 0 /\ procs = [p \in Procs |-> Gone]
Settled(p) ==
    /\ record = [by |-> p, last |-> Absent] /\ listener = p /\ spec = TRUE
    /\ supervisor = [NoService EXCEPT !.installed = TRUE, !.loaded = TRUE, !.child = p]
    /\ token = 1 /\ minted = 1
    /\ procs = [q \in Procs |-> IF q # p THEN Gone
                ELSE [Gone EXCEPT !.kind = "service", !.at = "serving", !.binary = First.stamp, !.token = 1,
                                  !.watch = NewWatch(First, Absent), !.judged = {First.stamp}]]
ProcessInit(workloads) ==
    /\ left \in workloads
    /\ disk = First /\ clock = 0 /\ cli = Absent
    /\ aside = [last |-> Absent, disturbed |-> FALSE]
    /\ IF left.settled THEN \E p \in Procs : (\A q \in Procs : p <= q) /\ Settled(p) ELSE Fresh

\* What a process does of itself: its own steps, and of the drains only the one
\* for an upgrade, which ends after UPGRADE_DRAIN; clients need not go.
OwnSteps(p) == ServeSteps(p) \/ BridgeSteps(p) \/ (Drained(p) /\ procs[p].decided # Absent)

-----------------------------------------------------------------------------
Stamps == {b.stamp : b \in Binaries} \union {NoStamp}
Watches == [seen : Stamps, candidate : Stamps, checking : MaybeRestarts, guard : MaybeRestarts]
Processes ==
    [kind : Kinds, at : Places, binary : Stamps, token : 1..minted \union {Absent}, guard : MaybeRestarts,
     watch : Watches \union {Absent}, judged : SUBSET Stamps, decided : MaybeRestarts, stop : BOOLEAN]
CommandPlaces ==
    {"token", "mint", "preflight", "register", "save", "stop", "uninstall", "forget", "fetch", "staged", "replace"}
ProcessTypes ==
    /\ disk \in Binaries \union {Absent} /\ clock \in 0..MaxTime
    /\ record \in Records \union {Absent}
    /\ listener \in Procs \union {Absent}
    /\ minted \in Nat /\ token \in 1..minted \union {Absent}
    /\ aside \in [last : MaybeRestarts, disturbed : BOOLEAN] /\ spec \in BOOLEAN
    /\ supervisor \in [installed : BOOLEAN, loaded : BOOLEAN, due : BOOLEAN, stopping : BOOLEAN,
                       child : Procs \union {Absent}]
    /\ procs \in [Procs -> Processes]
    /\ cli \in [at : CommandPlaces, own : BOOLEAN] \union {Absent}
    /\ left \in Workings
\* The port is held by the one process that bound it and has not let go.
PortIsHeld     == \A p \in Procs : listener = p <=> procs[p].at \in Holding
ServiceIsChild == \A p \in Procs : procs[p].at # "gone" /\ procs[p].kind = "service" => supervisor.child = p
ProcessTypeOK  == ProcessTypes /\ PortIsHeld /\ ServiceIsChild

\* Stepping aside for one binary leads to no second such step within the
\* cool-down, by whichever process the supervisor started since: each carries
\* the restart of the one before it.  Unless somebody else published or
\* withdrew a record on the port in between (upgrade.rs, runtime.rs).
NoRestartLoop ==
    \A p \in Procs :
        procs[p].decided # Absent /\ aside.last # Absent /\ ~aside.disturbed =>
            \/ procs[p].decided.second # aside.last.second
            \/ procs[p].decided.at >= aside.last.at + Cooldown

\* A service that lags behind the binary at its path ends up running it.  What
\* excuses it: the watch has turned that very binary down, or found it in place
\* when it began; the path holds nothing that runs; the service was told to
\* stop; or another gateway has the port.
Running(p)  == procs[p].kind = "service" /\ procs[p].at = "serving"
Lags        == disk # Absent /\ \E p \in Procs : Running(p) /\ procs[p].binary # disk.stamp
Upgraded    == disk # Absent /\ \E p \in Procs : Running(p) /\ procs[p].binary = disk.stamp
TurnedDown  == disk # Absent /\ \E p \in Procs : Running(p) /\ disk.stamp \in procs[p].judged
ToldToStop  == \/ supervisor.stopping \/ ~supervisor.loaded
               \/ \E p \in Procs : procs[p].stop
PortTaken   == \E p \in Procs : procs[p].at # "gone" /\ procs[p].kind # "service"
UpgradeTaken ==
    Lags ~> (Upgraded \/ TurnedDown \/ disk = Absent \/ (disk # Absent /\ ~disk.runs) \/ ToldToStop \/ PortTaken)
=============================================================================
