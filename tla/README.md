# mcpgw in TLA+

mcpgw keeps one canonical list of MCP servers, writes it into the config files
of the AI clients on the machine, and runs a gateway that serves every
configured server to every client. This directory holds specifications of its
parts, the TLC instances that check them, and proofs, checked by TLAPS, of what
matters most about them. `PROJECT.json` maps every definition to the source
lines it stands for and lists the runs, the mutants and the hazards.

## Inventory

| Component | State | Operations | Hard because | Correct when |
| --- | --- | --- | --- | --- |
| Upstream manager, `core/src/upstream.rs` | map name → entry; per entry a slot, a retired flag, a `Notify`; per ladder a liveness flag | `ready`, `call`, `demote`, `release`, `apply`, `retire`, `shutdown` | callers share one connect ladder; futures are dropped at any await; reloads and shutdowns run beside them | nobody waits for ever, one ladder at a time, nothing runs under an entry that left the map, a live connection is not unseated |
| Call budget, `upstream.rs` | one deadline per entry | `charge` | limit and clock are read before the mutex; the limit is edited live | it is the documented token bucket |
| Tool pins, `pins.rs`, `gateway.rs`, `tools.rs` | one pin file per server | `observe`, `pin`, `unpin`, `tools/list` | sessions and another process write one file; the list is read in pages | drift on file is real and complete, and what is on file already is not reported again |
| Config reload and endpoint table, `reload.rs`, `endpoints.rs` | stamp of the config file; client scopes, server map, endpoints in force | `watch`, `reload`, `apply`, `dispatch` | a poll races the writer; three tables are replaced one after another under running requests | no edit is lost, and nothing is judged by a table older than the one that let it in |
| Gateway pipe, `gateway.rs` | sessions and streams, what each was promised; requests under way | guards, list, call, read, relay of list changes | a lagging broadcast, endpoints and scopes that change in mid-request | every promised change is relayed, every answered request is recorded |
| Capture log, `capture.rs` | bounded queue, daily files, day of the last prune | `append`, `flush`, `prune`, redaction | full queue, flush while writers go on, midnights, failing writes | what was accepted before a flush is on disk after it, old files go and only they, no credential is stored |
| Managed state and sync, `state.rs`, `sync.rs`, `clients.rs`, `codec.rs`, `cli/commands/{sync,eject,import}.rs`, `wizard/` | state file, client files, backups | plan, apply, eject, import, rollback, the wizard's steps | three files written one after another by several commands; the client and its user write one of them too | the user's own entries and switches survive, claims are backed, answers are followed |
| Config store, `store.rs`, `backup.rs`, `projects.rs` | config file, lock file, backups | open, edit, commit | several processes | no edit is lost |
| Gateway process, `serve.rs`, `connect.rs`, `runtime.rs` | the port, the runtime record | start, bind, publish, drain, withdraw | services, terminals and bridges want one port; signals at any moment | one gateway on the port |
| Upgrade watcher, `upgrade.rs`, `self_update.rs` | stamp last seen, candidate, guard | tick, verify, stand aside; stage, check, replace | half-written, reverted, vanished binaries; the successor must know | a new binary is taken, and taken once |
| Service management, `daemon/`, `cli/commands/daemon.rs` | supervisor's job, `daemon.json` | install, uninstall, start, stop | the supervisor restarts on its own | what was stopped stays stopped |
| Gateway token, `gateway_token.rs` | token file | load or create, rotate | two starters, no lock | the token served is the one on disk (it need not be, see below) |
| OAuth store, `auth.rs` | token file, refresh lock | refresh, login, logout | providers rotate refresh tokens and revoke reused ones | the login on disk is one the provider accepts |
| Headers command, probing, diagnostics, screens of the wizard, the download of a release | none shared | one-shot | I/O and formatting | not modelled |

The CLI edits the config file and syncs it into client files; the gateway polls
it and applies it: scopes, then `UpstreamManager::apply`, then endpoints. Every
client request enters the gateway pipe, is filtered and charged, and reaches
its server through `UpstreamManager::call`, the only path to an upstream, with
the login `auth.rs` keeps. A `tools/list` goes on to the pin store. Every
request leaves a record in the capture log. A supervisor restarts the gateway
that stands aside for a new binary; a bridge starts one when nobody serves.

## Modules

| Module | What it is |
| --- | --- |
| `UpstreamManager` | the slot machine of `upstream.rs` with its callers, reloads and shutdown |
| `CallBudget`, `TokenBucket` | `Budget::charge` and `UpstreamManager::charge`; the token bucket of `book/src/gateway.md` that they implement |
| `ToolPins` | the pin file of one server, the listing path of the gateway, the CLI's pin and unpin |
| `ClientEntries` | the entry schemas, formats and quirks of the thirteen clients' files: parse, emit, carry over |
| `SyncPlanning` | plans of `sync` and `eject`: adds, updates, removes, conflicts, the gateway entries of each client |
| `ConfigEdits` | the config as `add`, `remove`, `enable`, `disable`, `tools` and `clients` edit it |
| `ImportPlanning` | plans and writes of `import` |
| `SyncCommands` | the commands themselves: locks, backups, order of writes, questions, users and crashes |
| `ConfigReload` | the watch on the config file and the three stores of an apply |
| `CaptureLog` | redaction, queue, writer thread, daily files and retention, flush |
| `GatewayPipe` | requests, sessions and streams of one pipe, composed with `ConfigReload` and `CaptureLog` |
| `GatewayProcess` | processes around one port, the upgrade watch, runtime record, token, supervisor and daemon commands |
| `OAuthLogin` | token files: refresh under the lock, login, logout |
| `Install` | `GatewayProcess` and `OAuthLogin` side by side, with their fairness |
| `MC...` | the instances for TLC |
| `UpstreamManagerProofs`, `UpstreamReloadProofs`, `CallBudgetProofs`, `ToolPinsProofs`, `GatewayPipeProofs`, `OAuthLoginProofs`, `GatewayProcessProofs`, `SyncCommandsProofs` | theorems |

`SyncCommands` extends `ImportPlanning`, `ConfigEdits`, `SyncPlanning` and
`ClientEntries`, one on top of the other: the pure parts are operators, the
commands are the state machine.

Operators marked `mutant` stand before the definition they would replace: a
plausible bug in the same lines, which makes a property of the runs fail. They
are used nowhere else.

### UpstreamManager

A *demand* is one call of `UpstreamManager::call`, used once. The claim it
makes on a slot, the ladder it runs and the connection it opens bear its name:
that is the identity `Arc::ptr_eq` compares. An *entry* is a pair of a name and
the number of the map that made it, the identity of an `Arc<Upstream>`.

`pc` follows a demand through `ready` and `call`:

    new -> register -> inspect -> (parking -> parked -> register ...)
                               -> ladder -> landing -> settle -> calling
                               -> calling
    calling -> done | release -> done | demote -> done

Each section under the slot's mutex contains no await in the code and is one
action (`FindRetired`, `FindLive`, `FindClaimed`, `Claim`; `Land`; `Report`;
`RetireSlot`; `ShutDownSlot`). Everything between two of them is an action of its
own: enabling the `Notified` (`Register`), starting to await it (`Park`),
`notify_waiters` (`Settle`, `RetireNotify`, `ShutDownNotify`), the retired flag
(`RetireFlag`), the look at the map that `demote` and `release` make again.
`HangUp` and `HangUpOnLadder` drop the future at an await; the second runs
`ConnectGuard::drop`, which revokes the claim (`live`) without the lock and
leaves the slot as it is. `ChildDies` is the environment: a child process exits
and `dead()` turns true without anybody writing the slot.

A dial is abstracted to what comes back: a connection, a failure, or an answer
that ends the ladder (401, a failed headers command). `Dial` covers both
connects of one `connect_attempt`. `Lookup` reads the map and the entry's
`Server` in one step. `Land` clears the liveness flag in the same step as the
slot write: no await lies between, and a waiter that reads in between only
takes the lock later. `disowned` is a history variable.

### CallBudget and TokenBucket

Time is in ticks; `WINDOW / limit` is integer division, as in the code.
`Ask` is `UpstreamManager::charge` up to the mutex (limit and clock read),
`Unmetered`, `Charge` and `RefuseCharge` the section under it. `Edit` is what a
reload does to the limit. `last` and `tally` are history: `tally` starts at any
charged call and adds the worth of every later one, so that `RateBound` speaks
of every interval. The refinement maps the deadline to the time the bucket
needs to be full again, as of the last charge. The wait a refusal names is part
of the answer both modules give, so the refinement covers it.

### ToolPins

An *actor* is a gateway session or the command line. Both walk the server's
pages one at a time (`List`, `Page`), so a server that changes between two pages
is listed torn. A gateway's walk also ends at a cursor that was handed out before,
at `MAX_TOOL_PAGES` and at `MAX_MERGED_TOOLS` (`CutShort`), as `merged_tools`
does; the command line's (`list_all_tools`) has no such ceilings. `Cursors` is
what a page may say comes next: `Circling` are the pages that may lead back.
However a walk ended, its list is compared, and `missed` is the history of the
tools a walk that was cut short did not come to. `Filter` is the rest of
`list_tools` and the start of `check_drift`, with the rules and the scope read once
for the whole list, where the code reads both again for each tool
(`gateway.rs:1062-1064`; `FilterList` of `GatewayPipe` likewise); `observe` is `ReadNothing`, `ReadNewer`, `ReadSame`, `ReadDrift`
under the gate and `Write` at its end. The gate is a mutex of one process:
`Pin` and `Unpin` come between the read and the write. `HangUpOnCheck` drops the
handler while the blocking task runs on. A definition stands for its hash;
`Length` is the description length that drift events carry. `at` counts moves
of the server instead of milliseconds. `Write` and `Record` hand on and record
the whole drift that was written, old events too, as `observe` does, whatever the
doc of `observe` says (see the disagreements). `SettledDriftIsQuiet` says what is
left of it: a list that finds the very drift on file reports nothing. A drift that comes, goes and comes again is reported
each time.

### ClientEntries, SyncPlanning, ConfigEdits, ImportPlanning

A JSON object is the set of its key-value pairs, a client file is its shape
(map, missing, no map, broken), its server map and its exclusion list. A
transport is where it leads, what it is given there (environment or headers)
and a headers helper. Text is left out: indentation, comments, quoting, and the
placeholders inside strings. What is kept is what decides: which key a schema
reads and writes, which spelling of a type it takes, what makes an entry a
problem, which user fields `carry_over` keeps, which files are refused.
A headers helper is an argv: the words of its line and the blanks between them
that stand inside an argument (`Argv`). `Joined` is the line an entry is written
with (`join(" ")`), `SplitLine` the argv read from one (`split_whitespace`):
where arguments end is lost on the way, which the code says at
`codec.rs:398-404`. Blanks are not told apart, and an empty argument is left out.
Names come with the finite list of their numbered variants (`Spelling`); a
plan that would need one more gives up (`NamesSuffice`).

### SyncCommands

A *terminal* runs one command at a time; `term[p]` is what it holds in memory.
Files are replaced atomically (`write_atomic`), and one action writes one file.
What a command only reads before a lock or a question (`ImportStarts`,
`EjectPlan`, `Refresh`, `SyncStep`) it reads in one action. A backup is one
action too: that `fs::copy` is not atomic and that the prune comes after it
(`backup.rs:62`) is left out, as is the wizard's sync step when it is declined.
A project file that vanishes between two looks is skipped where `sync.rs:357`
ends the command. No property of the runs is about these.

    sync:     lock for sync -> plan -> back up -> claim -> write -> plan ...
    edit:     lock for edit -> save edit -> (lock for sync ...)
    import:   lock for import -> ask -> adopt -> save config -> save adoptions
    eject:    lock for eject -> confirm -> back up -> claim -> write ...
    rollback: roll back -> put back ...
    wizard:   read state -> import step -> ask ... -> refresh -> sync step
              -> lock to apply -> back up ...

The two locks are files whose lock ends with the process, so `Crash` frees
them. A question is answered at any later time, from a plan that may be old.
Users write, switch, exclude, delete and break client files at any moment.
`raced` and `loose` are history: files that changed since their last backup,
and files whose claims a crash, a rollback or a stale wizard plan has left
behind. The files a command has still to do are a set (`todo`), and `Turn` is
the one that is first in the order the command goes through them. What `import`
leaves in memory is stated as a whole (`Imported`): the candidates that become
servers (`Brought`), the entries that are mcpgw's from now on (`AdoptOrigins`),
and what the answered ones stand for (`ResolveOrigins`).

### ConfigReload, CaptureLog, GatewayPipe

An *edit* is a text the config file was given, numbered. The stamp is that
number: two writes with one modification time and one length, which the code
cannot tell apart, do not occur. `reload` is `TakeStamp`, `ReadText`,
`MarkSeen` and the stores of `apply` in their order; the second store is joined
with what the upstream manager does to the channels of a name (`ApplyServers`).

A request walks `Arrive` (guards and dispatch) `-> ReadServer -> JudgeCall`
(refusal and budget) `-> Acquire -> AnswerCall | AnswerPage ... | FailCall ->
Recorded`, and for a list `-> ReadServer -> FilterList`. Each read of a shared
table is an action of its own. A handler is dropped only while it waits for the
upstream. A session is a handshake session or a subscription stream; what it
has not been told since it began to listen is `owed`. Channels keep the last
`Backlog` messages.

In the log a text is a sequence of pieces: prose, or something the redaction
rules know. The patterns are abstracted to what they recognise; the test for a
long random run keeps its four measurements. The bodies are redacted as JSON
where they are JSON (`RedactBody`), an error always as text (`RedactText`); that no
error is JSON itself, being a display text behind a prefix, is in
`PipeAssumption`. Days are counted as the code does
and their names computed with `civil_from_days`.

### GatewayProcess, OAuthLogin, Install

One port, one state directory. A process is a supervised service, a `serve` in a
terminal or a bridge, in one of the places

    serve:  starting -> minting -> binding -> publishing -> beginning -> serving
            -> draining -> drained -> gone
    bridge: probing -> binding -> loading -> publishing -> ... | waiting | bridging

A binary is its stamp, the second of its modification time (what the guard of a
restart compares) and whether it runs. `Tick` is one tick of the watch up to
`verify_runs`, `Verified` its outcome: what is at the path by then, or a
time-out. `StandAside` joins the write of the record, the shutdown of the
children and the exit; `Withdraw` likewise. `Start` joins the look at the port and
the start (`cli/commands/daemon.rs:272-274`), and a runtime record that cannot be written
(`serve.rs:554-560`) is left out. `aside` and `judged` are history.
The supervisor restarts whatever did not end with success, unless it was told
to stop (of the conditions of `Restart=on-failure`, `systemd.rs:403`, the exit
status alone); `Register` and `Stopped` wait until the child has gone, as `bootout`
and `systemctl` do, and `KillChild` is their deadline. One daemon command runs
at a time. `self-update` runs its staged file once and renames it over whatever
the path holds by then, be it newer than what it compared itself with (workload
`Updating`), or reports why not (`Unfit`). What `token rotate` does to the clients is the sync of
`SyncCommands`.

The provider of a login keeps a grant per login, rotates its refresh token at
each refresh, and revokes a grant when an old token comes back. The lock is held
from `AcquireGuard` to `SaveRotation`; `Die` frees it. The `code` of a callback
is exchanged after the page is answered, so `RedeemCode` may still fail.

## Runs

| Run | Instance | What it shows |
| --- | --- | --- |
| `Upstream` | 1 name, ladders of 3 rungs, every client may hang up; 3 demands and a shutdown, or 2 demands and 2 reloads over 2 transports (`Apart`) | no lost wakeup, no orphaned claim, one ladder at a time, no connection installed by a disowned ladder, no live connection unseated; nothing kept by a retired entry, nothing running outside the map, calls go over the configured transport, a reload closes nothing in use |
| `UpstreamLiveness` | 2 demands, one may hang up, 1 reload, shutdown | every demand is answered |
| `UpstreamReenable` | 1 demand, 2 reloads | **violated**: a server disabled and enabled again cannot be reached |
| `CallBudget` | 2 callers, limits 0, 2, 3, window of 4 ticks, 6 instants | the deadline is the token bucket, and bounds the rate |
| `ToolPins` | 2 sessions with the same view, the CLI, 2 tools on 3 pages of which the middle one is empty and may lead to itself, 2 moves (1 where a client hung up or a walk went in a circle, and not both of these: `Apart`), 1 command | the drift on file is exact, keeps its first time and names only tools that were touched or that a walk was cut short of; a list that finds the drift on file reports nothing |
| `ToolPinsScoped` | 2 sessions, the CLI, 2 tools on 2 pages, one client scoped, server and rules unchanged | **violated**: drift although nothing changed |
| `ToolPinsHangUp` | the same, 1 move, no command | **violated**: drift on file that was never recorded |
| `ToolPinsPartial` | 1 session with 1 page to a walk, the CLI, 2 pages, no move | **violated**: the tools of the second page drift although nothing changed |
| `SyncCommands` | 2 terminals, Cline's file and a repository's Gemini file, 2 names, 9 commands of which 2 are run, 1 user edit or crash, 1 backup kept, 2 machines | no lost update, claims match what is written and are backed by the config, users' entries and switches survive, sync is idempotent, backups undo, answers are followed, what is saved reads back in every client's schema (of a helper, its argv exactly when no argument has a blank) |
| `SyncWizard` | the same, import and wizard only, no disturbance | **violated**: the wizard's sync does not follow an answered question |
| `GatewayPipe` | eleven workloads over one pipe: 11 requests, 2 sessions, 5 edits, backlog 2, queue 2, 1 midnight, 1 failing write | edits are neither lost nor applied out of order and are served in the end; sessions hear of every change; answered requests are in the log at exit; old files go; no credential is stored |
| `Install` | twelve workloads: 3 process slots, 4 binaries, cool-down 2 of 3 instants, 1 crash, 1 time-out; 2 servers, 2 refreshers | no restart loop, an upgrade is taken, a login is kept |

Why the bounds are enough. Entries share nothing but the order in which an
apply or a shutdown visits them, so one name shows what a slot can do; three
demands are an owner, a waiter and a latecomer. Three rungs tell the first, the middle and the
last. Two reloads are needed to retire an entry and touch it again. A third
demand and a shutdown are kept apart from reloads (`Apart`): what they would do
together is left to the theorems, which have no such bound. A window of
4 ticks divides evenly for a limit of 2 and not for 3; 0 is the switched-off
budget. Two sessions and one command meet in every order around the gate; two
pages make a torn list, two moves a change and its repeal. An empty page that
leads to itself is a circle before the last page; the ceiling on pages cuts
walks short in `ToolPinsPartial`, the one on tools in no instance: the theorem
has it. Two commands at once are every race for a lock, and one disturbance falls between any two of their
steps; of the two client files one is in JSON with comments and a switch
field, the other has an exclusion list and belongs to a repository, and
`SavedReadsBack` goes through all thirteen schemas. Two names, the second a
numbered form of the first, are enough for a collision and the name import then
gives. A backlog and a queue of 2 overflow with three messages. Three pages of
which the last points back make a circle. Three process slots are the service,
its successor and a rival. Binaries: the old, a new one, a rebuild in the same
second, one that does not run; a path without a file is a fifth.

A *workload* fixes what the environment may do in a behaviour, so that one
instance holds several small concerns instead of their product; `Init` chooses
one. What two workloads would only do together is not explored: a shutdown amid
edits, a login during an upgrade.

Deadlock is not checked where the system comes to rest: demands, requests,
commands and sessions are one-shot. (`SyncCommands` states its rest as a step and
checks for deadlock: no two commands wait for each other's locks.) Symmetry is
over demands that may all hang up, callers, sessions with the same view, and
terminals.

Fairness. `UpstreamLiveness`: weak fairness of each demand's task, of the
running retirement and of the running shutdown. The runtime polls every task
that is ready, a dial ends with the connect timeout and a request with the
gateway's deadline (`within_deadline`). `GatewayPipe`: the watcher's task, which
is a timer and file reads. `Install`: what a process does by itself
(`OwnSteps`) and the start of a service that the supervisor has to start; of
the drains only the one for an upgrade, which `UPGRADE_DRAIN` bounds; an
ordinary shutdown may wait for its clients for ever. Weak fairness is per
process; a verification ends, for `verify_timeout` ends it, and which way it
ends is left open. Nobody is obliged to call, hang up, edit, replace a binary,
answer a question or shut down.

What liveness is worth. `UpgradeTaken` has excuses, and each is a way in which
the code leaves an upgrade lying: a binary turned down once is not looked at
again while its stamp is the same, also when only the machine was too busy; one
that was in place before the watch began is not an upgrade; a service told to
stop, or out of the port, is nobody's to upgrade.

## Proofs

For all values of the constants that satisfy the named assumptions, and without
bounds other than those the modules name. The assumptions say what kind of thing
a parameter is (a duration a number, a body a text nothing was cut from yet, a
workload budgets that are numbers), that the marks for "nothing" are values of
no other kind, that a config boots, and that a binary is known by its stamp
(`ProcessAssumption`), as the watch knows it. `CommandAssumption` says of the
machines the commands start on that each gateway entry in a client file is
claimed, as mcpgw claims what it writes, of users that the entries they write
lead to servers of their own, that the configs they start on and the servers given
to `add` hold what `serde` reads into `Transport` and `Server` (`ConfigFits`,
`ServerFits`: strings where a string is asked for, headers helpers with a word in their line, on
remote servers only), that a value of the wrong JSON type is no token and no address,
and that a missing one is no key, no type and no switch. `ImportAssumption` says
that the order of the files lists each once, and that spellings and slugs are
made of names.

| Module | Theorems | About |
| --- | --- | --- |
| `UpstreamManagerProofs` | `TypeCorrect`, `NoLostWakeup`, `ClaimsAreRunning`, `OneLadder`, `DisownedDiscarded`, `RetiredStaysEmpty`, `ConnectionsAreKept` | the slots under demands and shutdown |
| `UpstreamReloadProofs` | `NothingRunsUnownedHolds`, `ServedByConfiguredTransportHolds`, `InFlightSurvivesReloadHolds` | the slots under reloads |
| `CallBudgetProofs` | `BudgetTypeCorrect`, `RateBounded`, `BudgetIsTokenBucket` | the budget, and the token bucket it implements (initial states and steps) |
| `ToolPinsProofs` | `PinTypeCorrect`, `FileReflectsLastListHolds`, `OnlyMovedToolsDriftHolds`, `SettledDriftIsQuietHolds`, `FirstNoticedIsKept` | the pin file; the last two are action properties |
| `GatewayPipeProofs` | `PipeTypeCorrect`, `NoEditLostHolds`, `JudgedInOrderHolds`, `ToldOfEveryChangeHolds`, `NoCredentialOnDiskHolds`, `RetentionIsKept`, `ExitLosesNoRecordHolds` | the pipe with the reload and the traffic log in it |
| `OAuthLoginProofs` | `LoginTypeCorrect`, `LoginIsKept` | the logins, as part of an install |
| `GatewayProcessProofs` | `InstallTypeCorrect`, `NoRestartLoopHolds` | the processes of an install |
| `SyncCommandsProofs` | `NoLostUpdateHolds`, `WrittenIsClaimedHolds`, `RollbackUndoesTheWriteHolds`, `SyncIsIdempotentHolds`, `UserSideSurvivesHolds`, `SyncFollowsAnswersHolds`, `CommandTypeCorrect`, `ClaimsAreBackedHolds`, `SavedReadsBackHolds` | the commands over the config, the state file and the client files; all but the types, the updates and the claims of written entries are action properties |

**Upstream manager.** The inductive invariant `IInv` adds what the properties
lean on: a slot that says *connecting* names the demand that wrote it
(`SlotNamesClaimant`), a liveness flag is true exactly for a demand on its
ladder (`WitnessIsLadder`), a ladder that was not disowned still owns its
slot (`LadderOwnsSlot`), a disowned one is named by no slot
(`DisownedIsForgotten`), the entry being retired is flagged
(`RetiringIsFlagged`), and the map and a demand only ever hold entries that
exist (`MapIsServed`, `EntryKnown`). `NoStrandedWaiter` alone is not inductive:
a claim that turns dead must be followed by a notify, and that needs to know
who held it.

Reloads need a second one beside it, `RInv`: an entry that a demand looked up is
in the map, among what the running apply has yet to retire, or retired
(`LookedUpIsAccounted`), and one whose slot holds anything is in the map or
still to be retired (`HeldIsAccounted`); a demand dials what its entry is
configured for, and the claimant of a slot looked up that slot's entry
(`DialledAsConfigured`, `SlotIsClaimants`). That an entry keeps its transport
for life is what `SameTransport` in `apply` is for. `InFlightSurvivesReload`
needs that a connection somebody goes through has landed (`ConnIsLanded`), and
that what is dead without a shutdown is a child that exited or a connection
that nobody could see before it was thrown away (`DeadIsUnseen`).

**Call budget.** The refinement needs only the type invariant and that the
deadline is never behind the last charge; `RateBounded` needs that the tally
never outgrows the deadline.

**Tool pins.** `FileReflectsLastList` alone is not inductive: an `observe` writes
the whole file from what it read. `GateIsHeld` says that one session at a time
is between its read and its write, and `ReadIsKept` that meanwhile the file is
the one read or was replaced by a pin or an unpin, which leaves no drift.
`OnlyMovedToolsDriftHolds` has a hypothesis, `NobodyIsScoped`: no client kind has
a table of its own. Without it the run `ToolPinsScoped` is the counterexample.
Its argument goes page by page: what a walk has fetched of an untouched tool is
what the server always said of it, and a walk that was not cut short has fetched
every page (`WalksInOrder`, `FetchedSo`); for any pages, any circles and any
ceilings. That no partial list is compared (`OnlyWholeListsCompared`) is false.

**Gateway pipe.** `PipeInv` has a part per concern, each kept by the steps of the
others because they do not write what it reads. `ReloadInv` says of a reload
under way that what it read is at least what it took the stamp of (`ReadIsLate`),
that an apply goes on to its last store (`ApplyGoesOn`), and that the three
stores are ordered table <= servers <= scopes (`PublishedInOrder`); with it
`RequestInv` orders what a request has read. `SessionInv` ties what a stream is
owed to the positions of its channel. `LogInv` follows a record: a request that
was answered has its record exactly once among the queue and the files, or in
`dropped`, or in `lost` (`Accounted`, `Once`), each in the file of its day
(`Entries`), and after the flush nothing is left in the queue (`Flushing`).
`RetentionHolds` rests on a lemma about the calendar, `NamesInOrder`: the year,
month and day that `civil_from_days` computes are ordered as the days are, for
every day since 1970. The code compares names, the promise is about days.
`NoCredentialOnDisk` is carried by every record in the queue and the files
(`Clean`) and rests on `RedactBody` and `Truncate` (`RedactedTexts`,
`CutTexts`): what is cut was redacted whole.

**Install.** `LoginInv`: one refresher at a time has a server's lock between its
read and its save (`GuardIsHeld`); the token it is about to exchange is the one
of its grant on disk, and the one it is about to save is the one the provider
accepts (`HandIsCurrent`); a grant just given is in nobody's hands
(`NewGrantIsUnused`).
`ProcessInv`: only a supervised gateway watches (`WatcherServes`), it never
checks nor decides what its guard refuses (`GuardIsObeyed`), and the last
restart is on record, undisturbed, until the successor has it for its guard
(`RestartIsOnRecord`, `GuardIsLastRestart`). Both are proved of `Install`'s
specification, whose steps are those of either part with the other's variables
unchanged.

**Commands.** Each step of a command has a lemma that says what it does to the
files, the locks and the terminal's memory (`LockForSyncDoes`, `WriteDoes`,
...); the steps that touch no file are one kind of step, `StandsBack`. The
inductive invariant `HoldsInv` has four parts, each kept with the help of those
before it:

* `CommandInv`: who is between a read under a lock and the write that ends it
  holds that lock, and the copy it works on is what the file holds. From this
  `NoLostUpdate` follows; `import` asks its question outside the lock, and reads
  again when it has it.
* `BackupInv`: a file that did not change since it was copied (`raced`) is on
  top of its backups, of which one at least is kept: `RollbackUndoesTheWrite`.
* `PlanInv`: a plan is what planning says of the copies it was made from, the
  names it manages are claimed when the file is written, and only the wizard's
  plan may follow other answers than those of the state it writes.
* `FileInv`: `WrittenIsClaimed`, which is not inductive alone. It needs that the
  copy a plan was made from reached the gateway through claimed entries only,
  and that the claims on the files still to do are the ones that were read
  (`CopiesFit`); that one command at a time writes (`WhoWrites`); that a plan
  leaves no gateway entry it does not claim (`WrittenClaims`); and that
  no user makes one (`UserLeaves`), whatever switch is flipped in it
  (`SwitchLeadsNowhere`).

Three properties rest on the algebra of plans besides: applying a plan and planning
again finds nothing (`AppliedPlanIsDone`: what was carried over once is carried
over again, a name taken for a conflict stays one, an exclusion that was lifted
stays lifted), and an entry after a plan is mcpgw's, gone, or what it was
(`WhatIsWritten`, `SwitchesAreCarried`), and what is written can be read: whatever
switches were flipped in it since, an entry of any schema that `Emit` wrote is
parsed as leading where it was made to lead (`ReadsItsAddress`), and under a name
somebody was asked about sync writes the server they named
(`NamedByTheAnswer`). All three have the hypothesis
`NothingIsAnObject`: the marks `Absent` and `Wrong` have none of the keys of an
entry. In the code they are a missing key and a value of another JSON type; in
TLC they are model values, of which a key cannot be asked, so it is not an
`ASSUME` of the module.

A second invariant beside it, `SavedInv`, is about what is saved: the config and the
state file keep their types, no more backups are kept than `Keep`, an edit
changes a server that is there (`EditFits`), and what an import has in memory can
be saved and has a server for each claim it adds (`ImportFits`, `Backed`), a
server that is in the config on disk once only the adoptions are still to be
saved. From it follow

* `TypeOK`, with the locks and documents of `HoldsInv`;
* `ClaimsAreBacked`: the config is saved first, and the claims that are saved then
  were worked out from it under both locks. The work is in what the planning of
  an import returns, whatever the clients' files hold: every candidate comes with
  the transport of each of its origins, and no name is given to two of them
  (`CandidatesFit`); a conflict is offered a name nobody else has, neither in the
  config nor among the candidates nor among the names offered before
  (`PlanFits`); so what is brought under a name is one server (`BroughtOnce`), and
  each adopted entry finds its own (`AdoptedIsBacked`);
* `SavedReadsBack`: each schema reads back all of what it wrote
  (`ConfigReadsBack`), the arguments and the headers as well as the address, for
  every transport a config can hold. The headers helper is the exception it
  states: gone on a client that runs none, and on the others the same argv
  exactly when no blank stands inside an argument (`SplitJoined`).

The candidates and the plan of an import are folds over lists. What a fold
computes is shown with a least counterexample instead of the induction theorems:
were there a position at which no function defined so far exists, or at which
what it has computed does not fit, there would be a first one (`LeastOf`, from
`WFMin`), and the step before it contradicts that (`AddFileFits`,
`CandidatesMade`, `PlanMade`). The first two of the three properties have the
hypothesis `NothingIsAServer`, the third has it and `NothingIsAnObject`: `Absent`
does not have the fields of a server. In the code it is `None`; TLC cannot ask a
model value for its domain, so it is no `ASSUME` of the module either.

Only model-checked: liveness under fairness (`Answered`, `EditsAreServed`,
`UpgradeTaken`), which is beyond the prover, as is `ENABLED`; and the violated
runs, which have nothing to prove. Every other property of every run is proved.

## Disagreements found

Runs that are violated:

1. `apply` (`upstream.rs:964-972`) keeps the entry of a server that is disabled
   and then enabled again, and the retired flag that disabling set is never
   cleared: `ready` answers `ShutDown` until the gateway restarts
   (`UpstreamReenable`).
2. A client's own scope filters the list that is compared with the server's
   pins (`gateway.rs:1060-1065`): clients with different scopes drift each
   other's pins (`ToolPinsScoped`).
3. A handler dropped in `check_drift`'s await leaves drift on file that is never
   recorded (`ToolPinsHangUp`).
4. A walk that `merged_tools` cuts short (`gateway.rs:882-911`: a cursor seen
   before, 64 pages, 10 000 tools) is handed on without its cursor and compared
   as if it were whole: the tools it did not come to are filed as removed, against
   `gateway.rs:375-378` (`ToolPinsPartial`).
5. The wizard's sync step plans with the names of the config and not with those
   an answered question gave (`wizard/sync.rs:145`, `SyncWizard`).

In the models, without a run of their own. The properties are stated so that
they hold beside them, and say so:

* A crash after `state.save` is not always repaired by the next sync
  (`commands/sync.rs:445-450`): an entry to be removed is already unclaimed and
  stays (`loose`). Rollback restores files and not claims; it takes no lock. The
  wizard's plans are older than its lock and may write entries back that another
  sync has unclaimed, or write over a file made meanwhile, without a backup.
* sync reads the config before it takes its lock: the older of two syncs can
  take away what a newer `add` wrote.
* The claim on a name that has left the file and the config is never dropped; an
  entry of the user's under that name is later taken for a managed one.
* `import` in the CLI offers entries that mcpgw manages, gateway entries among
  them (the wizard filters them), and adopts an entry as it was when it was read.
* Every reload makes a new endpoint table with new session managers
  (`endpoints.rs:124`): sessions opened before are answered 404, also when only
  a scope was edited, which `reload.rs:82-84` calls no reason to replace a
  session. `seen` starts empty, so the first poll always reloads, though
  `reload.rs:85-90` counts serve's own load as seen.
* Families a session is promised are computed when it has initialized
  (`gateway.rs:954`), not when it was told them in `initialize` (612-619).
* `load_or_create` is not locked: of two starters one serves a token that is not
  the one on disk. A rotation is not seen by a running gateway
  (`commands/token.rs:106` prints that it is).
* A gateway lets go of the port before it drains and withdraws the port's record
  afterwards, whoever wrote it: its successor's, too (`serve.rs:214`).
* `Throttled` and binaries that do not run are not tried again; the guard
  knows only the last restart, so two binaries taking turns restart each time.
* The callback page says "Logged in" before the code is exchanged
  (`auth.rs:648-656` says that page and exit code cannot disagree). The login's
  time-out is on `accept` alone. A logout during a refresh is undone by its
  save. A process that ends between a rotation and its save, for instance for an
  upgrade, loses the login.
* A bridge that loses the race for the port is left without a gateway when the
  winner's client closes, or its config does not load.
* `observe` hands back every event of a drift that differs from the one on file
  (`pins.rs:542`), where its doc promises the new ones (`pins.rs:481-483`): an old
  event is recorded again whenever another tool drifts. `Write` and `Record` do
  so; `SettledDriftIsQuiet` forbids only the report of the very drift on file.
* A pin accepted between `observe`'s read and its write is written over with the
  old one. A second rewrite of a tool to another description of the same length
  has the same `shape` and is silent.
* `loose` takes a whole file out of `WrittenIsClaimed` after a crash at its write
  and every file of a stale wizard plan, not only the entries concerned, and
  `RollbackUndoesTheWrite` leaves out files that were not there when they were planned.
* `port_policy` takes a service that is running and a gateway that answers for
  one and the same.

Read in the code and not modelled: `book/src/gateway.md:162` says that pages are
forwarded and not compared, which `merged_tools` no longer does; waiters of a failed ladder each dial
once more, one after another, where the doc of `ready` says they wait for its
outcome (`upstream.rs:677`).

## Not modelled

* Diagnostics (`doctor`, `inspect`, `watch`, `list`, `status`): they read.
* The dial itself (protocol negotiation, the headers command's child process,
  the transports), `status()` and parameter headers: one request, no sharing.
* Probing, the download and unpacking of a release (either works or fails in
  `Stage`), release notices: sequences of I/O whose result is a file or a line.
* The windows service, the text of unit files, log files of the daemon.
* The wizard's screens and its daemon step, which calls what `daemon` calls.
* Parsing and printing of TOML and JSON beyond what decides about an entry.

## Plan

Every safety and action property of the passing runs has its theorem. What is
left is proof of more than the runs ask: an abstract specification of the config
and the state file as two registers with atomic updates, and that the commands
implement it step by step; the abstraction of a pin file by the list it was
compared with last; and the safety halves of the liveness properties (that in no
reachable state every demand, session and watcher waits for another).
