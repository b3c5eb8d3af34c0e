--------------------------- MODULE UpstreamManager ---------------------------
(***************************************************************************)
(* The upstream manager of src/crates/core/src/upstream.rs: one slot per   *)
(* server entry, filled by whichever demand finds it empty, shared by the  *)
(* demands that arrive while it is being filled, and taken away by config  *)
(* reloads, by shutdown and by requests that fail through it.              *)
(*                                                                         *)
(* Slot sections under the async mutex contain no await, so each is one    *)
(* step; everything the code does between two of them is a step of its    *)
(* own.  A demand is one call of UpstreamManager::call, used once; the     *)
(* claim it makes, the ladder it runs and the connection it opens all bear *)
(* its name, which stands for the Arc identities the code compares.        *)
(***************************************************************************)
EXTENDS Naturals

CONSTANTS
    Names,        \* server names of the config
    Demands,      \* calls made during a behaviour, each one once
    Cancellable,  \* the demands whose client may hang up
    Transports,   \* values of Server.transport
    Stdio,        \* those that run a child process
    Rotating,     \* those whose headers come from a headers_command
    Attempts,     \* ATTEMPTS: rungs of the ladder on a slot that is not latched
    MaxReloads,   \* bound on config reloads in a behaviour
    MayShutDown,  \* whether shutdown may be called in a behaviour
    NoEntry, NoServer, NoDemand

ASSUME UpstreamAssumption ==
    /\ Attempts \in Nat \ {0}
    /\ MaxReloads \in Nat
    /\ MayShutDown \in BOOLEAN
    /\ Cancellable \subseteq Demands
    /\ Stdio \subseteq Transports /\ Rotating \subseteq Transports
    /\ Stdio \cap Rotating = {}
    /\ NoDemand \notin Demands

\* The half of config.rs's Server that decides what happens to a connection.
Servers == [transport : Transports, enabled : BOOLEAN]
Configs == [Names -> Servers \cup {NoServer}]

\* An Arc<Upstream>: the entry made for a name by the k-th map (0 is the one
\* the manager was built with).  A reload that keeps an entry keeps its value.
Entries == Names \X (0 .. MaxReloads)
NameOf(e) == e[1]
ASSUME NoEntryIsNone == NoEntry \notin Entries
ASSUME NoServerIsNone == NoServer \notin Servers

-----------------------------------------------------------------------------
VARIABLES
    upstreams,  \* the published map: name -> entry, or NoEntry
    server,     \* Upstream.server of each entry made so far
    retired,    \* the entries whose retired flag is set
    slot,       \* Upstream.slot
    live,       \* the claims whose liveness witness is still true
    dead,       \* the connections dead() reports as closed
    pc,         \* where each demand is
    at,         \* the entry a demand looked up
    dialled,    \* the transport of the Server snapshot it took with it
    left,       \* connect attempts its ladder still has
    outcome,    \* what its ladder came back with
    conn,       \* the connection its request goes through
    woken,      \* the registered demands a notify_waiters has reached
    disowned,   \* history: claims a retirement or a shutdown took away
    reloads,    \* applies so far
    reload,     \* the apply in progress: what it still has to retire
    shutdown    \* the shutdown in progress: what it still has to empty

manager == << upstreams, server, retired, slot, live, dead, disowned >>
demand  == << pc, at, dialled, left, outcome, conn, woken >>
vars    == << upstreams, server, retired, slot, live, dead, disowned,
              pc, at, dialled, left, outcome, conn, woken,
              reloads, reload, shutdown >>

SlotStates == {"idle", "connecting", "ready", "failed", "auth"}
Slots      == [state : SlotStates, by : Demands \cup {NoDemand}]

Idle          == [state |-> "idle",       by |-> NoDemand]
Failed        == [state |-> "failed",     by |-> NoDemand]
AuthRequired  == [state |-> "auth",       by |-> NoDemand]
Connecting(d) == [state |-> "connecting", by |-> d]
Ready(d)      == [state |-> "ready",      by |-> d]

PCs == {"new", "register", "inspect", "parking", "parked", "ladder", "landing",
        "settle", "calling", "release", "demote", "done"}
Outcomes == {"none", "ok", "failed", "auth"}

\* Upstream::retired.
RetiredUnread(e) == FALSE  \* mutant: the flag is never looked at
Retired(e) == e \in retired
\* Slot::connecting: the claim is held by a ladder that still runs.
ClaimUnread(e)  == FALSE                          \* mutant: claims over a claim
ClaimForGood(e) == slot[e].state = "connecting"   \* mutant: ignores the witness
Claimed(e) == slot[e].state = "connecting" /\ slot[e].by \in live
\* Slot::Ready(service) if !dead(service).
Serving(e) == slot[e].state = "ready" /\ slot[e].by \notin dead
\* Slot::Ready(live) if Arc::ptr_eq(live, c).
HoldsSome(e, c) == slot[e].state = "ready"  \* mutant: no identity check
Holds(e, c) == slot[e] = Ready(c)
\* A latched slot gets one attempt per demand, any other the full ladder.
Latched(e) == slot[e].state \in {"failed", "auth"}
RungsAfterFirst(e) == IF Latched(e) THEN 1 ELSE Attempts + 1  \* mutant: off by one
Rungs(e) == IF Latched(e) THEN 1 ELSE Attempts

\* The demands with a Notified registered on e's `settled`: from before they
\* read the slot, where the mutant registers when the await begins.
RegisteredLate(e) == {d \in Demands : pc[d] = "parked" /\ at[d] = e}
Registered(e) == {d \in Demands : pc[d] \in {"inspect", "parking", "parked"} /\ at[d] = e}
Wakes(e) == woken' = woken \cup Registered(e)

\* The demands whose ladder on e is running, or waiting to land.
Climbing(e) == {d \in Demands : pc[d] \in {"ladder", "landing"} /\ at[d] = e}

Goto(d, label) == pc' = [pc EXCEPT ![d] = label]
-----------------------------------------------------------------------------
(* UpstreamManager::ready, up to the claim.                                 *)

\* get(name) and the enabled check: the map and the entry's Server are read
\* together here because whatever a reload puts between the two reads leaves
\* the demand with an entry and a Server that were current at one instant.
Lookup(d, n) ==
    /\ pc[d] = "new"
    /\ LET e == upstreams[n] IN
       IF e # NoEntry /\ server[e].enabled
       THEN /\ at' = [at EXCEPT ![d] = e]
            /\ dialled' = [dialled EXCEPT ![d] = server[e].transport]
            /\ Goto(d, "register")
       ELSE /\ Goto(d, "done")
            /\ UNCHANGED << at, dialled >>
    /\ UNCHANGED << manager, left, outcome, conn, woken, reloads, reload, shutdown >>

\* Notified::enable, before the slot is read.
Register(d) ==
    /\ pc[d] = "register"
    /\ Goto(d, "inspect")
    /\ woken' = woken \ {d}
    /\ UNCHANGED << manager, at, dialled, left, outcome, conn, reloads, reload, shutdown >>

\* The slot section of ready(), one action per answer it gives.  Leaving it
\* for anything but a wait drops the registration.
FindRetired(d) ==
    /\ pc[d] = "inspect"
    /\ Retired(at[d])
    /\ Goto(d, "done")
    /\ woken' = woken \ {d}
    /\ UNCHANGED << manager, at, dialled, left, outcome, conn, reloads, reload, shutdown >>

FindLive(d) ==
    /\ pc[d] = "inspect"
    /\ ~Retired(at[d])
    /\ Serving(at[d])
    /\ conn' = [conn EXCEPT ![d] = slot[at[d]].by]
    /\ Goto(d, "calling")
    /\ woken' = woken \ {d}
    /\ UNCHANGED << manager, at, dialled, left, outcome, reloads, reload, shutdown >>

FindClaimed(d) ==
    /\ pc[d] = "inspect"
    /\ ~Retired(at[d])
    /\ Claimed(at[d])
    /\ Goto(d, "parking")
    /\ UNCHANGED << manager, at, dialled, left, outcome, conn, woken, reloads, reload, shutdown >>

\* The lock is released; only then does `settled.await` begin.
Park(d) ==
    /\ pc[d] = "parking"
    /\ Goto(d, "parked")
    /\ UNCHANGED << manager, at, dialled, left, outcome, conn, woken, reloads, reload, shutdown >>

Claim(d) ==
    /\ pc[d] = "inspect"
    /\ ~Retired(at[d])
    /\ ~Serving(at[d]) /\ ~Claimed(at[d])
    /\ slot' = [slot EXCEPT ![at[d]] = Connecting(d)]
    /\ live' = live \cup {d}
    /\ left' = [left EXCEPT ![d] = Rungs(at[d])]
    /\ Goto(d, "ladder")
    /\ woken' = woken \ {d}
    /\ UNCHANGED << upstreams, server, retired, dead, disowned,
                    at, dialled, outcome, conn, reloads, reload, shutdown >>

\* `settled.await` returns and the loop goes round.
Wake(d) ==
    /\ pc[d] = "parked"
    /\ d \in woken
    /\ Goto(d, "register")
    /\ woken' = woken \ {d}
    /\ UNCHANGED << manager, at, dialled, left, outcome, conn, reloads, reload, shutdown >>

-----------------------------------------------------------------------------
(* connect_with_backoff, and the landing of its outcome.                    *)

\* One rung: the dial comes back with a connection, with a failure that a
\* rung above may repair, or with one that ends the ladder where it stands (a
\* 401, or a headers_command that failed).
DialReturns(d, result) ==
    /\ outcome' = [outcome EXCEPT ![d] = result]
    /\ left' = [left EXCEPT ![d] = 0]
    /\ Goto(d, "landing")

Dial(d) ==
    /\ pc[d] = "ladder"
    /\ \/ DialReturns(d, "ok")
       \/ left[d] = 1 /\ DialReturns(d, "failed")
       \/ dialled[d] \in Rotating /\ DialReturns(d, "failed")
       \/ dialled[d] \notin Stdio /\ DialReturns(d, "auth")
       \/ /\ left[d] > 1
          /\ left' = [left EXCEPT ![d] = @ - 1]
          /\ UNCHANGED << pc, outcome >>
    /\ UNCHANGED << manager, at, dialled, conn, woken, reloads, reload, shutdown >>

\* The claim was taken away while the ladder ran.
AbandonedIfRetired(d) == Retired(at[d])  \* mutant: no look at the slot
Abandoned(d) == Retired(at[d]) \/ slot[at[d]] # Connecting(d)

\* The second slot section of ready(): install the outcome, or throw the
\* connection away.  The witness is cleared with no await after the section.
Land(d) ==
    /\ pc[d] = "landing"
    /\ LET e == at[d] IN
       \/ /\ outcome[d] = "ok" /\ ~Abandoned(d)
          /\ slot' = [slot EXCEPT ![e] = Ready(d)]
          /\ conn' = [conn EXCEPT ![d] = d]
          /\ UNCHANGED dead
       \/ /\ outcome[d] = "ok" /\ Abandoned(d)
          /\ dead' = dead \cup {d}
          /\ UNCHANGED << slot, conn >>
       \/ /\ outcome[d] # "ok" /\ ~Abandoned(d)
          /\ slot' = [slot EXCEPT ![e] = IF outcome[d] = "auth" THEN AuthRequired ELSE Failed]
          /\ UNCHANGED << dead, conn >>
       \/ /\ outcome[d] # "ok" /\ Abandoned(d)
          /\ UNCHANGED << slot, dead, conn >>
    /\ live' = live \ {d}
    /\ Goto(d, "settle")
    /\ UNCHANGED << upstreams, server, retired, disowned,
                    at, dialled, left, outcome, woken, reloads, reload, shutdown >>

\* settled.notify_waiters(), by ready() or by ConnectGuard::drop.
Settle(d) ==
    /\ pc[d] = "settle"
    /\ Wakes(at[d])
    /\ Goto(d, IF conn[d] = NoDemand THEN "done" ELSE "calling")
    /\ UNCHANGED << manager, at, dialled, left, outcome, conn, reloads, reload, shutdown >>

-----------------------------------------------------------------------------
(* UpstreamManager::call, once ready() handed a connection back.            *)

\* The server answered, if only to say no: nothing about the slot changes.
Answer(d) ==
    /\ pc[d] = "calling"
    /\ conn[d] \notin dead
    /\ Goto(d, "done")
    /\ UNCHANGED << manager, at, dialled, left, outcome, conn, woken, reloads, reload, shutdown >>

\* expects_rotation: read from the map as it is now, not as it was at lookup.
ExpectsRotation(n) ==
    upstreams[n] # NoEntry /\ server[upstreams[n]].transport \in Rotating

\* The transport failed, or answered 401; what is done about it is decided
\* from the map and from the connection's own liveness.
CallFails(d) ==
    /\ pc[d] = "calling"
    /\ \E unauthorized \in IF dialled[conn[d]] \in Stdio THEN {FALSE} ELSE BOOLEAN :
         Goto(d, IF unauthorized /\ ExpectsRotation(NameOf(at[d])) THEN "release"
                 ELSE IF conn[d] \notin dead THEN "demote"
                 ELSE "done")
    /\ UNCHANGED << manager, at, dialled, left, outcome, conn, woken, reloads, reload, shutdown >>

\* demote and release: look the name up again, and write the slot only if it
\* still holds the connection that failed.
Report(d) ==
    /\ pc[d] \in {"release", "demote"}
    /\ LET e == upstreams[NameOf(at[d])] IN
       IF e # NoEntry /\ Holds(e, conn[d])
       THEN slot' = [slot EXCEPT ![e] = IF pc[d] = "release" THEN Idle ELSE Failed]
       ELSE UNCHANGED slot
    /\ Goto(d, "done")
    /\ UNCHANGED << upstreams, server, retired, live, dead, disowned,
                    at, dialled, left, outcome, conn, woken, reloads, reload, shutdown >>

\* The downstream client hangs up and the future is dropped at an await.
HangUp(d) ==
    /\ d \in Cancellable
    /\ pc[d] \in {"inspect", "parked", "calling", "release", "demote"}
    /\ Goto(d, "done")
    /\ woken' = woken \ {d}
    /\ UNCHANGED << manager, at, dialled, left, outcome, conn, reloads, reload, shutdown >>

\* ConnectGuard::drop: the claim is revoked without the slot lock; the waiters
\* are notified in the step after it (Settle).
KeepClaim(d) == UNCHANGED live  \* mutant: no guard
Revoke(d) == live' = live \ {d}

HangUpOnLadder(d) ==
    /\ d \in Cancellable
    /\ pc[d] \in {"ladder", "landing"}
    /\ Revoke(d)
    /\ Goto(d, "settle")
    /\ UNCHANGED << upstreams, server, retired, slot, dead, disowned,
                    at, dialled, left, outcome, conn, woken, reloads, reload, shutdown >>

\* A child process exits under a connection somebody can still reach.
ChildDies(c) ==
    /\ outcome[c] = "ok" /\ dialled[c] \in Stdio /\ c \notin dead
    /\ \/ pc[c] = "landing"
       \/ \E e \in Entries : slot[e] = Ready(c)
       \/ \E d \in Demands : pc[d] \in {"settle", "calling"} /\ conn[d] = c
    /\ dead' = dead \cup {c}
    /\ UNCHANGED << upstreams, server, retired, slot, live, disowned, demand,
                    reloads, reload, shutdown >>

-----------------------------------------------------------------------------
(* UpstreamManager::apply and Upstream::retire.                             *)

SameEntry(old, new) == TRUE  \* mutant: every edit is a metadata edit
SameTransport(old, new) == old.transport = new.transport

\* What apply does with a name of the config, or with one the map has and the
\* config no longer names.
Stopped(cfg)  == {n \in Names : /\ upstreams[n] # NoEntry /\ cfg[n] # NoServer
                                /\ SameTransport(server[upstreams[n]], cfg[n])
                                /\ server[upstreams[n]].enabled /\ ~cfg[n].enabled}
Replaced(cfg) == {n \in Names : /\ upstreams[n] # NoEntry /\ cfg[n] # NoServer
                                /\ ~SameTransport(server[upstreams[n]], cfg[n])}
Added(cfg)    == {n \in Names : upstreams[n] = NoEntry /\ cfg[n] # NoServer}
Removed(cfg)  == {n \in Names : upstreams[n] # NoEntry /\ cfg[n] = NoServer}

NextEntry(cfg, n) ==
    IF cfg[n] = NoServer THEN NoEntry
    ELSE IF n \in Added(cfg) \cup Replaced(cfg) THEN << n, reloads + 1 >>
    ELSE upstreams[n]

\* The metadata stores and the map swap: each name is read through one entry,
\* so storing them together loses no order a demand could observe.
Apply(cfg) ==
    /\ reload.todo = {} /\ reload.step = "next"
    /\ reloads < MaxReloads
    /\ upstreams' = [n \in Names |-> NextEntry(cfg, n)]
    /\ server' = [e \in Entries |->
                    IF cfg[NameOf(e)] # NoServer /\ NextEntry(cfg, NameOf(e)) = e
                    THEN cfg[NameOf(e)] ELSE server[e]]
    /\ reload' = [reload EXCEPT !.todo =
                    {upstreams[n] : n \in Stopped(cfg) \cup Replaced(cfg) \cup Removed(cfg)}]
    /\ reloads' = reloads + 1
    /\ UNCHANGED << retired, slot, live, dead, disowned, demand, shutdown >>

\* retire: the flag, then the slot under its lock, then the waiters.  The
\* entries go one after another, here in any order.
RetireFlag(e) ==
    /\ reload.step = "next" /\ e \in reload.todo
    /\ retired' = retired \cup {e}
    /\ reload' = [step |-> "slot", entry |-> e, todo |-> reload.todo \ {e}]
    /\ UNCHANGED << upstreams, server, slot, live, dead, disowned, demand, reloads, shutdown >>

RetireAndCancel ==  \* mutant: closes the connection it takes out of the slot
    /\ reload.step = "slot"
    /\ slot' = [slot EXCEPT ![reload.entry] = Idle]
    /\ dead' = dead \cup {c \in Demands : slot[reload.entry] = Ready(c)}
    /\ disowned' = disowned \cup Climbing(reload.entry)
    /\ reload' = [reload EXCEPT !.step = "notify"]
    /\ UNCHANGED << upstreams, server, retired, live, demand, reloads, shutdown >>

RetireSlot ==
    /\ reload.step = "slot"
    /\ slot' = [slot EXCEPT ![reload.entry] = Idle]
    /\ disowned' = disowned \cup Climbing(reload.entry)
    /\ reload' = [reload EXCEPT !.step = "notify"]
    /\ UNCHANGED << upstreams, server, retired, live, dead, demand, reloads, shutdown >>

RetireNotify ==
    /\ reload.step = "notify"
    /\ Wakes(reload.entry)
    /\ reload' = [reload EXCEPT !.step = "next", !.entry = NoEntry]
    /\ UNCHANGED << manager, pc, at, dialled, left, outcome, conn, reloads, shutdown >>

-----------------------------------------------------------------------------
(* UpstreamManager::shutdown.                                               *)

Entered == {upstreams[n] : n \in Names} \ {NoEntry}

ShutDown ==
    /\ MayShutDown
    /\ shutdown.step = "off"
    /\ shutdown' = [step |-> "next", entry |-> NoEntry, todo |-> Entered]
    /\ UNCHANGED << manager, demand, reloads, reload >>

ShutDownSlot(e) ==
    /\ shutdown.step = "next" /\ e \in shutdown.todo
    /\ dead' = IF slot[e].state = "ready" THEN dead \cup {slot[e].by} ELSE dead
    /\ slot' = [slot EXCEPT ![e] = Idle]
    /\ disowned' = disowned \cup Climbing(e)
    /\ shutdown' = [step |-> "notify", entry |-> e, todo |-> shutdown.todo \ {e}]
    /\ UNCHANGED << upstreams, server, retired, live, demand, reloads, reload >>

ShutDownNotify ==
    /\ shutdown.step = "notify"
    /\ Wakes(shutdown.entry)
    /\ shutdown' = [shutdown EXCEPT !.step = "next", !.entry = NoEntry]
    /\ UNCHANGED << manager, pc, at, dialled, left, outcome, conn, reloads, reload >>

-----------------------------------------------------------------------------
Init ==
    /\ \E cfg \in Configs :
         /\ upstreams = [n \in Names |-> IF cfg[n] = NoServer THEN NoEntry ELSE << n, 0 >>]
         /\ server = [e \in Entries |-> IF e[2] = 0 THEN cfg[NameOf(e)] ELSE NoServer]
    /\ retired = {} /\ live = {} /\ dead = {} /\ disowned = {} /\ woken = {}
    /\ slot = [e \in Entries |-> Idle]
    /\ pc = [d \in Demands |-> "new"]
    /\ at = [d \in Demands |-> NoEntry]
    /\ dialled = [d \in Demands |-> NoServer]
    /\ left = [d \in Demands |-> 0]
    /\ outcome = [d \in Demands |-> "none"]
    /\ conn = [d \in Demands |-> NoDemand]
    /\ reloads = 0
    /\ reload = [step |-> "next", entry |-> NoEntry, todo |-> {}]
    /\ shutdown = [step |-> "off", entry |-> NoEntry, todo |-> {}]

\* What a demand's task does by itself once it is started.
Task(d) ==
    \/ Register(d)
    \/ FindRetired(d) \/ FindLive(d) \/ FindClaimed(d) \/ Claim(d)
    \/ Park(d) \/ Wake(d)
    \/ Dial(d) \/ Land(d) \/ Settle(d)
    \/ Answer(d) \/ CallFails(d) \/ Report(d)

Retire == (\E e \in Entries : RetireFlag(e)) \/ RetireSlot \/ RetireNotify
Sweep  == (\E e \in Entries : ShutDownSlot(e)) \/ ShutDownNotify

Next ==
    \/ \E d \in Demands : \/ \E n \in Names : Lookup(d, n)
                          \/ Task(d)
                          \/ HangUp(d) \/ HangUpOnLadder(d)
                          \/ ChildDies(d)
    \/ \E cfg \in Configs : Apply(cfg)
    \/ Retire
    \/ ShutDown
    \/ Sweep

Spec == Init /\ [][Next]_vars

\* The runtime polls every task that is ready, every dial is bounded by the
\* connect timeout and every request by the gateway's deadline.  Nobody has to
\* call, hang up, edit the config or shut down.
FairSpec ==
    /\ Spec
    /\ \A d \in Demands : WF_vars(Task(d))
    /\ WF_vars(Retire)
    /\ WF_vars(Sweep)

-----------------------------------------------------------------------------
(* Properties.                                                              *)

\* Type invariant: every variable holds what its declaration says.
TypeOK ==
    /\ upstreams \in [Names -> Entries \cup {NoEntry}]
    /\ server \in [Entries -> Servers \cup {NoServer}]
    /\ retired \subseteq Entries
    /\ slot \in [Entries -> Slots]
    /\ live \subseteq Demands /\ dead \subseteq Demands
    /\ disowned \subseteq Demands /\ woken \subseteq Demands
    /\ pc \in [Demands -> PCs]
    /\ at \in [Demands -> Entries \cup {NoEntry}]
    /\ dialled \in [Demands -> Transports \cup {NoServer}]
    /\ left \in [Demands -> 0 .. Attempts]
    /\ outcome \in [Demands -> Outcomes]
    /\ conn \in [Demands -> Demands \cup {NoDemand}]
    /\ reloads \in 0 .. MaxReloads
    /\ reload \in [step : {"next", "slot", "notify"},
                   entry : Entries \cup {NoEntry}, todo : SUBSET Entries]
    /\ shutdown \in [step : {"off", "next", "notify"},
                     entry : Entries \cup {NoEntry}, todo : SUBSET Entries]

\* Somebody is about to call notify_waiters on e.
WakePending(e) ==
    \/ \E d \in Demands : pc[d] = "settle" /\ at[d] = e
    \/ reload.step = "notify" /\ reload.entry = e
    \/ shutdown.step = "notify" /\ shutdown.entry = e

\* No lost wakeup: a demand parked on a ladder is already woken, or the slot
\* is still claimed by a ladder that runs, or a notify is on its way.  This is
\* what registering before the slot is read, the revocable claim and the three
\* backstop notifies of upstream.rs are for.
NoStrandedWaiter ==
    \A d \in Demands : pc[d] \in {"parking", "parked"} /\ d \notin woken =>
        \/ Claimed(at[d])
        \/ WakePending(at[d])

\* A claim that reads as live belongs to a ladder somebody is still polling on
\* that entry: a dropped future never leaves the slot Connecting for good.
NoOrphanedClaim ==
    \A e \in Entries : Claimed(e) => slot[e].by \in Climbing(e)

\* One ladder per entry, however many demands, hang-ups and reports: a second
\* one runs beside it only where a shutdown took the first one's claim away.
SingleFlight ==
    \A e \in Entries : \A c, d \in Climbing(e) \ disowned : c = d

\* A ladder whose claim was taken away never installs its connection: what a
\* shutdown or a retirement emptied stays without it.
DisownedNeverServes ==
    \A e \in Entries : slot[e].state = "ready" => slot[e].by \notin disowned

\* A retired entry holds no connection and no claim once retire got to its
\* slot: no late caller starts a child nothing owns.
RetiredHoldsNothing ==
    \A e \in retired : slot[e] = Idle \/ (reload.step = "slot" /\ reload.entry = e)

\* A connection held in a slot is reachable: through the map, or through the
\* list of entries the running apply is about to retire.
NothingRunsUnowned ==
    \A e \in Entries : slot[e].state = "ready" =>
        e \in Entered \cup reload.todo \cup {reload.entry}

\* A request made through the map goes over the transport the config has now:
\* a transport edit never leaves the old connection under the name.
ServedByConfiguredTransport ==
    \A n \in Names : LET e == upstreams[n] IN
        e # NoEntry /\ slot[e].state = "ready"
            => dialled[slot[e].by] = server[e].transport

\* Retiring releases a connection and never closes it: while nobody shuts the
\* gateway down, the connection a request is using only dies with its child.
InFlightSurvivesReload ==
    \A d \in Demands :
        pc[d] = "calling" /\ dialled[conn[d]] \notin Stdio /\ shutdown.step = "off"
            => conn[d] \notin dead

\* A connection that is not dead leaves its slot only by a retirement, by the
\* shutdown, or by the report of a request that failed through that very
\* connection: neither another demand's ladder nor a late report of an older
\* connection unseats it.
HealthyConnectionKept ==
    [][\A e \in Entries : Serving(e) /\ slot'[e] # slot[e] =>
          \/ e \in retired
          \/ shutdown.step = "next" /\ e \in shutdown.todo
          \/ \E d \in Demands : /\ pc[d] \in {"release", "demote"} /\ pc'[d] = "done"
                                /\ conn[d] = slot[e].by]_vars

\* Every demand that was started is answered: nobody waits for ever, whatever
\* hangs up, fails, reloads or shuts down around it.
Answered ==
    \A d \in Demands : pc[d] # "new" ~> pc[d] = "done"

\* book/src/gateway.md:416 says `enable` takes effect on a running gateway.
\* Once no apply is running, a name the config serves enabled can be reached.
EnabledIsServed ==
    \A n \in Names : LET e == upstreams[n] IN
        e # NoEntry /\ server[e].enabled /\ reload.step = "next" /\ reload.todo = {}
            => e \notin retired
=============================================================================
