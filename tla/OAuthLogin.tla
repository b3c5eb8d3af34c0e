------------------------------ MODULE OAuthLogin ------------------------------
(***************************************************************************)
(* The logins of http servers: auth.rs and commands/auth.rs.  Each server  *)
(* has one token file; the refreshes of any number of processes take turns *)
(* on a lock file beside it, a login and a logout take no lock.            *)
(*                                                                         *)
(* The provider gives a grant for every login, rotates the grant's refresh *)
(* token at every refresh, and revokes a grant one of whose old tokens     *)
(* comes back.  A refresh token is then the grant and its generation.      *)
(***************************************************************************)
EXTENDS Naturals, Sequences

CONSTANTS
    Servers,     \* http servers; budget.servers are those of the config
    Refreshers,  \* requests that need a token, in whatever process
    MaxRotations,\* bound on the generations of a grant
    Nothing      \* None, and a file that is not there

\* A token file, or its absence.
Logins == [grant : Nat \ {0}, generation : 1..MaxRotations, valid : BOOLEAN]
Files  == Logins \union {Nothing}

ASSUME LoginAssumption ==
    /\ MaxRotations \in Nat \ {0}
    /\ Nothing \notin Servers /\ Nothing \notin Refreshers /\ Nothing \notin Logins

VARIABLES
    tokens,    \* per server: oauth/NAME.json
    grants,    \* per server: the provider's, by the order they were given; a
               \* grant is the generation of its token, or Revoked
    locks,     \* per server: who holds the lock file
    refreshes, \* per refresher: the server, how far it is, the token in hand
    login,     \* the `auth login` under way
    identity,  \* the server whose [auth] table --client-id was written to
    lost,      \* history: a rotation was not saved, and nobody logged in since
    budget     \* what the environment may still do

loginVars == << tokens, grants, locks, refreshes, login, identity, lost, budget >>

Revoked == 0
Stored(grant, generation) == [grant |-> grant, generation |-> generation, valid |-> TRUE]
Accepted(server, stored) == grants[server][stored.grant] = stored.generation

-----------------------------------------------------------------------------
(* FileStore, as the SDK uses it.                                           *)

Idle == [at |-> "idle", server |-> Nothing, stored |-> Nothing]
free == << login, identity >>

\* The access token is nearly out: a request asks for the guard.
NeedToken(r, server) ==
    /\ refreshes[r].at = "idle" /\ budget.requests > 0
    /\ tokens[server] # Nothing /\ ~tokens[server].valid
    /\ refreshes' = [refreshes EXCEPT ![r] = [Idle EXCEPT !.at = "locking", !.server = server]]
    /\ budget' = [budget EXCEPT !.requests = @ - 1]
    /\ UNCHANGED << tokens, grants, locks, lost, free >>

\* acquire_refresh_guard.
LockAnyway(r) ==  \* mutant: the file is opened and not locked
    /\ refreshes[r].at = "locking"
    /\ locks' = [locks EXCEPT ![refreshes[r].server] = r]
Lock(r) ==
    /\ refreshes[r].at = "locking"
    /\ locks[refreshes[r].server] = Nothing
    /\ locks' = [locks EXCEPT ![refreshes[r].server] = r]
AcquireGuard(r) ==
    /\ Lock(r)
    /\ refreshes' = [refreshes EXCEPT ![r].at = "reading"]
    /\ UNCHANGED << tokens, grants, lost, budget, free >>

LetGo(r) ==
    /\ refreshes' = [refreshes EXCEPT ![r] = Idle]
    /\ locks' = [s \in Servers |-> IF locks[s] = r THEN Nothing ELSE locks[s]]

\* Under the guard the file is read again: logged out, refreshed by the holder
\* before, or to be refreshed.
ReadAgain(r) ==
    /\ refreshes[r].at = "reading"
    /\ LET stored == tokens[refreshes[r].server]
       IN IF stored = Nothing \/ (stored # Nothing /\ stored.valid) THEN LetGo(r)
          ELSE /\ refreshes' = [refreshes EXCEPT ![r].at = "exchanging", ![r].stored = stored]
               /\ UNCHANGED locks
    /\ UNCHANGED << tokens, grants, lost, budget, free >>

\* The provider rotates the token, or finds an old one and revokes the grant.
Exchange(r) ==
    /\ refreshes[r].at = "exchanging"
    /\ \E old \in {refreshes[r].stored}, s \in {refreshes[r].server} :
          IF Accepted(s, old)
          THEN /\ old.generation < MaxRotations
               /\ grants' = [grants EXCEPT ![s][old.grant] = @ + 1]
               /\ refreshes' = [refreshes EXCEPT ![r].at = "saving",
                                                 ![r].stored = Stored(old.grant, old.generation + 1)]
               /\ UNCHANGED locks
          ELSE /\ grants' = [grants EXCEPT ![s][old.grant] = Revoked]
               /\ LetGo(r)
    /\ UNCHANGED << tokens, lost, budget, free >>

SaveRotation(r) ==
    /\ refreshes[r].at = "saving"
    /\ tokens' = [tokens EXCEPT ![refreshes[r].server] = refreshes[r].stored]
    /\ LetGo(r)
    /\ UNCHANGED << grants, lost, budget, free >>

\* The process ends in the middle: a crash, a kill, the exit of an upgrade.
Die(r) ==
    /\ refreshes[r].at # "idle" /\ budget.deaths > 0
    /\ LetGo(r)
    /\ lost' = IF refreshes[r].at = "saving" THEN lost \union {refreshes[r].server} ELSE lost
    /\ budget' = [budget EXCEPT !.deaths = @ - 1]
    /\ UNCHANGED << tokens, grants, free >>

Expire(server) ==
    /\ tokens[server] # Nothing /\ tokens[server].valid /\ budget.expiries > 0
    /\ tokens' = [tokens EXCEPT ![server].valid = FALSE]
    /\ budget' = [budget EXCEPT !.expiries = @ - 1]
    /\ UNCHANGED << grants, locks, refreshes, lost, free >>

-----------------------------------------------------------------------------
(* `mcpgw auth login` and `auth logout`.                                    *)

NoLogin == [at |-> "idle", server |-> Nothing, rest |-> {}, done |-> << >>, client |-> FALSE]
kept == << locks, refreshes >>

\* A server that answers 401 with the stored login attached.
NeedsLogin(server) ==
    \/ tokens[server] = Nothing
    \/ tokens[server] # Nothing /\ ~tokens[server].valid /\ ~Accepted(server, tokens[server])

\* run_login: the server named, or every one that needs it; one at a time.
\* --client-id needs a name.
BeginLogin(names, client) ==
    /\ login.at = "idle" /\ budget.logins > 0
    /\ names # {}
    /\ \/ \E s \in budget.servers : names = {s}
       \/ ~client /\ names = {s \in budget.servers : NeedsLogin(s)}
    /\ login' = [NoLogin EXCEPT !.at = "next", !.rest = names, !.client = client]
    /\ budget' = [budget EXCEPT !.logins = @ - 1]
    /\ UNCHANGED << tokens, grants, identity, lost, kept >>

\* login_one: the listener, discovery and registration, which may fail.
NextServer ==
    /\ login.at = "next" /\ login.rest # {}
    /\ \E s \in login.rest, at \in {"waiting", "next"} :
          login' = [login EXCEPT !.at = at, !.server = s, !.rest = @ \ {s}]
    /\ UNCHANGED << tokens, grants, identity, lost, budget, kept >>

\* wait_for_callback.  The deadline is on the accept alone: a connection that
\* says nothing is read from for as long as it stays open.
Callbacks == {"elsewhere", "silent", "closed", "refused", "code"}
Landing(callback) ==
    CASE callback \in {"elsewhere", "closed"} -> "waiting"
      [] callback = "silent"  -> "reading"
      [] callback = "refused" -> "next"
      [] callback = "code"    -> "exchanging"
Connection(callback) ==
    /\ IF callback = "closed" THEN login.at = "reading" ELSE login.at = "waiting"
    /\ callback \in {"elsewhere", "silent"} => budget.strays > 0
    /\ login' = [login EXCEPT !.at = Landing(callback)]
    /\ budget' = IF callback \in {"elsewhere", "silent"} THEN [budget EXCEPT !.strays = @ - 1] ELSE budget
    /\ UNCHANGED << tokens, grants, identity, lost, kept >>
Deadline ==
    /\ login.at = "waiting"
    /\ login' = [login EXCEPT !.at = "next"]
    /\ UNCHANGED << tokens, grants, identity, lost, budget, kept >>

\* handle_callback_url: the code for a grant, or a refusal after the page has
\* already said "Logged in".
RedeemCode(accepted) ==
    /\ login.at = "exchanging"
    /\ grants' = IF accepted THEN [grants EXCEPT ![login.server] = Append(@, 1)] ELSE grants
    /\ login' = [login EXCEPT !.at = IF accepted THEN "saving" ELSE "next"]
    /\ UNCHANGED << tokens, identity, lost, budget, kept >>
SaveLogin ==
    /\ login.at = "saving"
    /\ tokens' = [tokens EXCEPT ![login.server] = Stored(Len(grants[login.server]), 1)]
    /\ lost' = lost \ {login.server}
    /\ login' = [login EXCEPT !.at = "next", !.done = Append(@, login.server)]
    /\ UNCHANGED << grants, identity, budget, kept >>
\* The identity is written down for a login that worked.
EndLogin ==
    /\ login.at = "next" /\ login.rest = {}
    /\ identity' = IF login.client /\ login.done # << >> THEN Head(login.done) ELSE identity
    /\ login' = NoLogin
    /\ UNCHANGED << tokens, grants, lost, budget, kept >>

Logout(server) ==
    /\ budget.logouts > 0 /\ tokens[server] # Nothing
    /\ tokens' = [tokens EXCEPT ![server] = Nothing]
    /\ budget' = [budget EXCEPT !.logouts = @ - 1]
    /\ UNCHANGED << grants, lost, login, identity, kept >>

RefreshSteps(r) ==
    \/ \E s \in Servers : NeedToken(r, s)
    \/ AcquireGuard(r) \/ ReadAgain(r) \/ Exchange(r) \/ SaveRotation(r) \/ Die(r)
LoginSteps ==
    \/ \E names \in SUBSET Servers, client \in BOOLEAN : BeginLogin(names, client)
    \/ NextServer \/ Deadline \/ SaveLogin \/ EndLogin
    \/ \E callback \in Callbacks : Connection(callback)
    \/ \E accepted \in BOOLEAN : RedeemCode(accepted)
    \/ \E s \in Servers : Logout(s)
LoginNext == (\E r \in Refreshers : RefreshSteps(r)) \/ LoginSteps \/ \E s \in Servers : Expire(s)

LoginInit(budgets) ==
    /\ tokens = [s \in Servers |-> Nothing] /\ grants = [s \in Servers |-> << >>]
    /\ locks = [s \in Servers |-> Nothing]
    /\ refreshes = [r \in Refreshers |-> Idle]
    /\ login = NoLogin /\ identity = Nothing /\ lost = {}
    /\ budget \in budgets

-----------------------------------------------------------------------------
LoginTypeOK ==
    /\ \A s \in Servers :
          /\ tokens[s] \in Files /\ grants[s] \in Seq(0..MaxRotations)
          /\ tokens[s] # Nothing => tokens[s].grant \in DOMAIN grants[s]
          /\ locks[s] \in Refreshers \union {Nothing}
    /\ \A r \in Refreshers :
          /\ refreshes[r].at \in {"idle", "locking", "reading", "exchanging", "saving"}
          /\ refreshes[r].stored \in Files
    /\ login.at \in {"idle", "next", "waiting", "reading", "exchanging", "saving"}
    /\ login.rest \subseteq Servers /\ identity \in Servers \union {Nothing} /\ lost \subseteq Servers

\* The login on disk is one the provider still accepts, whoever refreshed it and
\* whoever logged in or out meanwhile, but for the time between a rotation and
\* its save and for a process that ended in that time (FileStore, auth.rs).
LoginKept ==
    \A s \in Servers :
        \/ tokens[s] = Nothing \/ s \in lost
        \/ \E r \in Refreshers : refreshes[r].server = s /\ refreshes[r].at = "saving"
        \/ Accepted(s, tokens[s])
=============================================================================
