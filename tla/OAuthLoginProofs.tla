--------------------------- MODULE OAuthLoginProofs ---------------------------
(* The logins of an install are kept, for any number of servers, of processes *)
(* that refresh them and of rotations: proofs about OAuthLogin, as Install   *)
(* composes it with the processes around the port.                           *)
EXTENDS Install, SequenceTheorems, TLAPS

RefreshPlaces == {"idle", "locking", "reading", "exchanging", "saving"}
LoginPlaces   == {"idle", "next", "waiting", "reading", "exchanging", "saving"}
Inside        == {"reading", "exchanging", "saving"}
InHand        == {"exchanging", "saving"}

Refreshes == [at : RefreshPlaces, server : Servers \union {Nothing}, stored : Files]
LoginRuns == [at : LoginPlaces, server : Servers \union {Nothing}, rest : SUBSET Servers,
              done : Seq(Servers), client : BOOLEAN]

\* LoginTypeOK, with the variables as the functions and records they are.
LoginTypes ==
    /\ tokens \in [Servers -> Files]
    /\ grants \in [Servers -> Seq(0..MaxRotations)]
    /\ locks \in [Servers -> Refreshers \union {Nothing}]
    /\ refreshes \in [Refreshers -> Refreshes]
    /\ login \in LoginRuns
    /\ identity \in Servers \union {Nothing}
    /\ lost \subseteq Servers

\* Who got past the guard holds the lock file, so that no two are past it.
GuardIsHeld ==
    \A r \in Refreshers :
        /\ refreshes[r].at # "idle" => refreshes[r].server \in Servers
        /\ refreshes[r].at \in Inside => locks[refreshes[r].server] = r

\* What is on disk or in hand is a token of a grant the provider gave.
GrantsAreGiven ==
    /\ \A s \in Servers : tokens[s] # Nothing => tokens[s].grant \in DOMAIN grants[s]
    /\ \A r \in Refreshers : refreshes[r].at \in InHand =>
          refreshes[r].stored # Nothing /\ refreshes[r].stored.grant \in DOMAIN grants[refreshes[r].server]

\* The token to be exchanged is the one of its grant on disk; the one to be
\* saved is the one the provider accepts.
HandIsCurrent ==
    \A r \in Refreshers : LET s == refreshes[r].server  hand == refreshes[r].stored IN
        /\ refreshes[r].at = "exchanging" /\ tokens[s] # Nothing /\ tokens[s].grant = hand.grant
              => tokens[s].generation = hand.generation
        /\ refreshes[r].at = "saving" => Accepted(s, hand)

\* A grant a login was just given is in nobody's hands before the login saves it.
NewGrantIsUnused ==
    /\ login.at \in {"waiting", "reading", "exchanging", "saving"} => login.server \in Servers
    /\ login.at = "saving" =>
          LET s == login.server  n == Len(grants[login.server]) IN
          /\ n \in DOMAIN grants[s] /\ grants[s][n] = 1
          /\ tokens[s] # Nothing => tokens[s].grant # n
          /\ \A r \in Refreshers :
                refreshes[r].at \in InHand /\ refreshes[r].server = s => refreshes[r].stored.grant # n

LoginInv == LoginTypes /\ GuardIsHeld /\ GrantsAreGiven /\ HandIsCurrent /\ NewGrantIsUnused /\ LoginKept

-----------------------------------------------------------------------------
\* A step of the install is one of a refresh, of a login, or of neither.
LEMMA LoginActions ==
    [Next]_vars =>
        \/ \E r \in Refreshers : \/ \E s \in Servers : NeedToken(r, s)
                                 \/ AcquireGuard(r) \/ ReadAgain(r) \/ Exchange(r)
                                 \/ SaveRotation(r) \/ Die(r)
        \/ \E s \in Servers : Expire(s) \/ Logout(s)
        \/ \E names \in SUBSET Servers, client \in BOOLEAN : BeginLogin(names, client)
        \/ NextServer \/ Deadline \/ SaveLogin \/ EndLogin
        \/ \E callback \in Callbacks : Connection(callback)
        \/ \E accepted \in BOOLEAN : RedeemCode(accepted)
        \/ UNCHANGED loginVars
  BY DEF Next, vars, LoginNext, RefreshSteps, LoginSteps

-----------------------------------------------------------------------------
(* Types.                                                                   *)

\* What becomes of a token file is a token file.
LEMMA TokenFiles ==
    /\ Nothing \in Files
    /\ \A f \in Files : f # Nothing => f \in Logins
    /\ \A f \in Logins : /\ f \in Files /\ f # Nothing /\ [f EXCEPT !.valid = FALSE] \in Logins
                         /\ f.grant \in Nat \ {0} /\ f.generation \in 1..MaxRotations
    /\ \A g \in Nat \ {0}, n \in 1..MaxRotations :
          Stored(g, n) \in Logins /\ Stored(g, n).grant = g /\ Stored(g, n).generation = n
  <1>1. \A f \in Logins : f \in Files /\ f # Nothing
    BY LoginAssumption DEF Files
  <1>2. ASSUME NEW f \in Logins
        PROVE  /\ [f EXCEPT !.valid = FALSE] \in Logins
               /\ f.grant \in Nat \ {0} /\ f.generation \in 1..MaxRotations
    BY DEF Logins
  <1>3. ASSUME NEW g \in Nat \ {0}, NEW n \in 1..MaxRotations
        PROVE  Stored(g, n) \in Logins /\ Stored(g, n).grant = g /\ Stored(g, n).generation = n
    BY DEF Logins, Stored
  <1>4. Nothing \in Files /\ \A f \in Files : f # Nothing => f \in Logins
    BY DEF Files
  <1>5. QED
    BY <1>1, <1>2, <1>3, <1>4, Zenon

\* A grant goes from one generation to the next, or is revoked.
LEMMA GrantSequences ==
    ASSUME NEW q \in Seq(0..MaxRotations), NEW g \in DOMAIN q, NEW n \in 0..MaxRotations
    PROVE  /\ [q EXCEPT ![g] = n] \in Seq(0..MaxRotations)
           /\ Len([q EXCEPT ![g] = n]) = Len(q)
           /\ DOMAIN [q EXCEPT ![g] = n] = DOMAIN q
  <1>1. g \in 1..Len(q)
    BY LenProperties
  <1>2. QED
    BY <1>1, LenProperties, ExceptSeq

LEMMA NewGrant ==
    ASSUME NEW q \in Seq(0..MaxRotations)
    PROVE  /\ Append(q, 1) \in Seq(0..MaxRotations)
           /\ Len(Append(q, 1)) = Len(q) + 1 /\ Len(q) \in Nat
           /\ DOMAIN q = 1..Len(q) /\ DOMAIN Append(q, 1) = 1..(Len(q) + 1)
           /\ \A g \in DOMAIN q : Append(q, 1)[g] = q[g]
           /\ Append(q, 1)[Len(q) + 1] = 1
  <1>1. 1 \in 0..MaxRotations
    BY LoginAssumption
  <1>2. DOMAIN q = 1..Len(q) /\ Len(q) \in Nat
    BY LenProperties
  <1>3. /\ Append(q, 1) \in Seq(0..MaxRotations) /\ Len(Append(q, 1)) = Len(q) + 1
        /\ \A g \in 1..Len(q) : Append(q, 1)[g] = q[g]
        /\ Append(q, 1)[Len(q) + 1] = 1
    BY <1>1, AppendProperties
  <1>4. DOMAIN Append(q, 1) = 1..(Len(q) + 1)
    BY <1>3, LenProperties
  <1>5. QED
    BY <1>2, <1>3, <1>4

\* Letting go of the guard leaves whoever does it idle, and its lock free.
LEMMA LetGoTypes ==
    ASSUME LoginTypes, NEW r \in Refreshers, LetGo(r)
    PROVE  /\ refreshes' \in [Refreshers -> Refreshes]
           /\ locks' \in [Servers -> Refreshers \union {Nothing}]
           /\ refreshes'[r] = Idle
           /\ \A q \in Refreshers \ {r} : refreshes'[q] = refreshes[q]
           /\ \A s \in Servers : locks'[s] = IF locks[s] = r THEN Nothing ELSE locks[s]
  <1>1. Idle \in Refreshes
    BY TokenFiles DEF Idle, Refreshes, RefreshPlaces
  <1>2. QED
    BY <1>1 DEF LoginTypes, LetGo

-----------------------------------------------------------------------------
(* What the two steps with a choice in them do.                             *)

LEMMA ReadAgainDoes ==
    ASSUME LoginInv, NEW r \in Refreshers, ReadAgain(r)
    PROVE  /\ refreshes[r].at = "reading" /\ refreshes[r].server \in Servers
           /\ locks[refreshes[r].server] = r
           /\ UNCHANGED << tokens, grants, lost, login, identity >>
           /\ \/ LetGo(r)
              \/ /\ tokens[refreshes[r].server] \in Logins
                 /\ refreshes' = [refreshes EXCEPT ![r].at = "exchanging",
                                                   ![r].stored = tokens[refreshes[r].server]]
                 /\ UNCHANGED locks
  <1>1. refreshes[r].at = "reading"
    BY DEF ReadAgain
  <1>2. refreshes[r].server \in Servers /\ locks[refreshes[r].server] = r
    BY <1>1 DEF LoginInv, GuardIsHeld, Inside
  <1>3. tokens[refreshes[r].server] \in Files
    BY <1>2 DEF LoginInv, LoginTypes
  <1>4. QED
    BY <1>1, <1>2, <1>3, TokenFiles DEF ReadAgain, free

LEMMA ExchangeDoes ==
    ASSUME LoginInv, NEW r \in Refreshers, Exchange(r)
    PROVE  LET s == refreshes[r].server  old == refreshes[r].stored IN
           /\ refreshes[r].at = "exchanging" /\ s \in Servers /\ locks[s] = r
           /\ old \in Logins /\ old.grant \in DOMAIN grants[s]
           /\ UNCHANGED << tokens, lost, login, identity >>
           /\ \/ /\ Accepted(s, old)
                 /\ old.generation + 1 \in 1..MaxRotations
                 /\ grants' = [grants EXCEPT ![s][old.grant] = old.generation + 1]
                 /\ refreshes' = [refreshes EXCEPT ![r].at = "saving",
                                                   ![r].stored = Stored(old.grant, old.generation + 1)]
                 /\ UNCHANGED locks
              \/ /\ ~Accepted(s, old)
                 /\ grants' = [grants EXCEPT ![s][old.grant] = Revoked]
                 /\ LetGo(r)
  <1> DEFINE s == refreshes[r].server  old == refreshes[r].stored
  <1>1. refreshes[r].at = "exchanging"
    BY DEF Exchange
  <1>2. s \in Servers /\ locks[s] = r
    BY <1>1 DEF LoginInv, GuardIsHeld, Inside
  <1>3. old \in Files /\ old # Nothing /\ old.grant \in DOMAIN grants[s]
    BY <1>1 DEF LoginInv, LoginTypes, Refreshes, GrantsAreGiven, InHand
  <1>4. old \in Logins /\ old.generation \in 1..MaxRotations
    BY <1>3, TokenFiles
  <1>5. CASE Accepted(s, old)
    <2>1. grants[s][old.grant] = old.generation
      BY <1>5 DEF Accepted
    <2>2. /\ old.generation < MaxRotations
          /\ grants' = [grants EXCEPT ![s][old.grant] = @ + 1]
          /\ refreshes' = [refreshes EXCEPT ![r].at = "saving",
                                            ![r].stored = Stored(old.grant, old.generation + 1)]
          /\ UNCHANGED << locks, tokens, lost, login, identity >>
      BY <1>5 DEF Exchange, free
    <2>3. old.generation + 1 \in 1..MaxRotations
      BY <2>2, <1>4, LoginAssumption
    <2>4. grants' = [grants EXCEPT ![s][old.grant] = old.generation + 1]
      BY <2>1, <2>2
    <2>5. QED
      BY <1>1, <1>2, <1>3, <1>4, <1>5, <2>2, <2>3, <2>4
  <1>6. CASE ~Accepted(s, old)
    <2>1. /\ grants' = [grants EXCEPT ![s][old.grant] = Revoked]
          /\ LetGo(r)
          /\ UNCHANGED << tokens, lost, login, identity >>
      BY <1>6 DEF Exchange, free
    <2>2. QED
      BY <1>1, <1>2, <1>3, <1>4, <1>6, <2>1
  <1>7. QED
    BY <1>5, <1>6

LEMMA NextLoginTypes == LoginInv /\ [Next]_vars => LoginTypes'
  <1> SUFFICES ASSUME LoginInv, [Next]_vars PROVE LoginTypes'
    OBVIOUS
  <1> USE DEF LoginInv, LoginTypes, free, kept
  <1>1. ASSUME NEW r \in Refreshers, NEW s \in Servers, NeedToken(r, s) PROVE LoginTypes'
    BY <1>1, TokenFiles DEF NeedToken, Idle, Refreshes, RefreshPlaces
  <1>2. ASSUME NEW r \in Refreshers, AcquireGuard(r) PROVE LoginTypes'
    BY <1>2 DEF AcquireGuard, Lock, Refreshes, RefreshPlaces
  <1>3. ASSUME NEW r \in Refreshers, ReadAgain(r) PROVE LoginTypes'
    <2> DEFINE s == refreshes[r].server
    <2>1. s \in Servers /\ UNCHANGED << tokens, grants, lost, login, identity >>
      BY <1>3, ReadAgainDoes
    <2>2. CASE LetGo(r)
      BY <2>1, <2>2, LetGoTypes
    <2>3. CASE ~LetGo(r)
      <3>1. /\ refreshes' = [refreshes EXCEPT ![r].at = "exchanging", ![r].stored = tokens[s]]
            /\ UNCHANGED locks
        BY <1>3, <2>3, ReadAgainDoes
      <3>2. tokens[s] \in Files
        BY <2>1
      <3>3. refreshes' \in [Refreshers -> Refreshes]
        BY <3>1, <3>2 DEF Refreshes, RefreshPlaces
      <3>4. QED
        BY <2>1, <3>1, <3>3
    <2>4. QED
      BY <2>2, <2>3
  <1>4. ASSUME NEW r \in Refreshers, Exchange(r) PROVE LoginTypes'
    <2> DEFINE s == refreshes[r].server  old == refreshes[r].stored
    <2>1. s \in Servers /\ old \in Logins /\ old.grant \in DOMAIN grants[s]
      BY <1>4, ExchangeDoes
    <2>2. CASE Accepted(s, old)
      <3>1. /\ old.generation + 1 \in 1..MaxRotations
            /\ grants' = [grants EXCEPT ![s][old.grant] = old.generation + 1]
            /\ refreshes' = [refreshes EXCEPT ![r].at = "saving",
                                              ![r].stored = Stored(old.grant, old.generation + 1)]
            /\ UNCHANGED << tokens, locks, lost, login, identity >>
        BY <1>4, <2>2, ExchangeDoes
      <3>2. Stored(old.grant, old.generation + 1) \in Files
        BY <2>1, <3>1, TokenFiles
      <3>3. [grants[s] EXCEPT ![old.grant] = old.generation + 1] \in Seq(0..MaxRotations)
        BY <2>1, <3>1, GrantSequences
      <3>4. grants' \in [Servers -> Seq(0..MaxRotations)]
        BY <3>1, <3>3
      <3>5. refreshes' \in [Refreshers -> Refreshes]
        BY <3>1, <3>2 DEF Refreshes, RefreshPlaces
      <3>6. QED
        BY <3>1, <3>4, <3>5
    <2>3. CASE ~Accepted(s, old)
      <3>1. grants' = [grants EXCEPT ![s][old.grant] = 0]
        BY <1>4, <2>3, ExchangeDoes DEF Revoked
      <3>2. 0 \in 0..MaxRotations
        BY LoginAssumption
      <3>3. [grants[s] EXCEPT ![old.grant] = 0] \in Seq(0..MaxRotations)
        BY <2>1, <3>2, GrantSequences
      <3>4. grants' \in [Servers -> Seq(0..MaxRotations)]
        BY <3>1, <3>3
      <3>5. LetGo(r) /\ UNCHANGED << tokens, lost, login, identity >>
        BY <1>4, <2>3, ExchangeDoes
      <3>6. QED
        BY <3>4, <3>5, LetGoTypes
    <2>4. QED
      BY <2>2, <2>3
  <1>5. ASSUME NEW r \in Refreshers, SaveRotation(r) PROVE LoginTypes'
    BY <1>5, LetGoTypes DEF SaveRotation, Refreshes
  <1>6. ASSUME NEW r \in Refreshers, Die(r) PROVE LoginTypes'
    BY <1>6, LetGoTypes DEF Die, GuardIsHeld
  <1>7. ASSUME NEW s \in Servers, Expire(s) PROVE LoginTypes'
    BY <1>7, TokenFiles DEF Expire
  <1>8. ASSUME NEW names \in SUBSET Servers, NEW client \in BOOLEAN, BeginLogin(names, client)
        PROVE  LoginTypes'
    <2>1. login' \in LoginRuns
      BY <1>8, EmptySeq DEF BeginLogin, NoLogin, LoginRuns, LoginPlaces
    <2>2. QED
      BY <1>8, <2>1 DEF BeginLogin
  <1>9. CASE NextServer
    <2>1. PICK s \in login.rest, at \in {"waiting", "next"} :
            login' = [login EXCEPT !.at = at, !.server = s, !.rest = @ \ {s}]
      BY <1>9 DEF NextServer
    <2>2. login' \in LoginRuns
      BY <2>1 DEF LoginRuns, LoginPlaces
    <2>3. QED
      BY <1>9, <2>2 DEF NextServer
  <1>10. ASSUME NEW callback \in Callbacks, Connection(callback) PROVE LoginTypes'
    <2>1. Landing(callback) \in LoginPlaces
      BY DEF Landing, Callbacks, LoginPlaces
    <2>2. QED
      BY <1>10, <2>1 DEF Connection, LoginRuns
  <1>11. CASE Deadline
    BY <1>11 DEF Deadline, LoginRuns, LoginPlaces
  <1>12. ASSUME NEW accepted \in BOOLEAN, RedeemCode(accepted) PROVE LoginTypes'
    <2>1. login.server \in Servers
      BY <1>12 DEF RedeemCode, NewGrantIsUnused
    <2>2. Append(grants[login.server], 1) \in Seq(0..MaxRotations)
      BY <2>1, NewGrant
    <2>3. QED
      BY <1>12, <2>1, <2>2 DEF RedeemCode, LoginRuns, LoginPlaces
  <1>13. CASE SaveLogin
    <2>1. login.server \in Servers /\ Len(grants[login.server]) \in Nat \ {0}
      BY <1>13, LenProperties DEF SaveLogin, NewGrantIsUnused
    <2>2. 1 \in 1..MaxRotations
      BY LoginAssumption
    <2>3. Stored(Len(grants[login.server]), 1) \in Files
      BY <2>1, <2>2, TokenFiles
    <2>4. login' \in LoginRuns
      BY <1>13, <2>1, AppendProperties DEF SaveLogin, LoginRuns, LoginPlaces
    <2>5. QED
      BY <1>13, <2>1, <2>3, <2>4 DEF SaveLogin
  <1>14. CASE EndLogin
    <2>1. NoLogin \in LoginRuns
      BY EmptySeq DEF NoLogin, LoginRuns, LoginPlaces
    <2>2. identity' \in Servers \union {Nothing}
      BY <1>14, HeadTailProperties DEF EndLogin, LoginRuns
    <2>3. QED
      BY <1>14, <2>1, <2>2 DEF EndLogin
  <1>15. ASSUME NEW s \in Servers, Logout(s) PROVE LoginTypes'
    BY <1>15, TokenFiles DEF Logout
  <1>16. CASE UNCHANGED loginVars
    BY <1>16 DEF loginVars
  <1>17. QED
    BY <1>1, <1>2, <1>3, <1>4, <1>5, <1>6, <1>7, <1>8, <1>9, <1>10, <1>11, <1>12, <1>13, <1>14,
       <1>15, <1>16, LoginActions

-----------------------------------------------------------------------------
(* The guard.                                                               *)

LEMMA LetGoKeepsGuard ==
    ASSUME LoginInv, NEW r \in Refreshers, LetGo(r) PROVE GuardIsHeld'
  <1>1. /\ refreshes'[r] = Idle
        /\ \A q \in Refreshers \ {r} : refreshes'[q] = refreshes[q]
        /\ \A s \in Servers : locks'[s] = IF locks[s] = r THEN Nothing ELSE locks[s]
    BY LetGoTypes DEF LoginInv
  <1>2. QED
    BY <1>1 DEF LoginInv, GuardIsHeld, Inside, Idle

LEMMA NextGuardIsHeld == LoginInv /\ [Next]_vars => GuardIsHeld'
  <1> SUFFICES ASSUME LoginInv, [Next]_vars PROVE GuardIsHeld'
    OBVIOUS
  <1>1. ASSUME NEW r \in Refreshers, NEW s \in Servers, NeedToken(r, s) PROVE GuardIsHeld'
    BY <1>1 DEF NeedToken, LoginInv, LoginTypes, GuardIsHeld, Inside
  <1>2. ASSUME NEW r \in Refreshers, AcquireGuard(r) PROVE GuardIsHeld'
    <2> DEFINE s == refreshes[r].server
    <2>1. /\ refreshes[r].at = "locking" /\ locks[s] = Nothing
          /\ locks' = [locks EXCEPT ![s] = r]
          /\ refreshes' = [refreshes EXCEPT ![r].at = "reading"]
      BY <1>2 DEF AcquireGuard, Lock
    <2>2. s \in Servers
      BY <2>1 DEF LoginInv, GuardIsHeld
    <2>3. \A q \in Refreshers : refreshes[q].at \in Inside => refreshes[q].server # s
      BY <2>1, LoginAssumption DEF LoginInv, GuardIsHeld
    <2>4. QED
      BY <2>1, <2>2, <2>3 DEF LoginInv, LoginTypes, Refreshes, GuardIsHeld, Inside
  <1>3. ASSUME NEW r \in Refreshers, ReadAgain(r) PROVE GuardIsHeld'
    <2>1. CASE LetGo(r)
      BY <2>1, LetGoKeepsGuard
    <2>2. CASE ~LetGo(r)
      <3>1. /\ refreshes' = [refreshes EXCEPT ![r].at = "exchanging",
                                              ![r].stored = tokens[refreshes[r].server]]
            /\ refreshes[r].at = "reading" /\ UNCHANGED locks
        BY <1>3, <2>2, ReadAgainDoes
      <3>2. QED
        BY <3>1 DEF LoginInv, LoginTypes, Refreshes, GuardIsHeld, Inside
    <2>3. QED
      BY <2>1, <2>2
  <1>4. ASSUME NEW r \in Refreshers, Exchange(r) PROVE GuardIsHeld'
    <2>1. CASE LetGo(r)
      BY <2>1, LetGoKeepsGuard
    <2>2. CASE ~LetGo(r)
      <3> DEFINE old == refreshes[r].stored
      <3>1. /\ refreshes' = [refreshes EXCEPT ![r].at = "saving",
                                              ![r].stored = Stored(old.grant, old.generation + 1)]
            /\ refreshes[r].at = "exchanging" /\ UNCHANGED locks
        BY <1>4, <2>2, ExchangeDoes
      <3>2. QED
        BY <3>1 DEF LoginInv, LoginTypes, Refreshes, GuardIsHeld, Inside
    <2>3. QED
      BY <2>1, <2>2
  <1>5. ASSUME NEW r \in Refreshers, SaveRotation(r) \/ Die(r) PROVE GuardIsHeld'
    BY <1>5, LetGoKeepsGuard DEF SaveRotation, Die
  <1>6. CASE UNCHANGED << locks, refreshes >>
    BY <1>6 DEF LoginInv, GuardIsHeld
  <1>7. QED
    BY <1>1, <1>2, <1>3, <1>4, <1>5, <1>6, LoginActions
    DEF Expire, BeginLogin, NextServer, Connection, Deadline, RedeemCode, SaveLogin, EndLogin, Logout,
        kept, loginVars

-----------------------------------------------------------------------------
(* The grants.                                                              *)

\* A grant is never taken back, and its token changes only by an exchange.
LEMMA GrantsGrow ==
    ASSUME LoginInv, [Next]_vars, NEW s \in Servers
    PROVE  /\ DOMAIN grants[s] \subseteq DOMAIN grants'[s]
           /\ \A g \in DOMAIN grants[s] :
                 \/ grants'[s][g] = grants[s][g]
                 \/ \E r \in Refreshers : /\ Exchange(r) /\ refreshes[r].server = s
                                          /\ refreshes[r].stored.grant = g
           /\ UNCHANGED login => Len(grants'[s]) = Len(grants[s])
  <1>1. ASSUME NEW r \in Refreshers, Exchange(r)
        PROVE  /\ DOMAIN grants'[s] = DOMAIN grants[s]
               /\ \A g \in DOMAIN grants[s] :
                     \/ grants'[s][g] = grants[s][g]
                     \/ refreshes[r].server = s /\ refreshes[r].stored.grant = g
               /\ Len(grants'[s]) = Len(grants[s])
    <2> DEFINE u == refreshes[r].server  g == refreshes[r].stored.grant
    <2>1. g \in DOMAIN grants[u]
      BY <1>1, ExchangeDoes
    <2>2. PICK n \in 0..MaxRotations : grants' = [grants EXCEPT ![u][g] = n]
      <3>1. Revoked \in 0..MaxRotations /\ 1..MaxRotations \subseteq 0..MaxRotations
        BY LoginAssumption DEF Revoked
      <3>2. \E n : n \in 0..MaxRotations /\ grants' = [grants EXCEPT ![u][g] = n]
        BY <1>1, <3>1, ExchangeDoes
      <3>3. QED
        BY <3>2
    <2>3. grants'[s] = (IF s = u THEN [grants[s] EXCEPT ![g] = n] ELSE grants[s]) /\ grants[s] \in Seq(0..MaxRotations)
      BY <2>2 DEF LoginInv, LoginTypes
    <2>4. Len(grants'[s]) = Len(grants[s])
      BY <2>1, <2>3, GrantSequences
    <2>5. QED
      BY <2>3, <2>4
  <1>2. ASSUME NEW accepted \in BOOLEAN, RedeemCode(accepted)
        PROVE  /\ DOMAIN grants[s] \subseteq DOMAIN grants'[s]
               /\ \A g \in DOMAIN grants[s] : grants'[s][g] = grants[s][g]
               /\ login' # login
    <2>1. grants[s] \in Seq(0..MaxRotations) /\ login.server \in Servers
      BY <1>2 DEF RedeemCode, LoginInv, LoginTypes, NewGrantIsUnused
    <2>2. grants'[s] = grants[s] \/ grants'[s] = Append(grants[s], 1)
      BY <1>2, <2>1 DEF RedeemCode, LoginInv, LoginTypes
    <2>3. login'.at # login.at
      BY <1>2 DEF RedeemCode, LoginInv, LoginTypes, LoginRuns
    <2>4. login' # login
      BY <2>3
    <2>5. QED
      BY <2>1, <2>2, <2>4, NewGrant
  <1>3. CASE UNCHANGED grants
    BY <1>3
  <1>4. QED
    BY <1>1, <1>2, <1>3, LoginActions
    DEF NeedToken, AcquireGuard, ReadAgain, SaveRotation, Die, Expire, BeginLogin, NextServer, Connection,
        Deadline, SaveLogin, EndLogin, Logout, loginVars

\* What a step may make of a token file.
LEMMA TokensMove ==
    ASSUME LoginInv, [Next]_vars, NEW s \in Servers
    PROVE  \/ tokens'[s] = tokens[s]
           \/ tokens'[s] = Nothing
           \/ /\ tokens[s] # Nothing /\ UNCHANGED << grants, refreshes, lost >>
              /\ tokens'[s].grant = tokens[s].grant /\ tokens'[s].generation = tokens[s].generation
           \/ /\ UNCHANGED << grants, lost >>
              /\ \E r \in Refreshers : /\ refreshes[r].at = "saving" /\ refreshes[r].server = s
                                       /\ tokens'[s] = refreshes[r].stored
           \/ /\ login.at = "saving" /\ login.server = s /\ login' # login
              /\ UNCHANGED << grants, refreshes >>
              /\ tokens'[s] = Stored(Len(grants[s]), 1)
  <1> USE DEF LoginInv, LoginTypes
  <1>1. ASSUME NEW r \in Refreshers, SaveRotation(r)
        PROVE  \/ tokens'[s] = tokens[s]
               \/ /\ refreshes[r].at = "saving" /\ refreshes[r].server = s
                  /\ tokens'[s] = refreshes[r].stored /\ UNCHANGED << grants, lost >>
    BY <1>1 DEF SaveRotation
  <1>2. ASSUME NEW u \in Servers, Expire(u)
        PROVE  \/ tokens'[s] = tokens[s]
               \/ /\ tokens[s] # Nothing /\ UNCHANGED << grants, refreshes, lost >>
                  /\ tokens'[s].grant = tokens[s].grant /\ tokens'[s].generation = tokens[s].generation
    <2>1. tokens[u] \in Logins
      BY <1>2, TokenFiles DEF Expire
    <2>2. QED
      BY <1>2, <2>1 DEF Expire, Logins
  <1>3. CASE SaveLogin
    <2>1. login'.at = "next" /\ login.at = "saving"
      BY <1>3 DEF SaveLogin, LoginRuns
    <2>2. login' # login
      BY <2>1
    <2>3. QED
      BY <1>3, <2>1, <2>2 DEF SaveLogin, kept
  <1>4. ASSUME NEW u \in Servers, Logout(u) PROVE tokens'[s] = tokens[s] \/ tokens'[s] = Nothing
    BY <1>4 DEF Logout
  <1>5. CASE UNCHANGED tokens
    BY <1>5
  <1>6. QED
    BY <1>1, <1>2, <1>3, <1>4, <1>5, LoginActions
    DEF NeedToken, AcquireGuard, ReadAgain, Exchange, Die, BeginLogin, NextServer, Connection, Deadline,
        RedeemCode, EndLogin, loginVars

\* How a refresher comes by the token in its hand.
LEMMA HandsMove ==
    ASSUME LoginInv, [Next]_vars, NEW r \in Refreshers
    PROVE  LET s == refreshes[r].server  old == refreshes[r].stored  now == refreshes'[r] IN
           \/ now.at \notin InHand
           \/ now = refreshes[r]
           \/ /\ now.at = "exchanging" /\ now.server = s /\ now.stored = tokens[s]
              /\ s \in Servers /\ tokens[s] \in Logins /\ UNCHANGED << tokens, grants, login >>
           \/ /\ now.at = "saving" /\ now.server = s /\ now.stored = Stored(old.grant, old.generation + 1)
              /\ refreshes[r].at = "exchanging" /\ UNCHANGED << tokens, login >>
              /\ old.generation + 1 \in 1..MaxRotations
              /\ grants' = [grants EXCEPT ![s][old.grant] = old.generation + 1]
  <1> USE DEF LoginInv, LoginTypes
  <1> DEFINE s == refreshes[r].server  old == refreshes[r].stored  now == refreshes'[r]
  <1>1. ASSUME NEW q \in Refreshers, NEW u \in Servers, NeedToken(q, u)
        PROVE  now.at \notin InHand \/ now = refreshes[r]
    BY <1>1 DEF NeedToken, Idle, InHand
  <1>2. ASSUME NEW q \in Refreshers, AcquireGuard(q) PROVE now.at \notin InHand \/ now = refreshes[r]
    BY <1>2 DEF AcquireGuard, Lock, InHand, Refreshes
  <1>3. ASSUME NEW q \in Refreshers, LetGo(q) PROVE now.at \notin InHand \/ now = refreshes[r]
    BY <1>3, LetGoTypes DEF Idle, InHand
  <1>4. ASSUME NEW q \in Refreshers, ReadAgain(q), ~LetGo(q)
        PROVE  \/ now = refreshes[r]
               \/ /\ now.at = "exchanging" /\ now.server = s /\ now.stored = tokens[s]
                  /\ s \in Servers /\ tokens[s] \in Logins /\ UNCHANGED << tokens, grants, login >>
    <2>1. /\ refreshes' = [refreshes EXCEPT ![q].at = "exchanging", ![q].stored = tokens[refreshes[q].server]]
          /\ UNCHANGED << tokens, grants, login >>
          /\ refreshes[q].server \in Servers /\ tokens[refreshes[q].server] \in Logins
      BY <1>4, ReadAgainDoes
    <2>2. QED
      BY <2>1 DEF Refreshes
  <1>5. ASSUME NEW q \in Refreshers, Exchange(q), ~LetGo(q)
        PROVE  \/ now = refreshes[r]
               \/ /\ now.at = "saving" /\ now.server = s /\ now.stored = Stored(old.grant, old.generation + 1)
                  /\ refreshes[r].at = "exchanging" /\ UNCHANGED << tokens, login >>
                  /\ old.generation + 1 \in 1..MaxRotations
                  /\ grants' = [grants EXCEPT ![s][old.grant] = old.generation + 1]
    <2> DEFINE u == refreshes[q].server  hand == refreshes[q].stored
    <2>1. /\ refreshes' = [refreshes EXCEPT ![q].at = "saving",
                                            ![q].stored = Stored(hand.grant, hand.generation + 1)]
          /\ refreshes[q].at = "exchanging" /\ UNCHANGED << tokens, login >>
          /\ hand.generation + 1 \in 1..MaxRotations
          /\ grants' = [grants EXCEPT ![u][hand.grant] = hand.generation + 1]
      BY <1>5, ExchangeDoes
    <2>2. QED
      BY <2>1 DEF Refreshes
  <1>6. CASE UNCHANGED refreshes
    BY <1>6
  <1>7. QED
    BY <1>1, <1>2, <1>3, <1>4, <1>5, <1>6, LoginActions
    DEF SaveRotation, Die, Expire, BeginLogin, NextServer, Connection, Deadline, RedeemCode, SaveLogin,
        EndLogin, Logout, kept, loginVars

\* No two are past the guard of one server.
LEMMA OneInside ==
    ASSUME LoginInv, NEW q \in Refreshers, NEW r \in Refreshers,
           refreshes[q].at \in InHand, refreshes[r].at \in InHand, refreshes[q].server = refreshes[r].server
    PROVE  q = r /\ refreshes[r].server \in Servers
  BY DEF LoginInv, GuardIsHeld, Inside, InHand

LEMMA NextGrantsAreGiven == LoginInv /\ [Next]_vars => GrantsAreGiven'
  <1> SUFFICES ASSUME LoginInv, [Next]_vars PROVE GrantsAreGiven'
    OBVIOUS
  <1>1. ASSUME NEW s \in Servers, tokens'[s] # Nothing PROVE tokens'[s].grant \in DOMAIN grants'[s]
    <2>1. DOMAIN grants[s] \subseteq DOMAIN grants'[s]
      BY GrantsGrow
    <2>2. CASE tokens[s] # Nothing /\ tokens'[s].grant = tokens[s].grant
      BY <2>1, <2>2 DEF LoginInv, GrantsAreGiven
    <2>3. ASSUME NEW r \in Refreshers, refreshes[r].at = "saving", refreshes[r].server = s,
                 tokens'[s] = refreshes[r].stored
          PROVE  tokens'[s].grant \in DOMAIN grants'[s]
      BY <2>1, <2>3 DEF LoginInv, GrantsAreGiven, InHand
    <2>4. CASE login.at = "saving" /\ login.server = s /\ tokens'[s] = Stored(Len(grants[s]), 1)
      BY <2>1, <2>4 DEF LoginInv, NewGrantIsUnused, Stored
    <2>5. QED
      BY <1>1, <2>2, <2>3, <2>4, TokensMove
  <1>2. ASSUME NEW r \in Refreshers, refreshes'[r].at \in InHand
        PROVE  /\ refreshes'[r].stored # Nothing
               /\ refreshes'[r].stored.grant \in DOMAIN grants'[refreshes'[r].server]
    <2> DEFINE s == refreshes[r].server  old == refreshes[r].stored
    <2>1. ASSUME refreshes[r].at \in InHand
          PROVE  /\ s \in Servers /\ old \in Logins
                 /\ old.grant \in DOMAIN grants[s] /\ old.grant \in DOMAIN grants'[s]
      <3>1. s \in Servers /\ old # Nothing /\ old.grant \in DOMAIN grants[s] /\ old \in Files
        BY <2>1 DEF LoginInv, GuardIsHeld, Inside, InHand, GrantsAreGiven, LoginTypes, Refreshes
      <3>2. QED
        BY <3>1, GrantsGrow, TokenFiles
    <2>2. CASE refreshes'[r] = refreshes[r]
      BY <1>2, <2>1, <2>2, TokenFiles
    <2>3. CASE /\ refreshes'[r].at = "exchanging" /\ refreshes'[r].server = s
               /\ refreshes'[r].stored = tokens[s]
               /\ s \in Servers /\ tokens[s] \in Logins /\ UNCHANGED << tokens, grants, login >>
      BY <2>3, TokenFiles DEF LoginInv, GrantsAreGiven
    <2>4. CASE /\ refreshes'[r].at = "saving" /\ refreshes'[r].server = s
               /\ refreshes'[r].stored = Stored(old.grant, old.generation + 1)
               /\ refreshes[r].at = "exchanging" /\ old.generation + 1 \in 1..MaxRotations
      <3>1. s \in Servers /\ old \in Logins /\ old.grant \in DOMAIN grants'[s]
        BY <2>1, <2>4 DEF InHand
      <3>2. old.grant \in Nat \ {0}
        BY <3>1, TokenFiles
      <3>3. refreshes'[r].stored \in Logins /\ refreshes'[r].stored.grant = old.grant
        BY <2>4, <3>2, TokenFiles
      <3>4. refreshes'[r].stored # Nothing
        BY <3>3, TokenFiles
      <3>5. QED
        BY <2>4, <3>1, <3>3, <3>4
    <2>5. QED
      BY <1>2, <2>2, <2>3, <2>4, HandsMove
  <1>3. QED
    BY <1>1, <1>2 DEF GrantsAreGiven

LEMMA NextHandIsCurrent == LoginInv /\ [Next]_vars => HandIsCurrent'
  <1> SUFFICES ASSUME LoginInv, [Next]_vars, NEW r \in Refreshers
               PROVE  LET s == refreshes'[r].server  hand == refreshes'[r].stored IN
                      /\ refreshes'[r].at = "exchanging" /\ tokens'[s] # Nothing /\ tokens'[s].grant = hand.grant
                            => tokens'[s].generation = hand.generation
                      /\ refreshes'[r].at = "saving" => grants'[s][hand.grant] = hand.generation
    BY DEF HandIsCurrent, Accepted
  <1> DEFINE s == refreshes[r].server  hand == refreshes[r].stored
  <1>1. ASSUME refreshes'[r] = refreshes[r], refreshes[r].at = "exchanging",
               tokens'[s] # Nothing, tokens'[s].grant = hand.grant
        PROVE  tokens'[s].generation = hand.generation
    <2>1. s \in Servers
      BY <1>1 DEF LoginInv, GuardIsHeld
    <2>2. tokens[s] # Nothing /\ tokens[s].grant = hand.grant => tokens[s].generation = hand.generation
      BY <1>1 DEF LoginInv, HandIsCurrent
    <2>3. ASSUME NEW q \in Refreshers, refreshes[q].at = "saving", refreshes[q].server = s PROVE FALSE
      <3>1. q = r
        BY <1>1, <2>3, OneInside DEF InHand
      <3>2. QED
        BY <1>1, <2>3, <3>1
    <2>4. CASE login.at = "saving" /\ login.server = s /\ tokens'[s] = Stored(Len(grants[s]), 1)
      <3>1. hand.grant # Len(grants[s])
        BY <1>1, <2>4 DEF LoginInv, NewGrantIsUnused, InHand
      <3>2. QED
        BY <1>1, <2>4, <3>1 DEF Stored
    <2>5. QED
      BY <1>1, <2>1, <2>2, <2>3, <2>4, TokensMove
  <1>2. ASSUME refreshes'[r] = refreshes[r], refreshes[r].at = "saving"
        PROVE  grants'[s][hand.grant] = hand.generation
    <2>1. s \in Servers /\ hand.grant \in DOMAIN grants[s] /\ grants[s][hand.grant] = hand.generation
      BY <1>2 DEF LoginInv, GuardIsHeld, GrantsAreGiven, HandIsCurrent, Accepted, InHand
    <2>2. ASSUME NEW q \in Refreshers, Exchange(q), refreshes[q].server = s PROVE FALSE
      <3>1. refreshes[q].at = "exchanging"
        BY <2>2, ExchangeDoes
      <3>2. q = r
        BY <1>2, <2>2, <3>1, OneInside DEF InHand
      <3>3. QED
        BY <1>2, <3>1, <3>2
    <2>3. QED
      BY <2>1, <2>2, GrantsGrow
  <1>3. CASE /\ refreshes'[r].at = "exchanging" /\ refreshes'[r].server = s
             /\ refreshes'[r].stored = tokens[s] /\ UNCHANGED tokens
    BY <1>3
  <1>4. CASE /\ refreshes'[r].at = "saving" /\ refreshes'[r].server = s
             /\ refreshes'[r].stored = Stored(hand.grant, hand.generation + 1)
             /\ refreshes[r].at = "exchanging"
             /\ grants' = [grants EXCEPT ![s][hand.grant] = hand.generation + 1]
    <2>1. s \in Servers /\ hand.grant \in DOMAIN grants[s]
      BY <1>4 DEF LoginInv, GuardIsHeld, GrantsAreGiven, InHand
    <2>2. grants'[s][hand.grant] = hand.generation + 1
      BY <1>4, <2>1 DEF LoginInv, LoginTypes
    <2>3. QED
      BY <1>4, <2>2 DEF Stored
  <1>5. QED
    BY <1>1, <1>2, <1>3, <1>4, HandsMove DEF InHand

LEMMA NextNewGrantIsUnused == LoginInv /\ [Next]_vars => NewGrantIsUnused'
  <1> SUFFICES ASSUME LoginInv, [Next]_vars PROVE NewGrantIsUnused'
    OBVIOUS
  <1>1. ASSUME login'.at \in {"waiting", "reading", "exchanging", "saving"} PROVE login'.server \in Servers
    <2> USE DEF LoginInv, LoginTypes, LoginRuns
    <2>1. CASE NextServer
      <3>1. PICK s \in login.rest, at \in {"waiting", "next"} :
              login' = [login EXCEPT !.at = at, !.server = s, !.rest = @ \ {s}]
        BY <2>1 DEF NextServer
      <3>2. QED
        BY <3>1
    <2>2. ASSUME NEW callback \in Callbacks, Connection(callback) PROVE login'.server \in Servers
      BY <2>2 DEF Connection, NewGrantIsUnused
    <2>3. ASSUME NEW accepted \in BOOLEAN, RedeemCode(accepted) PROVE login'.server \in Servers
      BY <2>3 DEF RedeemCode, NewGrantIsUnused
    <2>4. CASE UNCHANGED login
      BY <1>1, <2>4 DEF NewGrantIsUnused
    <2>5. ASSUME NEW names \in SUBSET Servers, NEW client \in BOOLEAN, BeginLogin(names, client)
          PROVE  FALSE
      BY <1>1, <2>5 DEF BeginLogin, NoLogin
    <2>6. CASE Deadline
      BY <1>1, <2>6 DEF Deadline
    <2>7. CASE SaveLogin
      BY <1>1, <2>7 DEF SaveLogin
    <2>8. CASE EndLogin
      BY <1>1, <2>8 DEF EndLogin, NoLogin
    <2>9. QED
      BY <2>1, <2>2, <2>3, <2>4, <2>5, <2>6, <2>7, <2>8, LoginActions
      DEF NeedToken, AcquireGuard, ReadAgain, Exchange, SaveRotation, Die, Expire, Logout, free, kept, loginVars
  <1>2. ASSUME login'.at = "saving"
        PROVE  LET s == login'.server  n == Len(grants'[login'.server]) IN
               /\ n \in DOMAIN grants'[s] /\ grants'[s][n] = 1
               /\ tokens'[s] # Nothing => tokens'[s].grant # n
               /\ \A r \in Refreshers :
                     refreshes'[r].at \in InHand /\ refreshes'[r].server = s => refreshes'[r].stored.grant # n
    <2>1. UNCHANGED login \/ RedeemCode(TRUE)
      <3> USE DEF LoginInv, LoginTypes, LoginRuns
      <3>1. ASSUME NEW callback \in Callbacks, Connection(callback) PROVE FALSE
        BY <1>2, <3>1 DEF Connection, Landing, Callbacks
      <3>2. ASSUME NEW names \in SUBSET Servers, NEW client \in BOOLEAN, BeginLogin(names, client)
            PROVE  FALSE
        BY <1>2, <3>2 DEF BeginLogin, NoLogin
      <3>3. CASE NextServer
        BY <1>2, <3>3 DEF NextServer
      <3>4. CASE Deadline
        BY <1>2, <3>4 DEF Deadline
      <3>5. CASE SaveLogin
        BY <1>2, <3>5 DEF SaveLogin
      <3>6. CASE EndLogin
        BY <1>2, <3>6 DEF EndLogin, NoLogin
      <3>7. CASE RedeemCode(FALSE)
        BY <1>2, <3>7 DEF RedeemCode
      <3>8. QED
        BY <3>1, <3>2, <3>3, <3>4, <3>5, <3>6, <3>7, LoginActions
        DEF NeedToken, AcquireGuard, ReadAgain, Exchange, SaveRotation, Die, Expire, Logout, free, kept, loginVars
    <2>2. CASE RedeemCode(TRUE)
      <3> DEFINE s == login.server
      <3>1. s \in Servers /\ grants[s] \in Seq(0..MaxRotations)
        BY <2>2 DEF RedeemCode, LoginInv, LoginTypes, NewGrantIsUnused
      <3>2. /\ grants'[s] = Append(grants[s], 1) /\ login'.server = s
            /\ UNCHANGED << tokens, refreshes >>
        BY <2>2, <3>1 DEF RedeemCode, LoginInv, LoginTypes, LoginRuns, kept
      <3>3. /\ Len(grants[s]) \in Nat /\ DOMAIN grants[s] = 1..Len(grants[s])
            /\ Len(grants'[s]) = Len(grants[s]) + 1 /\ grants'[s][Len(grants[s]) + 1] = 1
            /\ DOMAIN grants'[s] = 1..(Len(grants[s]) + 1)
        BY <3>1, <3>2, NewGrant
      <3>4. /\ tokens[s] # Nothing => tokens[s].grant \in DOMAIN grants[s]
            /\ \A r \in Refreshers : refreshes[r].at \in InHand /\ refreshes[r].server = s
                  => refreshes[r].stored.grant \in DOMAIN grants[s]
        BY <3>1 DEF LoginInv, GrantsAreGiven
      <3>5. QED
        BY <3>2, <3>3, <3>4
    <2>3. CASE UNCHANGED login
      <3> DEFINE s == login.server  n == Len(grants[login.server])
      <3>1. /\ s \in Servers /\ n \in DOMAIN grants[s] /\ grants[s][n] = 1
            /\ tokens[s] # Nothing => tokens[s].grant # n
            /\ \A r \in Refreshers :
                  refreshes[r].at \in InHand /\ refreshes[r].server = s => refreshes[r].stored.grant # n
        BY <1>2, <2>3 DEF LoginInv, NewGrantIsUnused
      <3>2. Len(grants'[s]) = n /\ n \in DOMAIN grants'[s]
        BY <2>3, <3>1, GrantsGrow
      <3>3. grants'[s][n] = 1
        <4>1. ASSUME NEW r \in Refreshers, Exchange(r), refreshes[r].server = s PROVE refreshes[r].stored.grant # n
          BY <3>1, <4>1, ExchangeDoes DEF InHand
        <4>2. QED
          BY <3>1, <4>1, GrantsGrow
      <3>4. tokens'[s] # Nothing => tokens'[s].grant # n
        BY <2>3, <3>1, TokensMove DEF InHand
      <3>5. ASSUME NEW r \in Refreshers, refreshes'[r].at \in InHand, refreshes'[r].server = s
            PROVE  refreshes'[r].stored.grant # n
        <4> DEFINE old == refreshes[r].stored
        <4>1. CASE refreshes'[r] = refreshes[r]
          BY <3>1, <3>5, <4>1
        <4>2. CASE /\ refreshes'[r].server = refreshes[r].server
                   /\ refreshes'[r].stored = tokens[refreshes[r].server]
                   /\ tokens[refreshes[r].server] \in Logins
          BY <3>1, <3>5, <4>2, TokenFiles
        <4>3. CASE /\ refreshes[r].at = "exchanging" /\ refreshes'[r].server = refreshes[r].server
                   /\ refreshes'[r].stored = Stored(old.grant, old.generation + 1)
          BY <3>1, <3>5, <4>3 DEF InHand, Stored
        <4>4. QED
          BY <3>5, <4>1, <4>2, <4>3, HandsMove
      <3>6. QED
        BY <2>3, <3>2, <3>3, <3>4, <3>5
    <2>4. QED
      BY <2>1, <2>2, <2>3
  <1>3. QED
    BY <1>1, <1>2 DEF NewGrantIsUnused

\* A refresher under the guard leaves the others where they are.
LEMMA OthersStay ==
    ASSUME LoginInv, NEW q \in Refreshers, NEW r \in Refreshers \ {q}, ReadAgain(q) \/ Exchange(q)
    PROVE  refreshes'[r] = refreshes[r]
  <1>1. CASE LetGo(q)
    BY <1>1, LetGoTypes DEF LoginInv
  <1>2. CASE ReadAgain(q) /\ ~LetGo(q)
    <2>1. refreshes' = [refreshes EXCEPT ![q].at = "exchanging", ![q].stored = tokens[refreshes[q].server]]
      BY <1>2, ReadAgainDoes
    <2>2. QED
      BY <2>1 DEF LoginInv, LoginTypes
  <1>3. CASE Exchange(q) /\ ~LetGo(q)
    <2> DEFINE old == refreshes[q].stored
    <2>1. refreshes' = [refreshes EXCEPT ![q].at = "saving",
                                        ![q].stored = Stored(old.grant, old.generation + 1)]
      BY <1>3, ExchangeDoes
    <2>2. QED
      BY <2>1 DEF LoginInv, LoginTypes
  <1>4. QED
    BY <1>1, <1>2, <1>3

\* A rotation about to be saved is saved, or its process ends.
LEMMA SaverStays ==
    ASSUME LoginInv, [Next]_vars, NEW r \in Refreshers, refreshes[r].at = "saving"
    PROVE  refreshes'[r] = refreshes[r] \/ SaveRotation(r) \/ Die(r)
  <1> USE DEF LoginInv, LoginTypes
  <1>1. ASSUME NEW q \in Refreshers, NEW u \in Servers, NeedToken(q, u) PROVE refreshes'[r] = refreshes[r]
    BY <1>1 DEF NeedToken
  <1>2. ASSUME NEW q \in Refreshers, AcquireGuard(q) PROVE refreshes'[r] = refreshes[r]
    BY <1>2 DEF AcquireGuard, Lock
  <1>3. ASSUME NEW q \in Refreshers, ReadAgain(q) PROVE refreshes'[r] = refreshes[r]
    <2>1. q # r
      BY <1>3, ReadAgainDoes
    <2>2. QED
      BY <1>3, <2>1, OthersStay
  <1>4. ASSUME NEW q \in Refreshers, Exchange(q) PROVE refreshes'[r] = refreshes[r]
    <2>1. q # r
      BY <1>4, ExchangeDoes
    <2>2. QED
      BY <1>4, <2>1, OthersStay
  <1>5. ASSUME NEW q \in Refreshers, SaveRotation(q) \/ Die(q)
        PROVE  refreshes'[r] = refreshes[r] \/ SaveRotation(r) \/ Die(r)
    <2>1. LetGo(q)
      BY <1>5 DEF SaveRotation, Die
    <2>2. QED
      BY <1>5, <2>1, LetGoTypes
  <1>6. CASE UNCHANGED refreshes
    BY <1>6
  <1>7. QED
    BY <1>1, <1>2, <1>3, <1>4, <1>5, <1>6, LoginActions
    DEF Expire, BeginLogin, NextServer, Connection, Deadline, RedeemCode, SaveLogin, EndLogin, Logout,
        kept, loginVars

\* Only a login that is saved makes up for a lost rotation.
LEMMA LostStays ==
    ASSUME LoginInv, [Next]_vars, NEW s \in Servers, s \in lost
    PROVE  \/ s \in lost'
           \/ /\ login.at = "saving" /\ login.server = s /\ UNCHANGED grants
              /\ tokens'[s] = Stored(Len(grants[s]), 1)
  <1>1. CASE SaveLogin
    BY <1>1 DEF SaveLogin, LoginInv, LoginTypes
  <1>2. ASSUME NEW r \in Refreshers, Die(r) PROVE s \in lost'
    BY <1>2 DEF Die
  <1>3. CASE UNCHANGED lost
    BY <1>3
  <1>4. QED
    BY <1>1, <1>2, <1>3, LoginActions
    DEF NeedToken, AcquireGuard, ReadAgain, Exchange, SaveRotation, Expire, BeginLogin, NextServer,
        Connection, Deadline, RedeemCode, EndLogin, Logout, loginVars

\* Whoever changes the token of a grant is about to save it; whoever revokes a
\* grant finds no token of it on disk that was still accepted.
LEMMA NextLoginKept == LoginInv /\ [Next]_vars => LoginKept'
  <1> SUFFICES ASSUME LoginInv, [Next]_vars, NEW s \in Servers, tokens'[s] # Nothing, s \notin lost'
               PROVE  \/ \E r \in Refreshers : refreshes'[r].server = s /\ refreshes'[r].at = "saving"
                      \/ grants'[s][tokens'[s].grant] = tokens'[s].generation
    BY DEF LoginKept, Accepted
  <1> DEFINE SomeoneSaves == \E r \in Refreshers : refreshes[r].server = s /\ refreshes[r].at = "saving"
             IsAccepted   == grants[s][tokens[s].grant] = tokens[s].generation
  <1>1. CASE UNCHANGED grants /\ \E r \in Refreshers : /\ refreshes[r].at = "saving" /\ refreshes[r].server = s
                                                      /\ tokens'[s] = refreshes[r].stored
    BY <1>1 DEF LoginInv, HandIsCurrent, Accepted
  <1>2. CASE /\ login.at = "saving" /\ login.server = s /\ UNCHANGED grants
             /\ tokens'[s] = Stored(Len(grants[s]), 1)
    BY <1>2 DEF LoginInv, NewGrantIsUnused, Stored
  <1>3. CASE /\ tokens[s] # Nothing /\ UNCHANGED << grants, refreshes, lost >>
             /\ tokens'[s].grant = tokens[s].grant /\ tokens'[s].generation = tokens[s].generation
    BY <1>3 DEF LoginInv, LoginKept, Accepted
  <1>4. CASE tokens'[s] = tokens[s]
    <2> USE <1>4
    <2>1. tokens[s] # Nothing /\ tokens[s].grant \in DOMAIN grants[s]
      BY DEF LoginInv, GrantsAreGiven
    <2>2. ASSUME NEW q \in Refreshers, Exchange(q)
          PROVE  \/ \E r \in Refreshers : refreshes'[r].server = s /\ refreshes'[r].at = "saving"
                 \/ grants'[s][tokens[s].grant] = tokens[s].generation
      <3> DEFINE u == refreshes[q].server  old == refreshes[q].stored
      <3>1. CASE Accepted(u, old) /\ u = s
        <4>1. refreshes' = [refreshes EXCEPT ![q].at = "saving",
                                            ![q].stored = Stored(old.grant, old.generation + 1)]
          BY <2>2, <3>1, ExchangeDoes
        <4>2. refreshes'[q].server = s /\ refreshes'[q].at = "saving"
          BY <3>1, <4>1 DEF LoginInv, LoginTypes, Refreshes
        <4>3. QED
          BY <4>2
      <3>2. CASE ~Accepted(u, old) /\ u = s
        <4>1. /\ refreshes[q].at = "exchanging" /\ UNCHANGED lost
              /\ grants' = [grants EXCEPT ![u][old.grant] = Revoked]
          BY <2>2, <3>2, ExchangeDoes
        <4>2. ASSUME NEW r \in Refreshers, refreshes[r].server = s, refreshes[r].at = "saving" PROVE FALSE
          <5>1. r = q
            BY <3>2, <4>1, <4>2, OneInside DEF InHand
          <5>2. QED
            BY <4>1, <4>2, <5>1
        <4>3. IsAccepted
          BY <2>1, <4>1, <4>2 DEF LoginInv, LoginKept, Accepted
        <4>4. tokens[s].grant = old.grant => tokens[s].generation = old.generation
          BY <2>1, <3>2, <4>1 DEF LoginInv, HandIsCurrent
        <4>5. tokens[s].grant # old.grant
          BY <3>2, <4>3, <4>4 DEF Accepted
        <4>6. QED
          BY <2>1, <4>1, <4>3, <4>5 DEF LoginInv, LoginTypes
      <3>3. CASE u # s
        <4>1. grants'[s] = grants[s] /\ UNCHANGED lost
          <5>1. PICK n : grants' = [grants EXCEPT ![u][old.grant] = n]
            BY <2>2, ExchangeDoes
          <5>2. grants'[s] = grants[s]
            BY <3>3, <5>1 DEF LoginInv, LoginTypes
          <5>3. QED
            BY <2>2, <5>2, ExchangeDoes
        <4>2. CASE SomeoneSaves
          <5>1. PICK r \in Refreshers : refreshes[r].server = s /\ refreshes[r].at = "saving"
            BY <4>2
          <5>2. r # q
            BY <3>3, <5>1
          <5>3. refreshes'[r] = refreshes[r]
            BY <2>2, <5>2, OthersStay
          <5>4. QED
            BY <5>1, <5>3
        <4>3. CASE IsAccepted
          BY <4>1, <4>3
        <4>4. SomeoneSaves \/ IsAccepted
          BY <2>1, <4>1 DEF LoginInv, LoginKept, Accepted
        <4>5. QED
          BY <4>2, <4>3, <4>4
      <3>4. QED
        BY <3>1, <3>2, <3>3
    <2>3. ASSUME ~ \E q \in Refreshers : Exchange(q), SomeoneSaves
          PROVE  \/ \E r \in Refreshers : refreshes'[r].server = s /\ refreshes'[r].at = "saving"
                 \/ grants'[s][tokens[s].grant] = tokens[s].generation
      <3>1. PICK r \in Refreshers : refreshes[r].server = s /\ refreshes[r].at = "saving"
        BY <2>3
      <3>2. refreshes'[r] = refreshes[r] \/ SaveRotation(r) \/ Die(r)
        BY <2>3, <3>1, SaverStays
      <3>3. CASE SaveRotation(r)
        <4>1. tokens'[s] = refreshes[r].stored /\ UNCHANGED grants
          BY <3>1, <3>3 DEF SaveRotation, LoginInv, LoginTypes
        <4>2. QED
          BY <3>1, <4>1 DEF LoginInv, HandIsCurrent, Accepted
      <3>4. CASE Die(r)
        BY <3>1, <3>4 DEF Die
      <3>5. QED
        BY <3>1, <3>2, <3>3, <3>4
    <2>4. ASSUME ~ \E q \in Refreshers : Exchange(q), ~SomeoneSaves
          PROVE  grants'[s][tokens[s].grant] = tokens[s].generation
      <3>1. CASE s \in lost
        BY <1>2, <2>4, <3>1, LostStays DEF LoginInv, NewGrantIsUnused, Stored
      <3>2. CASE s \notin lost
        <4>1. IsAccepted
          BY <2>1, <2>4, <3>2 DEF LoginInv, LoginKept, Accepted
        <4>2. QED
          BY <2>1, <2>4, <4>1, GrantsGrow
      <3>3. QED
        BY <3>1, <3>2
    <2>5. QED
      BY <2>2, <2>3, <2>4
  <1>5. QED
    BY <1>1, <1>2, <1>3, <1>4, TokensMove

-----------------------------------------------------------------------------
(* Theorems.                                                                *)

LEMMA InitLoginInv == Init => LoginInv
  <1> SUFFICES ASSUME Init PROVE LoginInv
    OBVIOUS
  <1> USE DEF Init, LoginInit, Idle, NoLogin
  <1>1. LoginTypes
    <2>1. [s \in Servers |-> << >>] \in [Servers -> Seq(0..MaxRotations)]
      BY EmptySeq
    <2>2. NoLogin \in LoginRuns
      BY EmptySeq DEF LoginRuns, LoginPlaces
    <2>3. [r \in Refreshers |-> Idle] \in [Refreshers -> Refreshes]
      BY TokenFiles DEF Refreshes, RefreshPlaces
    <2>4. QED
      BY <2>1, <2>2, <2>3, TokenFiles DEF LoginTypes
  <1>2. GuardIsHeld /\ GrantsAreGiven /\ HandIsCurrent /\ NewGrantIsUnused /\ LoginKept
    BY DEF GuardIsHeld, GrantsAreGiven, HandIsCurrent, NewGrantIsUnused, LoginKept, Inside, InHand
  <1>3. QED
    BY <1>1, <1>2 DEF LoginInv

LEMMA LoginInvariant == Spec => []LoginInv
  <1>1. LoginInv /\ [Next]_vars => LoginInv'
    BY NextLoginTypes, NextGuardIsHeld, NextGrantsAreGiven, NextHandIsCurrent, NextNewGrantIsUnused,
       NextLoginKept DEF LoginInv
  <1>2. QED
    BY <1>1, InitLoginInv, PTL DEF Spec

\* The types of the token files, the grants, the refreshes and the login.
THEOREM LoginTypeCorrect == Spec => []LoginTypeOK
  <1>1. LoginInv => LoginTypeOK
    BY DEF LoginInv, LoginTypes, GrantsAreGiven, LoginTypeOK, Refreshes, RefreshPlaces, LoginRuns, LoginPlaces
  <1>2. QED
    BY <1>1, LoginInvariant, PTL

\* The login on disk is one the provider accepts, but for the time between a
\* rotation and its save: the guard of FileStore (auth.rs) keeps any number of
\* refreshing processes from bringing an old token back, and neither a login
\* nor a logout, which take no guard, gets in between.
THEOREM LoginIsKept == Spec => []LoginKept
  BY LoginInvariant, PTL DEF LoginInv
===============================================================================
