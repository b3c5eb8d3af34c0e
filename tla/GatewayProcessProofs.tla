------------------------- MODULE GatewayProcessProofs -------------------------
(* The processes around the port, for any number of them and any binaries:   *)
(* proofs about GatewayProcess, as Install composes it.                       *)
EXTENDS OAuthLoginProofs

\* From the publication of its record to its end, and while it watches.
Published == {"beginning", "serving", "draining", "drained"}
Watching  == {"serving", "draining", "drained"}

\* Only a supervised gateway watches its binary, and only once it serves.
WatcherServes ==
    \A p \in Procs : procs[p].watch # Absent \/ procs[p].decided # Absent =>
        procs[p].kind = "service" /\ procs[p].at \in Watching

\* The watch was told its predecessor's restart, and whatever it is checking or
\* has decided on is none the guard refuses.
GuardIsObeyed ==
    \A p \in Procs : LET watch == procs[p].watch  guard == procs[p].guard  decided == procs[p].decided IN
        /\ watch # Absent =>
              watch.guard = guard /\ (watch.checking # Absent => ~Refused(guard, watch.checking))
        /\ decided # Absent => ~Refused(guard, decided)

\* The last restart carried out is on record while nobody else touches the
\* record, and is the guard of the service that read it.
Undisturbed == aside.last # Absent /\ ~aside.disturbed
RestartIsOnRecord == Undisturbed => record # Absent /\ record.last = aside.last
GuardIsLastRestart ==
    Undisturbed =>
        \A p \in Procs : procs[p].kind = "service" /\ procs[p].at \in Published => procs[p].guard = aside.last

ProcessInv ==
    ProcessTypeOK /\ WatcherServes /\ GuardIsObeyed /\ RestartIsOnRecord /\ GuardIsLastRestart

-----------------------------------------------------------------------------
\* A step of the install is one of a process, of a command or of the
\* environment, or of none of them.
LEMMA ProcessActions ==
    [Next]_vars =>
        \/ \E p \in Procs :
              \/ ReadToken(p) \/ MintToken(p) \/ RefuseConfig(p) \/ Bind(p) \/ CannotBind(p)
              \/ Publish(p) \/ Begin(p) \/ Tick(p) \/ StartDraining(p) \/ StandAside(p) \/ Withdraw(p)
              \/ \E answers \in BOOLEAN : Verified(p, answers)
              \/ Probe(p) \/ LoseTheRace(p) \/ Waited(p) \/ LoadConfig(p)
              \/ Interrupt(p) \/ Crash(p) \/ ClientCloses(p) \/ Drained(p)
              \/ \E kind \in {"serve", "bridge"} : Run(p, kind)
              \/ Launch(p) \/ StopChild(p) \/ KillChild(p)
        \/ Install \/ InstallReadsToken \/ InstallMints \/ Preflight \/ Register \/ SaveSpec
        \/ \E command \in {"stop", "uninstall"} : Stop(command)
        \/ Stopped \/ RemoveSpec \/ Start \/ Rotate
        \/ SelfUpdate \/ \E works \in BOOLEAN : Stage(works) \/ CheckStaged(works) \/ Replace(works)
        \/ ReplaceBinary \/ TimePasses
        \/ UNCHANGED processVars
  BY DEF Next, vars, ProcessNext, ServeSteps, BridgeSteps, Environment, DaemonSteps, UpdateSteps

-----------------------------------------------------------------------------
(* Types.                                                                   *)

Supervisors ==
    [installed : BOOLEAN, loaded : BOOLEAN, due : BOOLEAN, stopping : BOOLEAN, child : Procs \union {Absent}]

\* A process is one whatever more tokens there are.
LEMMA MoreTokens ==
    ASSUME minted \in Nat, minted' = minted \/ minted' = minted + 1
    PROVE  minted' \in Nat /\ 1..minted \subseteq 1..minted' /\ Processes \subseteq Processes'
  <1>1. minted' \in Nat /\ 1..minted \subseteq 1..minted'
    OBVIOUS
  <1>2. QED
    BY <1>1 DEF Processes

\* What an action may write into a process.
LEMMA ProcessFields ==
    ASSUME NEW x \in Processes
    PROVE  /\ x.kind \in Kinds /\ x.at \in Places /\ x.token \in 1..minted \union {Absent}
           /\ x.guard \in MaybeRestarts /\ x.decided \in MaybeRestarts
           /\ x.watch # Absent => x.watch \in Watches
           /\ x.judged \subseteq Stamps
           /\ \A kind \in Kinds : [x EXCEPT !.kind = kind] \in Processes
           /\ \A at \in Places : [x EXCEPT !.at = at] \in Processes
           /\ \A stamp \in Stamps : [x EXCEPT !.binary = stamp] \in Processes
           /\ \A held \in 1..minted \union {Absent} : [x EXCEPT !.token = held] \in Processes
           /\ \A restart \in MaybeRestarts :
                 [x EXCEPT !.guard = restart] \in Processes /\ [x EXCEPT !.decided = restart] \in Processes
           /\ \A watch \in Watches \union {Absent} : [x EXCEPT !.watch = watch] \in Processes
           /\ \A stamps \in SUBSET Stamps : [x EXCEPT !.judged = stamps] \in Processes
           /\ [x EXCEPT !.stop = TRUE] \in Processes
  BY DEF Processes

LEMMA GoneIsProcess == Gone \in Processes
  BY DEF Gone, Processes, Kinds, Places, Stamps, MaybeRestarts

LEMMA StartedIsProcess ==
    ASSUME ProcessTypes, disk # Absent, NEW kind \in Kinds
    PROVE  Started(kind) \in Processes
  <1>1. disk.stamp \in Stamps
    BY DEF ProcessTypes, Stamps
  <1>2. QED
    BY <1>1, GoneIsProcess DEF Started, Processes, Places, Gone

\* The end of a process.
LEMMA EndsTypes ==
    ASSUME ProcessTypes, NEW p \in Procs, NEW status, Ends(p, status)
    PROVE  /\ procs' \in [Procs -> Processes]
           /\ listener' \in Procs \union {Absent}
           /\ supervisor' \in Supervisors
  <1>1. procs' \in [Procs -> Processes]
    BY GoneIsProcess DEF Ends, ProcessTypes
  <1>2. listener' \in Procs \union {Absent}
    BY DEF Ends, ProcessTypes
  <1>3. (RestartsOn(status) /\ ~supervisor.stopping) \in BOOLEAN
    OBVIOUS
  <1>4. supervisor' \in Supervisors
    BY <1>3 DEF Ends, ProcessTypes, Supervisors
  <1>5. QED
    BY <1>1, <1>2, <1>4

LEMMA SignalledTypes ==
    ASSUME ProcessTypes, NEW p \in Procs, Signalled(p)
    PROVE  /\ procs' \in [Procs -> Processes]
           /\ listener' \in Procs \union {Absent}
           /\ supervisor' \in Supervisors
  <1>1. CASE Ends(p, Killed)
    BY <1>1, EndsTypes
  <1>2. CASE ~Ends(p, Killed)
    <2>1. procs' = [procs EXCEPT ![p].stop = TRUE] /\ UNCHANGED << listener, supervisor >>
      BY <1>2 DEF Signalled
    <2>2. procs' \in [Procs -> Processes]
      BY <2>1, ProcessFields DEF ProcessTypes
    <2>3. QED
      BY <2>1, <2>2 DEF ProcessTypes, Supervisors
  <1>3. QED
    BY <1>1, <1>2

LEMMA WatchTypes ==
    ASSUME ProcessTypes
    PROVE  /\ Stat(disk) \in Stamps
           /\ \A guard \in MaybeRestarts : NewWatch(disk, guard) \in Watches
           /\ \A watch \in Watches : Ticked(watch, disk, clock) \in Watches
  <1>1. Stat(disk) \in Stamps /\ (disk # Absent => disk \in Binaries)
    BY DEF ProcessTypes, Stat, Stamps
  <1>2. Absent \in MaybeRestarts /\ NoStamp \in Stamps
    BY DEF MaybeRestarts, Stamps
  <1>3. ASSUME NEW watch \in Watches PROVE Ticked(watch, disk, clock) \in Watches
    <2>1. CASE Stat(disk) \in {NoStamp, watch.seen}
      BY <1>2, <2>1 DEF Ticked, Watches
    <2>2. CASE Stat(disk) \notin {NoStamp, watch.seen, watch.candidate}
      BY <1>1, <2>2 DEF Ticked, Watches
    <2>3. CASE Stat(disk) \notin {NoStamp, watch.seen} /\ Stat(disk) = watch.candidate
      <3>1. disk # Absent
        BY <2>3 DEF Stat
      <3>2. UpgradeRestart(disk, clock) \in MaybeRestarts
        BY <1>1, <3>1 DEF UpgradeRestart, MaybeRestarts, Restarts, ProcessTypes
      <3>3. QED
        BY <1>1, <1>2, <2>3, <3>2 DEF Ticked, Watches
    <2>4. QED
      BY <2>1, <2>2, <2>3
  <1>4. QED
    BY <1>1, <1>2, <1>3 DEF NewWatch, Watches

\* What is left to the environment is always a workload.
LEMMA WorkingsFields ==
    ASSUME ProcessTypes
    PROVE  /\ left \in Workings
           /\ left.timeouts > 0 => [left EXCEPT !.timeouts = @ - 1] \in Workings
           /\ left.signals > 0 => [left EXCEPT !.signals = @ - 1] \in Workings
           /\ left.crashes > 0 => [left EXCEPT !.crashes = @ - 1] \in Workings
           /\ \A command \in left.commands : [left EXCEPT !.commands = @ \ {command}] \in Workings
           /\ \A kind \in {"serve", "bridge"} :
                 left.starts[kind] > 0 => [left EXCEPT !.starts[kind] = @ - 1] \in Workings
           /\ left.edits # << >> =>
                 Head(left.edits) \in Binaries \union {Absent} /\ [left EXCEPT !.edits = Tail(@)] \in Workings
           /\ left.release \in Binaries \union {Absent}
  <1>1. left \in Workings
    BY DEF ProcessTypes
  <1>2. left.timeouts \in Nat /\ left.signals \in Nat /\ left.crashes \in Nat
    BY <1>1 DEF Workings
  <1>3. \A n \in Nat : n > 0 => n - 1 \in Nat
    OBVIOUS
  <1>4. \A n \in Nat : /\ [left EXCEPT !.timeouts = n] \in Workings
                       /\ [left EXCEPT !.signals = n] \in Workings
                       /\ [left EXCEPT !.crashes = n] \in Workings
    BY <1>1 DEF Workings
  <1>5. ASSUME NEW command \in left.commands PROVE [left EXCEPT !.commands = @ \ {command}] \in Workings
    BY <1>1 DEF Workings
  <1>6. ASSUME NEW kind \in {"serve", "bridge"}, left.starts[kind] > 0
        PROVE  [left EXCEPT !.starts[kind] = @ - 1] \in Workings
    <2>1. left.starts \in [serve : Nat, bridge : Nat]
      BY <1>1 DEF Workings
    <2>2. [left.starts EXCEPT ![kind] = @ - 1] \in [serve : Nat, bridge : Nat]
      BY <1>6, <2>1
    <2>3. QED
      BY <1>1, <2>2 DEF Workings
  <1>7. ASSUME left.edits # << >>
        PROVE  /\ Head(left.edits) \in Binaries \union {Absent}
               /\ [left EXCEPT !.edits = Tail(@)] \in Workings
    <2>1. left.edits \in Seq(Binaries \union {Absent})
      BY <1>1 DEF Workings
    <2>2. /\ Head(left.edits) \in Binaries \union {Absent}
          /\ Tail(left.edits) \in Seq(Binaries \union {Absent})
      BY <1>7, <2>1, HeadTailProperties
    <2>3. QED
      BY <1>1, <2>2 DEF Workings
  <1>8. left.release \in Binaries \union {Absent}
    BY <1>1 DEF Workings
  <1>9. QED
    BY <1>1, <1>2, <1>3, <1>4, <1>5, <1>6, <1>7, <1>8

\* While no token is minted the processes may be what they were.
LEMMA SameTokens == minted' = minted => Processes' = Processes /\ Supervisors' = Supervisors
  BY DEF Processes, Supervisors

LEMMA ServeStepTypes ==
    ASSUME ProcessTypes, NEW p \in Procs,
           \/ ReadToken(p) \/ MintToken(p) \/ RefuseConfig(p) \/ Bind(p) \/ CannotBind(p)
           \/ Publish(p) \/ Begin(p) \/ Tick(p) \/ StartDraining(p) \/ StandAside(p) \/ Withdraw(p)
           \/ \E answers \in BOOLEAN : Verified(p, answers)
    PROVE  ProcessTypes'
  <1> USE DEF others, outside
  <1> DEFINE x == procs[p]
  <1>0. x \in Processes /\ Absent \in MaybeRestarts /\ \A t \in 1..minted : t \in 1..minted \union {Absent}
    BY DEF ProcessTypes, MaybeRestarts
  <1>1. CASE ReadToken(p)
    <2>1. (IF token = Absent THEN "minting" ELSE "binding") \in Places /\ token \in 1..minted \union {Absent}
      BY DEF Places, ProcessTypes
    <2>2. [x EXCEPT !.at = IF token = Absent THEN "minting" ELSE "binding", !.token = token] \in Processes
      BY <1>0, <2>1, ProcessFields
    <2>3. procs' \in [Procs -> Processes]
      BY <1>1, <2>2 DEF ReadToken, ProcessTypes
    <2>4. QED
      BY <1>1, <2>3, SameTokens DEF ReadToken, ProcessTypes
  <1>2. CASE MintToken(p)
    <2>1. minted' = minted + 1 /\ token' = minted' /\ minted \in Nat
      BY <1>2 DEF MintToken, ProcessTypes
    <2>2. Processes \subseteq Processes' /\ minted' \in Nat /\ token' \in 1..minted'
      BY <2>1, MoreTokens
    <2>3. x \in Processes' /\ "binding" \in Places
      BY <1>0, <2>2 DEF Places
    <2>4. [x EXCEPT !.at = "binding", !.token = token'] \in Processes'
      BY <2>2, <2>3 DEF Processes
    <2>5. procs' \in [Procs -> Processes']
      BY <1>2, <2>2, <2>4 DEF MintToken, ProcessTypes
    <2>6. QED
      BY <1>2, <2>2, <2>5 DEF MintToken, ProcessTypes
  <1>3. ASSUME NEW status, Ends(p, status), UNCHANGED << token, minted, outside >>,
               record' \in Records \union {Absent},
               aside' \in [last : MaybeRestarts, disturbed : BOOLEAN]
        PROVE  ProcessTypes'
    BY <1>3, EndsTypes, SameTokens DEF ProcessTypes, Supervisors
  <1>4. CASE RefuseConfig(p) \/ CannotBind(p)
    BY <1>3, <1>4 DEF RefuseConfig, CannotBind, ProcessTypes
  <1>5. CASE Bind(p)
    <2>1. (IF x.kind = "bridge" THEN "loading" ELSE "publishing") \in Places
      BY DEF Places
    <2>2. procs' \in [Procs -> Processes]
      BY <1>0, <1>5, <2>1, ProcessFields DEF Bind, ProcessTypes
    <2>3. QED
      BY <1>5, <2>2, SameTokens DEF Bind, ProcessTypes
  <1>6. CASE Publish(p)
    <2>1. Inherited(p) \in MaybeRestarts /\ "beginning" \in Places
      BY <1>0 DEF Inherited, ProcessTypes, Records, Places
    <2>2. [x EXCEPT !.at = "beginning", !.guard = Inherited(p)] \in Processes
      BY <1>0, <2>1, ProcessFields
    <2>3. procs' \in [Procs -> Processes]
      BY <1>6, <2>2 DEF Publish, ProcessTypes
    <2>4. aside' \in [last : MaybeRestarts, disturbed : BOOLEAN]
      BY <1>6 DEF Publish, ProcessTypes
    <2>5. QED
      BY <1>6, <2>1, <2>3, <2>4, SameTokens DEF Publish, ProcessTypes, Records
  <1>7. CASE Begin(p)
    <2> DEFINE held == IF x.kind = "bridge" THEN token ELSE x.token
               watch == IF x.kind = "service" THEN NewWatch(disk, x.guard) ELSE Absent
               judged == IF x.kind = "service" THEN {Stat(disk)} ELSE {}
    <2>1. /\ held \in 1..minted \union {Absent} /\ watch \in Watches \union {Absent}
          /\ judged \in SUBSET Stamps /\ "serving" \in Places
      BY <1>0, ProcessFields, WatchTypes DEF ProcessTypes, Places
    <2>2. procs' = [procs EXCEPT ![p].at = "serving", ![p].token = held, ![p].watch = watch, ![p].judged = judged]
      BY <1>7 DEF Begin
    <2> HIDE DEF held, watch, judged
    <2>3. [x EXCEPT !.at = "serving", !.token = held, !.watch = watch, !.judged = judged] \in Processes
      BY <1>0, <2>1, ProcessFields
    <2>4. procs' \in [Procs -> Processes]
      BY <2>2, <2>3 DEF ProcessTypes
    <2>5. QED
      BY <1>7, <2>4, SameTokens DEF Begin, ProcessTypes
  <1>8. CASE Tick(p)
    <2> DEFINE watch == Ticked(x.watch, disk, clock)
               judged == IF watch.checking = Absent THEN x.judged \union {watch.seen} ELSE x.judged
    <2>1. watch \in Watches
      BY <1>0, <1>8, ProcessFields, WatchTypes DEF Tick
    <2>2. judged \in SUBSET Stamps
      BY <1>0, <2>1, ProcessFields DEF Watches
    <2>3. procs' = [procs EXCEPT ![p].watch = watch, ![p].judged = judged]
      BY <1>8 DEF Tick
    <2> HIDE DEF watch, judged
    <2>4. [x EXCEPT !.watch = watch, !.judged = judged] \in Processes
      BY <1>0, <2>1, <2>2, ProcessFields
    <2>5. procs' \in [Procs -> Processes]
      BY <2>3, <2>4 DEF ProcessTypes
    <2>6. QED
      BY <1>8, <2>5, SameTokens DEF Tick, ProcessTypes
  <1>9. CASE StartDraining(p)
    <2>1. procs' \in [Procs -> Processes] /\ listener' \in Procs \union {Absent}
      BY <1>0, <1>9, ProcessFields DEF StartDraining, Released, ProcessTypes, Places
    <2>2. QED
      BY <1>9, <2>1, SameTokens DEF StartDraining, ProcessTypes
  <1>10. CASE StandAside(p)
    <2>1. x.decided \in MaybeRestarts
      BY <1>0, ProcessFields
    <2>2. QED
      BY <1>3, <1>10, <2>1 DEF StandAside, Records
  <1>11. CASE Withdraw(p)
    <2>1. aside' \in [last : MaybeRestarts, disturbed : BOOLEAN]
      BY <1>11 DEF Withdraw, ProcessTypes
    <2>2. QED
      BY <1>3, <1>11, <2>1 DEF Withdraw
  <1>12. ASSUME NEW answers \in BOOLEAN, Verified(p, answers) PROVE ProcessTypes'
    <2> DEFINE decided == IF answers THEN x.watch.checking ELSE Absent
               judged == IF answers THEN x.judged ELSE x.judged \union {x.watch.seen}
    <2>1. x.watch \in Watches
      BY <1>0, <1>12, ProcessFields DEF Verified, Verifying
    <2>2. [x.watch EXCEPT !.checking = Absent] \in Watches
      BY <1>0, <2>1 DEF Watches
    <2>3. decided \in MaybeRestarts /\ judged \in SUBSET Stamps
      BY <1>0, <2>1, ProcessFields DEF Watches
    <2>4. procs' = [procs EXCEPT ![p].watch.checking = Absent, ![p].decided = decided, ![p].judged = judged]
      BY <1>12 DEF Verified
    <2> HIDE DEF decided, judged
    <2>5. [x EXCEPT !.watch = [x.watch EXCEPT !.checking = Absent], !.decided = decided, !.judged = judged]
            \in Processes
      BY <1>0, <2>2, <2>3, ProcessFields
    <2>6. procs' \in [Procs -> Processes]
      BY <2>4, <2>5 DEF ProcessTypes
    <2>7. \/ left' = left
          \/ left.timeouts > 0 /\ left' = [left EXCEPT !.timeouts = @ - 1]
      BY <1>12 DEF Verified
    <2>8. left' \in Workings
      BY <2>7, WorkingsFields, Zenon
    <2>9. UNCHANGED << disk, clock, spec, cli, supervisor, record, listener, token, minted, aside >>
      BY <1>12 DEF Verified
    <2>10. QED
      BY <2>6, <2>8, <2>9, SameTokens DEF ProcessTypes
  <1>13. QED
    BY <1>1, <1>2, <1>4, <1>5, <1>6, <1>7, <1>8, <1>9, <1>10, <1>11, <1>12

\* The steps of a bridge, what befalls a process, and its supervisor's.
LEMMA OtherStepTypes ==
    ASSUME ProcessTypes, NEW p \in Procs,
           \/ Probe(p) \/ LoseTheRace(p) \/ Waited(p) \/ LoadConfig(p)
           \/ Interrupt(p) \/ Crash(p) \/ ClientCloses(p) \/ Drained(p)
           \/ \E kind \in {"serve", "bridge"} : Run(p, kind)
           \/ Launch(p) \/ StopChild(p) \/ KillChild(p)
    PROVE  ProcessTypes'
  <1> USE DEF others, outside, environmentRest
  <1> DEFINE x == procs[p]
  <1>0. x \in Processes /\ \A at \in Places : [x EXCEPT !.at = at] \in Processes
    BY ProcessFields DEF ProcessTypes
  <1>1. CASE Probe(p) \/ LoseTheRace(p) \/ Waited(p) \/ LoadConfig(p) \/ Drained(p)
    <2>1. PICK at \in Places : procs' = [procs EXCEPT ![p].at = at]
      BY <1>1 DEF Probe, LoseTheRace, Waited, LoadConfig, Drained, Goes, Places
    <2>2. procs' \in [Procs -> Processes]
      BY <1>0, <2>1 DEF ProcessTypes
    <2>3. listener' \in Procs \union {Absent}
      BY <1>1 DEF Probe, LoseTheRace, Waited, LoadConfig, Drained, ProcessTypes
    <2>4. UNCHANGED << record, token, minted, aside, others >>
      BY <1>1 DEF Probe, LoseTheRace, Waited, LoadConfig, Drained
    <2>5. QED
      BY <2>2, <2>3, <2>4, SameTokens DEF ProcessTypes
  <1>2. CASE ClientCloses(p)
    <2>1. /\ procs' = [procs EXCEPT ![p] = IF x.at = "serving" THEN [x EXCEPT !.at = "draining"] ELSE Gone]
          /\ listener' = Released(p)
      BY <1>2 DEF ClientCloses
    <2>2. (IF x.at = "serving" THEN [x EXCEPT !.at = "draining"] ELSE Gone) \in Processes
      BY <1>0, GoneIsProcess DEF Places
    <2>3. procs' \in [Procs -> Processes] /\ listener' \in Procs \union {Absent}
      BY <2>1, <2>2 DEF ProcessTypes, Released
    <2>4. QED
      BY <1>2, <2>3, SameTokens DEF ClientCloses, ProcessTypes
  <1>3. CASE Interrupt(p)
    <2>1. left' \in Workings
      BY <1>3, WorkingsFields DEF Interrupt
    <2>2. QED
      BY <1>3, <2>1, SignalledTypes, SameTokens DEF Interrupt, ProcessTypes, Supervisors
  <1>4. CASE Crash(p)
    <2>1. left' \in Workings
      BY <1>4, WorkingsFields DEF Crash
    <2>2. QED
      BY <1>4, <2>1, EndsTypes, SameTokens DEF Crash, ProcessTypes, Supervisors
  <1>5. ASSUME NEW kind \in {"serve", "bridge"}, Run(p, kind) PROVE ProcessTypes'
    <2>1. left' \in Workings
      BY <1>5, WorkingsFields DEF Run
    <2>2. Started(kind) \in Processes
      BY <1>5, StartedIsProcess DEF Run, Kinds
    <2>3. procs' \in [Procs -> Processes]
      BY <1>5, <2>2 DEF Run, ProcessTypes
    <2>4. QED
      BY <1>5, <2>1, <2>3, SameTokens DEF Run, ProcessTypes
  <1>6. CASE Launch(p)
    <2>1. Started("service") \in Processes
      BY <1>6, StartedIsProcess DEF Launch, Kinds
    <2>2. procs' \in [Procs -> Processes]
      BY <1>6, <2>1 DEF Launch, ProcessTypes
    <2>3. supervisor' \in Supervisors
      BY <1>6 DEF Launch, ProcessTypes, Supervisors
    <2>4. QED
      BY <1>6, <2>2, <2>3, SameTokens DEF Launch, ProcessTypes, Supervisors
  <1>7. CASE StopChild(p) \/ KillChild(p)
    <2>1. Signalled(p) \/ Ends(p, Killed)
      BY <1>7 DEF StopChild, KillChild
    <2>2. procs' \in [Procs -> Processes] /\ listener' \in Procs \union {Absent} /\ supervisor' \in Supervisors
      BY <2>1, SignalledTypes, EndsTypes
    <2>3. UNCHANGED << outside, record, token, minted, aside >>
      BY <1>7 DEF StopChild, KillChild
    <2>4. QED
      BY <2>2, <2>3, SameTokens DEF ProcessTypes, Supervisors
  <1>8. QED
    BY <1>1, <1>2, <1>3, <1>4, <1>5, <1>6, <1>7

\* The commands, and what happens to the machine.
LEMMA CommandTypes ==
    ASSUME ProcessTypes,
           \/ Install \/ InstallReadsToken \/ InstallMints \/ Preflight \/ Register \/ SaveSpec
           \/ \E command \in {"stop", "uninstall"} : Stop(command)
           \/ Stopped \/ RemoveSpec \/ Start \/ Rotate
           \/ SelfUpdate \/ \E works \in BOOLEAN : Stage(works) \/ CheckStaged(works) \/ Replace(works)
           \/ ReplaceBinary \/ TimePasses
    PROVE  ProcessTypes'
  <1> USE DEF daemonRest, updateRest, environmentRest
  <1> DEFINE Commands == [at : CommandPlaces, own : BOOLEAN] \union {Absent}
  <1>1. ASSUME NEW command, Asks(command) PROVE left' \in Workings
    BY <1>1, WorkingsFields DEF Asks
  <1>2. ASSUME NEW at \in CommandPlaces
        PROVE  /\ [at |-> at, own |-> FALSE] \in Commands
               /\ cli # Absent => [cli EXCEPT !.at = at] \in Commands
    BY DEF ProcessTypes
  <1>3. Absent \in Commands /\ cli \in Commands /\ supervisor \in Supervisors
    BY DEF ProcessTypes, Supervisors
  <1>4. ASSUME NEW given \in Commands, NEW known \in Supervisors, NEW rest \in Workings,
               cli' = given, supervisor' = known, left' = rest,
               disk' \in Binaries \union {Absent}, clock' \in 0..MaxTime, spec' \in BOOLEAN,
               token' \in 1..minted' \union {Absent}, minted' \in {minted, minted + 1},
               UNCHANGED << record, listener, procs, aside >>
        PROVE  ProcessTypes'
    <2>1. Processes \subseteq Processes' /\ minted' \in Nat
      BY <1>4, MoreTokens DEF ProcessTypes
    <2>2. QED
      BY <1>4, <2>1 DEF ProcessTypes, Supervisors
  <1> HIDE DEF Commands
  <1>5. CASE Install
    <2>1. cli' \in Commands
      BY <1>5 DEF Install, OwnServiceAnswers, Commands, CommandPlaces
    <2>2. QED
      BY <1>1, <1>3, <1>4, <1>5, <2>1 DEF Install, ProcessTypes
  <1>6. CASE InstallReadsToken
    <2>1. cli' \in Commands
      BY <1>2, <1>6 DEF InstallReadsToken, CommandPlaces
    <2>2. QED
      BY <1>3, <1>4, <1>6, <2>1 DEF InstallReadsToken, ProcessTypes
  <1>7. CASE InstallMints
    <2>1. cli' \in Commands
      BY <1>2, <1>7 DEF InstallMints, CommandPlaces
    <2>2. token' \in 1..minted' \union {Absent}
      BY <1>7 DEF InstallMints, ProcessTypes
    <2>3. QED
      BY <1>3, <1>4, <1>7, <2>1, <2>2 DEF InstallMints, ProcessTypes
  <1>8. CASE Preflight
    <2>1. cli' \in Commands
      BY <1>2, <1>3, <1>8 DEF Preflight, CommandPlaces
    <2>2. supervisor' \in Supervisors
      BY <1>3, <1>8 DEF Preflight, Supervisors
    <2>3. QED
      BY <1>4, <1>8, <2>1, <2>2 DEF Preflight, ProcessTypes
  <1>9. CASE Register
    <2>1. cli' \in Commands
      BY <1>2, <1>9 DEF Register, CommandPlaces
    <2>2. supervisor' \in Supervisors
      BY <1>3, <1>9 DEF Register, Supervisors
    <2>3. QED
      BY <1>4, <1>9, <2>1, <2>2 DEF Register, ProcessTypes
  <1>10. CASE SaveSpec \/ RemoveSpec
    BY <1>3, <1>4, <1>10 DEF SaveSpec, RemoveSpec, ProcessTypes
  <1>11. ASSUME NEW command \in {"stop", "uninstall"}, Stop(command) PROVE ProcessTypes'
    <2>1. cli' \in Commands
      BY <1>2, <1>11 DEF Stop, CommandPlaces
    <2>2. supervisor' \in Supervisors
      BY <1>3, <1>11 DEF Stop, Supervisors
    <2>3. QED
      BY <1>1, <1>4, <1>11, <2>1, <2>2 DEF Stop, ProcessTypes
  <1>12. CASE Stopped
    <2>1. cli' \in Commands
      BY <1>2, <1>3, <1>12 DEF Stopped, CommandPlaces
    <2>2. supervisor' \in Supervisors
      BY <1>3, <1>12 DEF Stopped, Supervisors
    <2>3. QED
      BY <1>4, <1>12, <2>1, <2>2 DEF Stopped, ProcessTypes
  <1>13. CASE Start
    <2>1. supervisor' \in Supervisors
      BY <1>3, <1>13 DEF Start, Supervisors
    <2>2. QED
      BY <1>1, <1>3, <1>4, <1>13, <2>1 DEF Start, ProcessTypes
  <1>14. CASE Rotate
    <2>1. token' \in 1..minted' \union {Absent}
      BY <1>14 DEF Rotate, ProcessTypes
    <2>2. QED
      BY <1>1, <1>3, <1>4, <1>14, <2>1 DEF Rotate, ProcessTypes
  <1>15. CASE SelfUpdate
    <2>1. cli' \in Commands
      BY <1>2, <1>3, <1>15 DEF SelfUpdate, CommandPlaces
    <2>2. QED
      BY <1>1, <1>3, <1>4, <1>15, <2>1 DEF SelfUpdate, ProcessTypes
  <1>16. ASSUME NEW works \in BOOLEAN, Stage(works) \/ CheckStaged(works) PROVE ProcessTypes'
    <2>1. cli' \in Commands
      BY <1>2, <1>3, <1>16 DEF Stage, CheckStaged, UpdateStep, CommandPlaces
    <2>2. QED
      BY <1>3, <1>4, <1>16, <2>1 DEF Stage, CheckStaged, UpdateStep, ProcessTypes
  <1>17. ASSUME NEW works \in BOOLEAN, Replace(works) PROVE ProcessTypes'
    <2>1. cli' \in Commands
      BY <1>3, <1>17 DEF Replace, UpdateStep
    <2>2. disk' \in Binaries \union {Absent}
      BY <1>17, WorkingsFields DEF Replace, ProcessTypes
    <2>3. QED
      BY <1>3, <1>4, <1>17, <2>1, <2>2 DEF Replace, UpdateStep, ProcessTypes
  <1>18. CASE ReplaceBinary
    <2>1. left' \in Workings /\ disk' \in Binaries \union {Absent}
      BY <1>18, WorkingsFields DEF ReplaceBinary
    <2>2. QED
      BY <1>3, <1>4, <1>18, <2>1 DEF ReplaceBinary, ProcessTypes
  <1>19. CASE TimePasses
    <2>1. left.time \in 0..MaxTime
      BY DEF ProcessTypes, Workings
    <2>2. clock' \in 0..MaxTime
      BY <1>19, <2>1, ProcessAssumption DEF TimePasses, ProcessTypes
    <2>3. QED
      BY <1>3, <1>4, <1>19, <2>2 DEF TimePasses, ProcessTypes
  <1>20. QED
    BY <1>5, <1>6, <1>7, <1>8, <1>9, <1>10, <1>11, <1>12, <1>13, <1>14, <1>15, <1>16, <1>17, <1>18, <1>19

LEMMA NextProcessTypes == ProcessTypes /\ [Next]_vars => ProcessTypes'
  <1> SUFFICES ASSUME ProcessTypes, [Next]_vars PROVE ProcessTypes'
    OBVIOUS
  <1>1. CASE UNCHANGED processVars
    BY <1>1, SameTokens DEF processVars, ProcessTypes
  <1>2. QED
    BY <1>1, ProcessActions, ServeStepTypes, OtherStepTypes, CommandTypes

-----------------------------------------------------------------------------
(* What the steps do to what the invariants are about.                      *)

Becomes(p, kind, at, guard, watch, decided) ==
    /\ procs'[p].kind = kind /\ procs'[p].at = at /\ procs'[p].guard = guard
    /\ procs'[p].watch = watch /\ procs'[p].decided = decided
    /\ \A q \in Procs \ {p} : procs'[q] = procs[q]
Moves(p, at) == Becomes(p, procs[p].kind, at, procs[p].guard, procs[p].watch, procs[p].decided)
EndsNow(p) ==
    /\ Becomes(p, "serve", "gone", Absent, Absent, Absent)
    /\ listener' = Released(p)
    /\ \A q \in Procs \ {p} : supervisor.child = q => supervisor'.child = q
same == << listener, supervisor, record, aside >>

\* The watch keeps its guard, and checks no restart the guard refuses.
LEMMA WatchObeys ==
    /\ \A guard : NewWatch(disk, guard).guard = guard /\ NewWatch(disk, guard).checking = Absent
    /\ \A watch \in Watches : LET next == Ticked(watch, disk, clock) IN
          watch.checking = Absent =>
              next.guard = watch.guard /\ (next.checking # Absent => ~Refused(watch.guard, next.checking))
  <1>1. \A guard : NewWatch(disk, guard).guard = guard /\ NewWatch(disk, guard).checking = Absent
    BY DEF NewWatch
  <1>2. ASSUME NEW watch \in Watches, watch.checking = Absent
        PROVE  LET next == Ticked(watch, disk, clock) IN
               next.guard = watch.guard /\ (next.checking # Absent => ~Refused(watch.guard, next.checking))
    <2> DEFINE next == Ticked(watch, disk, clock)  restart == UpgradeRestart(disk, clock)
    <2>1. CASE Stat(disk) \in {NoStamp, watch.seen}
      BY <1>2, <2>1 DEF Ticked, Watches
    <2>2. CASE Stat(disk) \notin {NoStamp, watch.seen, watch.candidate}
      BY <1>2, <2>2 DEF Ticked, Watches
    <2>3. CASE Stat(disk) \notin {NoStamp, watch.seen} /\ Stat(disk) = watch.candidate
      <3>1. next.guard = watch.guard
        BY <2>3 DEF Ticked, Watches
      <3>2. next.checking = IF Refused(watch.guard, restart) THEN Absent ELSE restart
        BY <2>3 DEF Ticked, Watches
      <3>3. QED
        BY <3>1, <3>2
    <2>4. QED
      BY <2>1, <2>2, <2>3
  <1>3. QED
    BY <1>1, <1>2

LEMMA Rewrites ==
    ASSUME ProcessTypes, NEW p \in Procs
    PROVE  /\ \A at : procs' = [procs EXCEPT ![p].at = at] => Moves(p, at)
           /\ \A at, held : procs' = [procs EXCEPT ![p].at = at, ![p].token = held] => Moves(p, at)
           /\ procs' = [procs EXCEPT ![p].stop = TRUE] => Moves(p, procs[p].at)
  <1>1. procs[p] \in Processes /\ DOMAIN procs = Procs
    BY DEF ProcessTypes
  <1>2. QED
    BY <1>1 DEF Processes, Moves, Becomes

LEMMA EndsDoes == ASSUME ProcessTypes, NEW p \in Procs, NEW status, Ends(p, status) PROVE EndsNow(p)
  <1>1. procs'[p] = Gone /\ \A q \in Procs \ {p} : procs'[q] = procs[q]
    BY DEF Ends, ProcessTypes
  <1>2. \A q \in Procs \ {p} : supervisor.child = q => supervisor'.child = q
    BY DEF Ends
  <1>3. QED
    BY <1>1, <1>2 DEF Ends, EndsNow, Becomes, Gone, Released

LEMMA StartingDoes ==
    ASSUME ProcessTypes, NEW p \in Procs, ReadToken(p) \/ MintToken(p)
    PROVE  /\ procs[p].at \in {"starting", "minting"} /\ UNCHANGED same
           /\ \E at \in {"minting", "binding"} : Moves(p, at)
  <1>1. PICK at \in {"minting", "binding"} : \E held : procs' = [procs EXCEPT ![p].at = at, ![p].token = held]
    BY DEF ReadToken, MintToken
  <1>2. Moves(p, at)
    BY <1>1, Rewrites
  <1>3. QED
    BY <1>2 DEF ReadToken, MintToken, others, outside, same

LEMMA BindDoes ==
    ASSUME ProcessTypes, NEW p \in Procs, Bind(p)
    PROVE  /\ procs[p].at = "binding" /\ listener = Absent /\ listener' = p
           /\ UNCHANGED << supervisor, record, aside >>
           /\ \E at \in {"loading", "publishing"} : Moves(p, at)
  <1>1. PICK at \in {"loading", "publishing"} : procs' = [procs EXCEPT ![p].at = at]
    BY DEF Bind
  <1>2. Moves(p, at)
    BY <1>1, Rewrites
  <1>3. QED
    BY <1>2 DEF Bind, others, outside

LEMMA PublishDoes ==
    ASSUME ProcessTypes, NEW p \in Procs, Publish(p)
    PROVE  LET x == procs[p] IN
           /\ x.at = "publishing" /\ UNCHANGED << listener, supervisor >>
           /\ Becomes(p, x.kind, "beginning", Inherited(p), x.watch, x.decided)
           /\ record'.last = Inherited(p) /\ record' # Absent
           /\ aside'.last = aside.last
           /\ ~aside'.disturbed => ~aside.disturbed /\ x.kind = "service"
  <1>1. procs[p] \in Processes /\ DOMAIN procs = Procs /\ aside \in [last : MaybeRestarts, disturbed : BOOLEAN]
    BY DEF ProcessTypes
  <1>2. Becomes(p, procs[p].kind, "beginning", Inherited(p), procs[p].watch, procs[p].decided)
    BY <1>1 DEF Publish, Becomes, Processes
  <1>3. aside'.last = aside.last /\ (~aside'.disturbed => ~aside.disturbed /\ procs[p].kind = "service")
    BY <1>1 DEF Publish
  <1>4. Inherited(p) \in MaybeRestarts
    BY DEF Inherited, ProcessTypes, Records, MaybeRestarts
  <1>5. record' \in Records /\ record'.last = Inherited(p)
    BY <1>4 DEF Publish, Records
  <1>6. QED
    BY <1>2, <1>3, <1>5, ProcessAssumption DEF Publish, others, outside

LEMMA BeginDoes ==
    ASSUME ProcessTypes, NEW p \in Procs, Begin(p)
    PROVE  LET x == procs[p] IN
           /\ x.at = "beginning" /\ UNCHANGED same
           /\ \E watch : /\ Becomes(p, x.kind, "serving", x.guard, watch, x.decided)
                         /\ watch # Absent =>
                               x.kind = "service" /\ watch.guard = x.guard /\ watch.checking = Absent
  <1> DEFINE x == procs[p]  watch == IF x.kind = "service" THEN NewWatch(disk, x.guard) ELSE Absent
  <1>1. x \in Processes /\ DOMAIN procs = Procs
    BY DEF ProcessTypes
  <1>2. Becomes(p, x.kind, "serving", x.guard, watch, x.decided)
    BY <1>1 DEF Begin, Becomes, Processes
  <1>3. watch # Absent => x.kind = "service" /\ watch.guard = x.guard /\ watch.checking = Absent
    BY WatchObeys
  <1>4. x.at = "beginning" /\ UNCHANGED same
    BY DEF Begin, same, others, outside
  <1> HIDE DEF watch
  <1>5. QED
    BY <1>2, <1>3, <1>4

LEMMA TickDoes ==
    ASSUME ProcessTypes, NEW p \in Procs, Tick(p)
    PROVE  LET x == procs[p] IN
           /\ x.at = "serving" /\ x.watch # Absent /\ UNCHANGED same
           /\ \E watch :
                 /\ Becomes(p, x.kind, x.at, x.guard, watch, x.decided)
                 /\ watch.guard = x.watch.guard
                 /\ watch.checking # Absent => ~Refused(watch.guard, watch.checking)
  <1>1. procs[p] \in Processes /\ DOMAIN procs = Procs
    BY DEF ProcessTypes
  <1>2. procs[p].watch \in Watches /\ procs[p].watch.checking = Absent
    BY <1>1, ProcessFields DEF Tick, Verifying
  <1>3. Becomes(p, procs[p].kind, procs[p].at, procs[p].guard, Ticked(procs[p].watch, disk, clock), procs[p].decided)
    BY <1>1 DEF Tick, Becomes, Processes
  <1>4. procs[p].at = "serving" /\ procs[p].watch # Absent /\ UNCHANGED same
    BY DEF Tick, same, others, outside
  <1>5. QED
    BY <1>2, <1>3, <1>4, WatchObeys

LEMMA StartDrainingDoes ==
    ASSUME ProcessTypes, NEW p \in Procs, StartDraining(p)
    PROVE  /\ procs[p].at = "serving" /\ Moves(p, "draining") /\ listener' = Released(p)
           /\ UNCHANGED << supervisor, record, aside >>
  BY Rewrites DEF StartDraining, others, outside

LEMMA StandAsideDoes ==
    ASSUME ProcessTypes, NEW p \in Procs, StandAside(p)
    PROVE  /\ EndsNow(p) /\ procs[p].at = "drained" /\ procs[p].decided # Absent
           /\ record'.last = procs[p].decided /\ record' # Absent /\ aside'.last = procs[p].decided
  <1>1. procs[p].decided \in MaybeRestarts
    BY ProcessFields DEF ProcessTypes
  <1>2. record' \in Records /\ record'.last = procs[p].decided
    BY <1>1 DEF StandAside, Records
  <1>3. QED
    BY <1>2, EndsDoes, ProcessAssumption DEF StandAside

LEMMA WithdrawDoes ==
    ASSUME ProcessTypes, NEW p \in Procs, Withdraw(p) PROVE EndsNow(p) /\ aside'.disturbed
  BY EndsDoes DEF Withdraw, ProcessTypes

LEMMA RefusedDoes ==
    ASSUME ProcessTypes, NEW p \in Procs, RefuseConfig(p) \/ CannotBind(p)
    PROVE  EndsNow(p) /\ UNCHANGED << record, aside >>
  BY EndsDoes DEF RefuseConfig, CannotBind

LEMMA VerifiedDoes ==
    ASSUME ProcessTypes, NEW p \in Procs, NEW answers \in BOOLEAN, Verified(p, answers)
    PROVE  LET x == procs[p] IN
           /\ Verifying(p) /\ UNCHANGED same
           /\ \E watch, decided :
                 /\ Becomes(p, x.kind, x.at, x.guard, watch, decided)
                 /\ watch.guard = x.watch.guard /\ watch.checking = Absent
                 /\ decided \in {x.watch.checking, Absent}
  <1> DEFINE x == procs[p]
             watch == [x.watch EXCEPT !.checking = Absent]
             decided == IF answers THEN x.watch.checking ELSE Absent
  <1>1. x \in Processes /\ DOMAIN procs = Procs
    BY DEF ProcessTypes
  <1>2. Verifying(p) /\ UNCHANGED same
    BY DEF Verified, same
  <1>3. watch.guard = x.watch.guard /\ watch.checking = Absent
    BY <1>1, <1>2, ProcessFields DEF Verifying, Watches
  <1>4. Becomes(p, x.kind, x.at, x.guard, watch, decided)
    BY <1>1 DEF Verified, Becomes, Processes
  <1>5. decided \in {x.watch.checking, Absent}
    OBVIOUS
  <1> HIDE DEF watch, decided
  <1>6. QED
    BY <1>2, <1>3, <1>4, <1>5

LEMMA OtherStepsDo ==
    ASSUME ProcessTypes, NEW p \in Procs
    PROVE  LET x == procs[p] IN
           /\ Probe(p) \/ LoseTheRace(p) \/ Waited(p) =>
                 /\ x.at \in {"probing", "binding", "waiting"} /\ UNCHANGED same
                 /\ \E at \in {"binding", "bridging", "waiting"} : Moves(p, at)
           /\ LoadConfig(p) =>
                 /\ x.at = "loading" /\ UNCHANGED << supervisor, record, aside >>
                 /\ \/ listener' = p /\ Moves(p, "publishing")
                    \/ listener' = Absent /\ Moves(p, "bridging")
           /\ Drained(p) => x.at = "draining" /\ Moves(p, "drained") /\ UNCHANGED same
           /\ ClientCloses(p) =>
                 /\ x.kind = "bridge" /\ listener' = Released(p) /\ UNCHANGED << supervisor, record, aside >>
                 /\ \/ x.at = "serving" /\ Moves(p, "draining")
                    \/ x.at = "bridging" /\ Becomes(p, "serve", "gone", Absent, Absent, Absent)
           /\ Interrupt(p) \/ StopChild(p) =>
                 /\ UNCHANGED << record, aside >>
                 /\ EndsNow(p) \/ (Moves(p, x.at) /\ UNCHANGED same)
           /\ Crash(p) \/ KillChild(p) => EndsNow(p) /\ UNCHANGED << record, aside >>
           /\ \A kind \in {"serve", "bridge"} : Run(p, kind) =>
                 /\ x.at = "gone" /\ UNCHANGED same
                 /\ \E at \in {"starting", "probing"} : Becomes(p, kind, at, Absent, Absent, Absent)
           /\ Launch(p) =>
                 /\ x.at = "gone" /\ supervisor.child = Absent /\ supervisor'.child = p
                 /\ UNCHANGED << listener, record, aside >>
                 /\ Becomes(p, "service", "starting", Absent, Absent, Absent)
  <1> DEFINE x == procs[p]
  <1> USE DEF others, outside, same, environmentRest
  <1>0. DOMAIN procs = Procs /\ supervisor \in Supervisors
    BY DEF ProcessTypes, Supervisors
  <1>1. ASSUME Probe(p) \/ LoseTheRace(p) \/ Waited(p)
        PROVE  /\ x.at \in {"probing", "binding", "waiting"} /\ UNCHANGED same
               /\ \E at \in {"binding", "bridging", "waiting"} : Moves(p, at)
    <2>1. PICK at \in {"binding", "bridging", "waiting"} : procs' = [procs EXCEPT ![p].at = at]
      BY <1>1 DEF Probe, LoseTheRace, Waited, Goes
    <2>2. Moves(p, at)
      BY <2>1, Rewrites
    <2>3. QED
      BY <1>1, <2>2 DEF Probe, LoseTheRace, Waited, Goes
  <1>2. ASSUME LoadConfig(p)
        PROVE  /\ x.at = "loading" /\ UNCHANGED << supervisor, record, aside >>
               /\ \/ listener' = p /\ Moves(p, "publishing")
                  \/ listener' = Absent /\ Moves(p, "bridging")
    BY <1>2, Rewrites DEF LoadConfig, Goes
  <1>3. ASSUME Drained(p) PROVE x.at = "draining" /\ Moves(p, "drained") /\ UNCHANGED same
    BY <1>3, Rewrites DEF Drained, Goes
  <1>4. ASSUME ClientCloses(p)
        PROVE  /\ x.kind = "bridge" /\ listener' = Released(p) /\ UNCHANGED << supervisor, record, aside >>
               /\ \/ x.at = "serving" /\ Moves(p, "draining")
                  \/ x.at = "bridging" /\ Becomes(p, "serve", "gone", Absent, Absent, Absent)
    <2>1. /\ x.kind = "bridge" /\ x.at \in {"bridging", "serving"} /\ listener' = Released(p)
          /\ UNCHANGED << supervisor, record, aside >>
      BY <1>4 DEF ClientCloses
    <2>2. CASE x.at = "serving"
      <3>1. procs' = [procs EXCEPT ![p].at = "draining"]
        BY <1>4, <2>2 DEF ClientCloses
      <3>2. QED
        BY <2>1, <2>2, <3>1, Rewrites
    <2>3. CASE x.at = "bridging"
      <3>1. procs' = [procs EXCEPT ![p] = Gone]
        BY <1>4, <2>3 DEF ClientCloses
      <3>2. QED
        BY <1>0, <2>1, <2>3, <3>1 DEF Becomes, Gone
    <2>4. QED
      BY <2>1, <2>2, <2>3
  <1>5. ASSUME Interrupt(p) \/ StopChild(p)
        PROVE  /\ UNCHANGED << record, aside >>
               /\ EndsNow(p) \/ (Moves(p, x.at) /\ UNCHANGED same)
    <2>1. Signalled(p) /\ UNCHANGED << record, aside >>
      BY <1>5 DEF Interrupt, StopChild
    <2>2. Ends(p, Killed) \/ (procs' = [procs EXCEPT ![p].stop = TRUE] /\ UNCHANGED << listener, supervisor >>)
      BY <2>1 DEF Signalled
    <2>3. QED
      BY <2>1, <2>2, EndsDoes, Rewrites
  <1>6. ASSUME Crash(p) \/ KillChild(p) PROVE EndsNow(p) /\ UNCHANGED << record, aside >>
    BY <1>6, EndsDoes DEF Crash, KillChild
  <1>7. ASSUME NEW kind \in {"serve", "bridge"}, Run(p, kind)
        PROVE  /\ x.at = "gone" /\ UNCHANGED same
               /\ \E at \in {"starting", "probing"} : Becomes(p, kind, at, Absent, Absent, Absent)
    BY <1>0, <1>7 DEF Run, FirstFree, Started, Gone, Becomes
  <1>8. ASSUME Launch(p)
        PROVE  /\ x.at = "gone" /\ supervisor.child = Absent /\ supervisor'.child = p
               /\ UNCHANGED << listener, record, aside >>
               /\ Becomes(p, "service", "starting", Absent, Absent, Absent)
    BY <1>0, <1>8 DEF Launch, FirstFree, Started, Gone, Becomes, Supervisors
  <1>9. QED
    BY <1>1, <1>2, <1>3, <1>4, <1>5, <1>6, <1>7, <1>8

\* A command touches neither a process nor the record.
LEMMA CommandsDo ==
    ASSUME ProcessTypes,
           \/ Install \/ InstallReadsToken \/ InstallMints \/ Preflight \/ Register \/ SaveSpec
           \/ \E command \in {"stop", "uninstall"} : Stop(command)
           \/ Stopped \/ RemoveSpec \/ Start \/ Rotate
           \/ SelfUpdate \/ \E works \in BOOLEAN : Stage(works) \/ CheckStaged(works) \/ Replace(works)
           \/ ReplaceBinary \/ TimePasses \/ UNCHANGED processVars
    PROVE  UNCHANGED << procs, listener, record, aside >> /\ supervisor'.child = supervisor.child
  <1>1. supervisor \in Supervisors
    BY DEF ProcessTypes, Supervisors
  <1>2. UNCHANGED << procs, listener, record, aside >>
    BY DEF Install, InstallReadsToken, InstallMints, Preflight, Register, SaveSpec, Stop, Stopped, RemoveSpec,
           Start, Rotate, SelfUpdate, Stage, CheckStaged, Replace, UpdateStep, ReplaceBinary, TimePasses,
           daemonRest, updateRest, environmentRest, processVars
  <1>3. supervisor'.child = supervisor.child
    BY <1>1
    DEF Supervisors, Install, InstallReadsToken, InstallMints, Preflight, Register, SaveSpec, Stop, Stopped,
        RemoveSpec, Start, Rotate, SelfUpdate, Stage, CheckStaged, Replace, UpdateStep, ReplaceBinary,
        TimePasses, daemonRest, updateRest, environmentRest, processVars
  <1>4. QED
    BY <1>2, <1>3

-----------------------------------------------------------------------------
(* The invariant holds step by step.                                        *)

LEMMA NextPortIsHeld == ProcessInv /\ [Next]_vars => PortIsHeld'
  <1> SUFFICES ASSUME ProcessInv, [Next]_vars PROVE PortIsHeld'
    OBVIOUS
  <1> USE DEF ProcessInv, ProcessTypeOK, PortIsHeld, Holding, Becomes, Moves, EndsNow, same, Released
  <1>0. Absent \notin Procs
    BY ProcessAssumption
  <1>1. ASSUME NEW p \in Procs, ReadToken(p) \/ MintToken(p) PROVE PortIsHeld'
    BY <1>1, StartingDoes, <1>0
  <1>2. ASSUME NEW p \in Procs, Bind(p) PROVE PortIsHeld'
    BY <1>2, BindDoes, <1>0
  <1>3. ASSUME NEW p \in Procs, Publish(p) PROVE PortIsHeld'
    BY <1>3, PublishDoes, <1>0
  <1>4. ASSUME NEW p \in Procs, Begin(p) PROVE PortIsHeld'
    BY <1>4, BeginDoes, <1>0
  <1>5. ASSUME NEW p \in Procs, Tick(p) PROVE PortIsHeld'
    BY <1>5, TickDoes, <1>0
  <1>6. ASSUME NEW p \in Procs, StartDraining(p) PROVE PortIsHeld'
    BY <1>6, StartDrainingDoes, <1>0
  <1>7. ASSUME NEW p \in Procs, StandAside(p) PROVE PortIsHeld'
    BY <1>7, StandAsideDoes, <1>0
  <1>8. ASSUME NEW p \in Procs, Withdraw(p) PROVE PortIsHeld'
    BY <1>8, WithdrawDoes, <1>0
  <1>9. ASSUME NEW p \in Procs, RefuseConfig(p) \/ CannotBind(p) PROVE PortIsHeld'
    BY <1>9, RefusedDoes, <1>0
  <1>10. ASSUME NEW p \in Procs, Probe(p) \/ LoseTheRace(p) \/ Waited(p) \/ LoadConfig(p) \/ Drained(p)
        PROVE PortIsHeld'
    BY <1>10, OtherStepsDo, <1>0
  <1>11. ASSUME NEW p \in Procs, Interrupt(p) \/ Crash(p) \/ ClientCloses(p) \/ Launch(p) \/ StopChild(p) \/ KillChild(p)
        PROVE PortIsHeld'
    BY <1>11, OtherStepsDo, <1>0
  <1>12. ASSUME NEW p \in Procs, NEW answers \in BOOLEAN, Verified(p, answers) PROVE PortIsHeld'
    BY <1>12, VerifiedDoes, <1>0
  <1>13. ASSUME NEW p \in Procs, NEW kind \in {"serve", "bridge"}, Run(p, kind) PROVE PortIsHeld'
    BY <1>13, OtherStepsDo, <1>0
  <1>14. CASE UNCHANGED << procs, listener, record, aside >> /\ supervisor'.child = supervisor.child
    BY <1>14
  <1>15. QED
    BY <1>1, <1>2, <1>3, <1>4, <1>5, <1>6, <1>7, <1>8, <1>9, <1>10, <1>11, <1>12, <1>13, <1>14,
       ProcessActions, CommandsDo

LEMMA NextServiceIsChild == ProcessInv /\ [Next]_vars => ServiceIsChild'
  <1> SUFFICES ASSUME ProcessInv, [Next]_vars PROVE ServiceIsChild'
    OBVIOUS
  <1> USE DEF ProcessInv, ProcessTypeOK, ServiceIsChild, Becomes, Moves, EndsNow, same, Released
  <1>0. Absent \notin Procs
    BY ProcessAssumption
  <1>1. ASSUME NEW p \in Procs, ReadToken(p) \/ MintToken(p) PROVE ServiceIsChild'
    BY <1>1, StartingDoes, <1>0
  <1>2. ASSUME NEW p \in Procs, Bind(p) PROVE ServiceIsChild'
    BY <1>2, BindDoes, <1>0
  <1>3. ASSUME NEW p \in Procs, Publish(p) PROVE ServiceIsChild'
    BY <1>3, PublishDoes, <1>0
  <1>4. ASSUME NEW p \in Procs, Begin(p) PROVE ServiceIsChild'
    BY <1>4, BeginDoes, <1>0
  <1>5. ASSUME NEW p \in Procs, Tick(p) PROVE ServiceIsChild'
    BY <1>5, TickDoes, <1>0
  <1>6. ASSUME NEW p \in Procs, StartDraining(p) PROVE ServiceIsChild'
    BY <1>6, StartDrainingDoes, <1>0
  <1>7. ASSUME NEW p \in Procs, StandAside(p) PROVE ServiceIsChild'
    BY <1>7, StandAsideDoes, <1>0
  <1>8. ASSUME NEW p \in Procs, Withdraw(p) PROVE ServiceIsChild'
    BY <1>8, WithdrawDoes, <1>0
  <1>9. ASSUME NEW p \in Procs, RefuseConfig(p) \/ CannotBind(p) PROVE ServiceIsChild'
    BY <1>9, RefusedDoes, <1>0
  <1>10. ASSUME NEW p \in Procs, Probe(p) \/ LoseTheRace(p) \/ Waited(p) \/ LoadConfig(p) \/ Drained(p)
        PROVE ServiceIsChild'
    BY <1>10, OtherStepsDo, <1>0
  <1>11. ASSUME NEW p \in Procs, Interrupt(p) \/ Crash(p) \/ ClientCloses(p) \/ Launch(p) \/ StopChild(p) \/ KillChild(p)
        PROVE ServiceIsChild'
    BY <1>11, OtherStepsDo, <1>0
  <1>12. ASSUME NEW p \in Procs, NEW answers \in BOOLEAN, Verified(p, answers) PROVE ServiceIsChild'
    BY <1>12, VerifiedDoes, <1>0
  <1>13. ASSUME NEW p \in Procs, NEW kind \in {"serve", "bridge"}, Run(p, kind) PROVE ServiceIsChild'
    BY <1>13, OtherStepsDo, <1>0
  <1>14. CASE UNCHANGED << procs, listener, record, aside >> /\ supervisor'.child = supervisor.child
    BY <1>14
  <1>15. QED
    BY <1>1, <1>2, <1>3, <1>4, <1>5, <1>6, <1>7, <1>8, <1>9, <1>10, <1>11, <1>12, <1>13, <1>14,
       ProcessActions, CommandsDo

LEMMA NextWatcherServes == ProcessInv /\ [Next]_vars => WatcherServes'
  <1> SUFFICES ASSUME ProcessInv, [Next]_vars PROVE WatcherServes'
    OBVIOUS
  <1> USE DEF ProcessInv, ProcessTypeOK, WatcherServes, Watching, Verifying,
             Becomes, Moves, EndsNow, same, Released
  <1>1. ASSUME NEW p \in Procs, ReadToken(p) \/ MintToken(p) PROVE WatcherServes'
    BY <1>1, StartingDoes
  <1>2. ASSUME NEW p \in Procs, Bind(p) PROVE WatcherServes'
    BY <1>2, BindDoes
  <1>3. ASSUME NEW p \in Procs, Publish(p) PROVE WatcherServes'
    BY <1>3, PublishDoes
  <1>4. ASSUME NEW p \in Procs, Begin(p) PROVE WatcherServes'
    BY <1>4, BeginDoes
  <1>5. ASSUME NEW p \in Procs, Tick(p) PROVE WatcherServes'
    BY <1>5, TickDoes
  <1>6. ASSUME NEW p \in Procs, StartDraining(p) PROVE WatcherServes'
    BY <1>6, StartDrainingDoes
  <1>7. ASSUME NEW p \in Procs, StandAside(p) PROVE WatcherServes'
    BY <1>7, StandAsideDoes
  <1>8. ASSUME NEW p \in Procs, Withdraw(p) PROVE WatcherServes'
    BY <1>8, WithdrawDoes
  <1>9. ASSUME NEW p \in Procs, RefuseConfig(p) \/ CannotBind(p) PROVE WatcherServes'
    BY <1>9, RefusedDoes
  <1>10. ASSUME NEW p \in Procs, Probe(p) \/ LoseTheRace(p) \/ Waited(p) \/ LoadConfig(p) \/ Drained(p)
        PROVE WatcherServes'
    BY <1>10, OtherStepsDo
  <1>11. ASSUME NEW p \in Procs, Interrupt(p) \/ Crash(p) \/ ClientCloses(p) \/ Launch(p) \/ StopChild(p) \/ KillChild(p)
        PROVE WatcherServes'
    BY <1>11, OtherStepsDo
  <1>12. ASSUME NEW p \in Procs, NEW answers \in BOOLEAN, Verified(p, answers) PROVE WatcherServes'
    BY <1>12, VerifiedDoes
  <1>13. ASSUME NEW p \in Procs, NEW kind \in {"serve", "bridge"}, Run(p, kind) PROVE WatcherServes'
    BY <1>13, OtherStepsDo
  <1>14. CASE UNCHANGED << procs, listener, record, aside >> /\ supervisor'.child = supervisor.child
    BY <1>14
  <1>15. QED
    BY <1>1, <1>2, <1>3, <1>4, <1>5, <1>6, <1>7, <1>8, <1>9, <1>10, <1>11, <1>12, <1>13, <1>14,
       ProcessActions, CommandsDo

LEMMA NextGuardIsObeyed == ProcessInv /\ [Next]_vars => GuardIsObeyed'
  <1> SUFFICES ASSUME ProcessInv, [Next]_vars PROVE GuardIsObeyed'
    OBVIOUS
  <1> USE DEF ProcessInv, ProcessTypeOK, GuardIsObeyed, WatcherServes, Watching, Verifying,
             Becomes, Moves, EndsNow, same, Released
  <1>1. ASSUME NEW p \in Procs, ReadToken(p) \/ MintToken(p) PROVE GuardIsObeyed'
    BY <1>1, StartingDoes
  <1>2. ASSUME NEW p \in Procs, Bind(p) PROVE GuardIsObeyed'
    BY <1>2, BindDoes
  <1>3. ASSUME NEW p \in Procs, Publish(p) PROVE GuardIsObeyed'
    BY <1>3, PublishDoes
  <1>4. ASSUME NEW p \in Procs, Begin(p) PROVE GuardIsObeyed'
    BY <1>4, BeginDoes
  <1>5. ASSUME NEW p \in Procs, Tick(p) PROVE GuardIsObeyed'
    BY <1>5, TickDoes
  <1>6. ASSUME NEW p \in Procs, StartDraining(p) PROVE GuardIsObeyed'
    BY <1>6, StartDrainingDoes
  <1>7. ASSUME NEW p \in Procs, StandAside(p) PROVE GuardIsObeyed'
    BY <1>7, StandAsideDoes
  <1>8. ASSUME NEW p \in Procs, Withdraw(p) PROVE GuardIsObeyed'
    BY <1>8, WithdrawDoes
  <1>9. ASSUME NEW p \in Procs, RefuseConfig(p) \/ CannotBind(p) PROVE GuardIsObeyed'
    BY <1>9, RefusedDoes
  <1>10. ASSUME NEW p \in Procs, Probe(p) \/ LoseTheRace(p) \/ Waited(p) \/ LoadConfig(p) \/ Drained(p)
        PROVE GuardIsObeyed'
    BY <1>10, OtherStepsDo
  <1>11. ASSUME NEW p \in Procs, Interrupt(p) \/ Crash(p) \/ ClientCloses(p) \/ Launch(p) \/ StopChild(p) \/ KillChild(p)
        PROVE GuardIsObeyed'
    BY <1>11, OtherStepsDo
  <1>12. ASSUME NEW p \in Procs, NEW answers \in BOOLEAN, Verified(p, answers) PROVE GuardIsObeyed'
    BY <1>12, VerifiedDoes
  <1>13. ASSUME NEW p \in Procs, NEW kind \in {"serve", "bridge"}, Run(p, kind) PROVE GuardIsObeyed'
    BY <1>13, OtherStepsDo
  <1>14. CASE UNCHANGED << procs, listener, record, aside >> /\ supervisor'.child = supervisor.child
    BY <1>14
  <1>15. QED
    BY <1>1, <1>2, <1>3, <1>4, <1>5, <1>6, <1>7, <1>8, <1>9, <1>10, <1>11, <1>12, <1>13, <1>14,
       ProcessActions, CommandsDo

LEMMA NextRestartIsOnRecord == ProcessInv /\ [Next]_vars => RestartIsOnRecord'
  <1> SUFFICES ASSUME ProcessInv, [Next]_vars PROVE RestartIsOnRecord'
    OBVIOUS
  <1> USE DEF ProcessInv, ProcessTypeOK, RestartIsOnRecord, Undisturbed, Inherited,
             Becomes, Moves, EndsNow, same, Released
  <1>1. ASSUME NEW p \in Procs, ReadToken(p) \/ MintToken(p) PROVE RestartIsOnRecord'
    BY <1>1, StartingDoes
  <1>2. ASSUME NEW p \in Procs, Bind(p) PROVE RestartIsOnRecord'
    BY <1>2, BindDoes
  <1>3. ASSUME NEW p \in Procs, Publish(p) PROVE RestartIsOnRecord'
    BY <1>3, PublishDoes
  <1>4. ASSUME NEW p \in Procs, Begin(p) PROVE RestartIsOnRecord'
    BY <1>4, BeginDoes
  <1>5. ASSUME NEW p \in Procs, Tick(p) PROVE RestartIsOnRecord'
    BY <1>5, TickDoes
  <1>6. ASSUME NEW p \in Procs, StartDraining(p) PROVE RestartIsOnRecord'
    BY <1>6, StartDrainingDoes
  <1>7. ASSUME NEW p \in Procs, StandAside(p) PROVE RestartIsOnRecord'
    BY <1>7, StandAsideDoes
  <1>8. ASSUME NEW p \in Procs, Withdraw(p) PROVE RestartIsOnRecord'
    BY <1>8, WithdrawDoes
  <1>9. ASSUME NEW p \in Procs, RefuseConfig(p) \/ CannotBind(p) PROVE RestartIsOnRecord'
    BY <1>9, RefusedDoes
  <1>10. ASSUME NEW p \in Procs, Probe(p) \/ LoseTheRace(p) \/ Waited(p) \/ LoadConfig(p) \/ Drained(p)
        PROVE RestartIsOnRecord'
    BY <1>10, OtherStepsDo
  <1>11. ASSUME NEW p \in Procs, Interrupt(p) \/ Crash(p) \/ ClientCloses(p) \/ Launch(p) \/ StopChild(p) \/ KillChild(p)
        PROVE RestartIsOnRecord'
    BY <1>11, OtherStepsDo
  <1>12. ASSUME NEW p \in Procs, NEW answers \in BOOLEAN, Verified(p, answers) PROVE RestartIsOnRecord'
    BY <1>12, VerifiedDoes
  <1>13. ASSUME NEW p \in Procs, NEW kind \in {"serve", "bridge"}, Run(p, kind) PROVE RestartIsOnRecord'
    BY <1>13, OtherStepsDo
  <1>14. CASE UNCHANGED << procs, listener, record, aside >> /\ supervisor'.child = supervisor.child
    BY <1>14
  <1>15. QED
    BY <1>1, <1>2, <1>3, <1>4, <1>5, <1>6, <1>7, <1>8, <1>9, <1>10, <1>11, <1>12, <1>13, <1>14,
       ProcessActions, CommandsDo

LEMMA NextGuardIsLastRestart == ProcessInv /\ [Next]_vars => GuardIsLastRestart'
  <1> SUFFICES ASSUME ProcessInv, [Next]_vars PROVE GuardIsLastRestart'
    OBVIOUS
  <1> USE DEF ProcessInv, ProcessTypeOK, GuardIsLastRestart, RestartIsOnRecord, Undisturbed, Inherited, Published,
             ServiceIsChild, WatcherServes, Watching, Becomes, Moves, EndsNow, same, Released
  <1>1. ASSUME NEW p \in Procs, ReadToken(p) \/ MintToken(p) PROVE GuardIsLastRestart'
    BY <1>1, StartingDoes
  <1>2. ASSUME NEW p \in Procs, Bind(p) PROVE GuardIsLastRestart'
    BY <1>2, BindDoes
  <1>3. ASSUME NEW p \in Procs, Publish(p) PROVE GuardIsLastRestart'
    BY <1>3, PublishDoes
  <1>4. ASSUME NEW p \in Procs, Begin(p) PROVE GuardIsLastRestart'
    BY <1>4, BeginDoes
  <1>5. ASSUME NEW p \in Procs, Tick(p) PROVE GuardIsLastRestart'
    BY <1>5, TickDoes
  <1>6. ASSUME NEW p \in Procs, StartDraining(p) PROVE GuardIsLastRestart'
    BY <1>6, StartDrainingDoes
  <1>7. ASSUME NEW p \in Procs, StandAside(p) PROVE GuardIsLastRestart'
    BY <1>7, StandAsideDoes
  <1>8. ASSUME NEW p \in Procs, Withdraw(p) PROVE GuardIsLastRestart'
    BY <1>8, WithdrawDoes
  <1>9. ASSUME NEW p \in Procs, RefuseConfig(p) \/ CannotBind(p) PROVE GuardIsLastRestart'
    BY <1>9, RefusedDoes
  <1>10. ASSUME NEW p \in Procs, Probe(p) \/ LoseTheRace(p) \/ Waited(p) \/ LoadConfig(p) \/ Drained(p)
        PROVE GuardIsLastRestart'
    BY <1>10, OtherStepsDo
  <1>11. ASSUME NEW p \in Procs, Interrupt(p) \/ Crash(p) \/ ClientCloses(p) \/ Launch(p) \/ StopChild(p) \/ KillChild(p)
        PROVE GuardIsLastRestart'
    BY <1>11, OtherStepsDo
  <1>12. ASSUME NEW p \in Procs, NEW answers \in BOOLEAN, Verified(p, answers) PROVE GuardIsLastRestart'
    BY <1>12, VerifiedDoes
  <1>13. ASSUME NEW p \in Procs, NEW kind \in {"serve", "bridge"}, Run(p, kind) PROVE GuardIsLastRestart'
    BY <1>13, OtherStepsDo
  <1>14. CASE UNCHANGED << procs, listener, record, aside >> /\ supervisor'.child = supervisor.child
    BY <1>14
  <1>15. QED
    BY <1>1, <1>2, <1>3, <1>4, <1>5, <1>6, <1>7, <1>8, <1>9, <1>10, <1>11, <1>12, <1>13, <1>14,
       ProcessActions, CommandsDo

-----------------------------------------------------------------------------
(* The machine at first.                                                    *)

LEMMA InitProcessInv == Init => ProcessInv
  <1> SUFFICES ASSUME NEW load \in Workloads, ProcessInit({load.gateway}) PROVE ProcessInv
    BY DEF Init
  <1>1. /\ left \in Workings /\ disk = First /\ clock = 0 /\ cli = Absent
        /\ aside = [last |-> Absent, disturbed |-> FALSE]
    BY WorkloadAssumption DEF ProcessInit
  <1>2. /\ disk \in Binaries \union {Absent} /\ clock \in 0..MaxTime /\ aside.last = Absent
        /\ aside \in [last : MaybeRestarts, disturbed : BOOLEAN] /\ Absent \in MaybeRestarts
        /\ cli \in [at : CommandPlaces, own : BOOLEAN] \union {Absent}
        /\ First.stamp \in Stamps /\ Absent \notin Procs
    BY <1>1, ProcessAssumption DEF MaybeRestarts, Stamps
  <1>3. CASE Fresh
    <2>1. procs \in [Procs -> Processes]
      BY <1>3, GoneIsProcess DEF Fresh
    <2>2. ProcessTypes
      BY <1>1, <1>2, <1>3, <2>1 DEF ProcessTypes, Fresh, NoService
    <2>3. PortIsHeld /\ ServiceIsChild
      BY <1>2, <1>3 DEF Fresh, Gone, PortIsHeld, ServiceIsChild, Holding
    <2>4. WatcherServes /\ GuardIsObeyed
      BY <1>3 DEF Fresh, Gone, WatcherServes, GuardIsObeyed
    <2>5. RestartIsOnRecord /\ GuardIsLastRestart
      BY <1>2 DEF RestartIsOnRecord, GuardIsLastRestart, Undisturbed
    <2>6. QED
      BY <2>2, <2>3, <2>4, <2>5 DEF ProcessInv, ProcessTypeOK
  <1>4. ASSUME NEW p \in Procs, Settled(p) PROVE ProcessInv
    <2> DEFINE watch == NewWatch(First, Absent)
               service == [Gone EXCEPT !.kind = "service", !.at = "serving", !.binary = First.stamp, !.token = 1,
                                       !.watch = watch, !.judged = {First.stamp}]
    <2>1. watch \in Watches /\ watch.guard = Absent /\ watch.checking = Absent
      BY <1>2 DEF NewWatch, Watches, Stat, Stamps
    <2>2. procs = [q \in Procs |-> IF q # p THEN Gone ELSE service] /\ minted = 1
      BY <1>4 DEF Settled
    <2> HIDE DEF watch
    <2>3. service \in Processes
      <3>1. "service" \in Kinds /\ "serving" \in Places /\ {First.stamp} \in SUBSET Stamps
            /\ 1 \in 1..minted \union {Absent}
        BY <1>2, <2>2 DEF Kinds, Places
      <3>2. [Gone EXCEPT !.kind = "service", !.at = "serving", !.binary = First.stamp] \in Processes
        BY <1>2, <3>1, GoneIsProcess, ProcessFields
      <3>3. QED
        BY <2>1, <3>1, <3>2, ProcessFields
    <2>4. /\ service.kind = "service" /\ service.at = "serving" /\ service.watch = watch
          /\ service.guard = Absent /\ service.decided = Absent
      BY DEF Gone
    <2> HIDE DEF service
    <2>5. procs \in [Procs -> Processes]
      BY <2>2, <2>3, GoneIsProcess
    <2>6. /\ record \in Records /\ listener = p /\ spec = TRUE /\ token = 1
          /\ supervisor \in Supervisors /\ supervisor.child = p
      BY <1>2, <1>4 DEF Settled, NoService, Records, Supervisors
    <2>7. ProcessTypes
      BY <1>1, <1>2, <2>2, <2>5, <2>6 DEF ProcessTypes, Supervisors
    <2>8. PortIsHeld /\ ServiceIsChild
      BY <2>2, <2>4, <2>6 DEF Gone, PortIsHeld, ServiceIsChild, Holding
    <2>9. WatcherServes /\ GuardIsObeyed
      BY <2>1, <2>2, <2>4 DEF Gone, WatcherServes, GuardIsObeyed, Watching
    <2>10. RestartIsOnRecord /\ GuardIsLastRestart
      BY <1>2 DEF RestartIsOnRecord, GuardIsLastRestart, Undisturbed
    <2>11. QED
      BY <2>7, <2>8, <2>9, <2>10 DEF ProcessInv, ProcessTypeOK
  <1>5. QED
    BY <1>3, <1>4 DEF ProcessInit

LEMMA ProcessInvariant == Spec => []ProcessInv
  <1>1. ProcessInv /\ [Next]_vars => ProcessInv'
    BY NextProcessTypes, NextPortIsHeld, NextServiceIsChild, NextWatcherServes, NextGuardIsObeyed,
       NextRestartIsOnRecord, NextGuardIsLastRestart DEF ProcessInv, ProcessTypeOK
  <1>2. QED
    BY <1>1, InitProcessInv, PTL DEF Spec

-----------------------------------------------------------------------------
(* The theorems.                                                            *)

\* The files, processes and commands of an install are always what they may be;
\* the port is held by exactly the process between its bind and its drain
\* (serve.rs, connect.rs), and the supervisor runs one service at a time.
THEOREM InstallTypeCorrect == Spec => []TypeOK
  <1>1. ProcessInv /\ LoginTypeOK => TypeOK
    BY DEF ProcessInv, TypeOK
  <1>2. QED
    BY <1>1, ProcessInvariant, LoginTypeCorrect, PTL

\* A service that stepped aside for a binary is not followed, within the
\* cool-down, by one that steps aside for it again, whatever binaries come and
\* go at its path and however often it is killed and started in between
\* (upgrade.rs, runtime.rs).
THEOREM NoRestartLoopHolds == Spec => []NoRestartLoop
  <1>1. ProcessInv => NoRestartLoop
    <2> SUFFICES ASSUME ProcessInv, NEW p \in Procs,
                        procs[p].decided # Absent, aside.last # Absent, ~aside.disturbed
                 PROVE  \/ procs[p].decided.second # aside.last.second
                        \/ procs[p].decided.at >= aside.last.at + Cooldown
      BY DEF NoRestartLoop
    <2>1. procs[p].kind = "service" /\ procs[p].at \in Published
      BY DEF ProcessInv, WatcherServes, Watching, Published
    <2>2. procs[p].guard = aside.last
      BY <2>1 DEF ProcessInv, GuardIsLastRestart, Undisturbed
    <2>3. ~Refused(aside.last, procs[p].decided)
      BY <2>2 DEF ProcessInv, GuardIsObeyed
    <2>4. procs[p].decided \in Restarts /\ aside.last \in Restarts
      BY ProcessFields DEF ProcessInv, ProcessTypeOK, ProcessTypes, MaybeRestarts
    <2>5. procs[p].decided.at \in Nat /\ aside.last.at + Cooldown \in Nat
      BY <2>4, ProcessAssumption DEF Restarts
    <2>6. QED
      BY <2>3, <2>5 DEF Refused
  <1>2. QED
    BY <1>1, ProcessInvariant, PTL
=============================================================================
