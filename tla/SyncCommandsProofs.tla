-------------------------- MODULE SyncCommandsProofs --------------------------
(* The commands of any number of terminals over one config, one state file    *)
(* and the client files: proofs about SyncCommands.                           *)
EXTENDS SyncCommands, SequenceTheorems, TLAPS
LOCAL INSTANCE SequencesExt
LOCAL INSTANCE WellFoundedInduction

Fields == { "pc", "cmd", "config", "state", "seen", "docs", "plans", "todo", "answers", "skip", "imported", "notified" }

\* What a terminal has in memory, as far as the commands lean on it.
Run(t) == DOMAIN t = Fields /\ DOMAIN t.docs = Files /\ DOMAIN t.plans = Files
TermShape ==
    /\ DOMAIN term = Terminals /\ term = [p \in Terminals |-> term[p]]
    /\ \A p \in Terminals : Run(term[p])

\* The places of a command that has the config's lock, and the state file's.
Editing == {"save edit", "adopt", "save config", "save adoptions"}
Running == {"plan", "back up", "claim", "write", "save config", "save adoptions"}
LocksAreHeld ==
    \A p \in Terminals : /\ term[p].pc \in Editing => configLock = p
                         /\ term[p].pc \in Running => stateLock = p

\* What such a command read is what the file holds.
CopiesAreCurrent ==
    \A p \in Terminals : /\ term[p].pc \in Editing \ {"save adoptions"} => term[p].config = config
                         /\ term[p].pc \in Running => term[p].state = stateFile

LockInv == TermShape /\ LocksAreHeld /\ CopiesAreCurrent

-----------------------------------------------------------------------------
(* Steps.                                                                   *)

Commanded(p) ==
    Sync(p) \/ Apply(p) \/ EditConfig(p) \/ Import(p) \/ Eject(p) \/ Rollback(p) \/ Wizard(p) \/ Crash(p)
Moves(p) == term' = [term EXCEPT ![p] = term'[p]] /\ Run(term'[p])

\* The places where a command has nothing to lose.
Outside == { "idle", "lock for sync", "lock for edit", "lock for import", "ask", "lock for eject", "confirm",
             "roll back", "read state", "import step", "refresh", "sync step" }
\* Only eject and the wizard plan all their files at once; only the wizard plans
\* before it has the lock.  An edit is one of the command lines.
KindFits(t) ==
    /\ t.pc \in {"lock for edit", "save edit"} => t.cmd \in Commands /\ t.cmd.kind \in EditKinds
    /\ t.pc \in {"lock for sync", "lock for edit", "save edit", "plan"} => t.cmd.kind \notin {"eject", "init"}
    /\ t.pc \in {"read state", "import step", "refresh", "sync step", "lock to apply"} => t.cmd.kind = "init"

\* A command begins, goes on without a file or a lock to show for it, or ends.
StandsBack(p) ==
    /\ Moves(p) /\ term'[p].pc \in Outside /\ KindFits(term'[p])
    /\ UNCHANGED <<files, raced>>
    /\ KeepsLocks \/ Release(p)
    /\ loose' = IF term[p].pc = "write" THEN loose \cup Turn(term[p].todo) ELSE loose

LEMMA IdleShape == Run(Idle) /\ Idle.pc = "idle"
  BY DEF Idle, Run, Fields, NoDocs, NoPlans

LEMMA Moved ==
    ASSUME TermShape, NEW p \in Terminals, NEW t, Run(t), Goes(p, t)
    PROVE  Moves(p) /\ term'[p] = t
  BY DEF TermShape, Goes, Moves

LEMMA Ended ==
    ASSUME TermShape, NEW p \in Terminals, Ends(p)
    PROVE  Moves(p) /\ term'[p] = Idle /\ term'[p].pc = "idle" /\ Release(p)
  BY Moved, IdleShape DEF Ends

LEMMA StartsStandBack ==
    ASSUME TermShape, NEW p \in Terminals,
           SyncStarts(p) \/ EditStarts(p) \/ ImportStarts(p) \/ EjectStarts(p) \/ RollbackStarts(p) \/ InitStarts(p)
    PROVE  StandsBack(p)
  <1>0. Run(Idle) /\ Run(term[p])
    BY IdleShape DEF TermShape
  <1>1. CASE SyncStarts(p)
    <2>1. PICK cmd : /\ Starts(p, "sync", cmd)
                     /\ Goes(p, [Idle EXCEPT !.pc = "lock for sync", !.cmd = cmd, !.config = config, !.todo = cmd.targets])
      BY <1>1 DEF SyncStarts
    <2> DEFINE t == [Idle EXCEPT !.pc = "lock for sync", !.cmd = cmd, !.config = config, !.todo = cmd.targets]
    <2>2. Run(t) /\ t.pc = "lock for sync" /\ t.cmd = cmd
      BY <1>0 DEF Run, Fields
    <2>3. UNCHANGED <<files, raced, loose>> /\ KeepsLocks /\ term[p].pc # "write" /\ cmd.kind = "sync"
      BY <1>1, <2>1 DEF SyncStarts, Quiet, Starts
    <2> HIDE DEF t
    <2> QED
      BY <2>1, <2>2, <2>3, Moved DEF StandsBack, Outside, KindFits, t
  <1>2. CASE EditStarts(p)
    <2>1. PICK kind \in EditKinds : \E cmd \in Commands : Starts(p, kind, cmd) /\ Goes(p, [Idle EXCEPT !.pc = "lock for edit", !.cmd = cmd])
      BY <1>2 DEF EditStarts
    <2>2. PICK cmd \in Commands : Starts(p, kind, cmd) /\ Goes(p, [Idle EXCEPT !.pc = "lock for edit", !.cmd = cmd])
      BY <2>1
    <2> DEFINE t == [Idle EXCEPT !.pc = "lock for edit", !.cmd = cmd]
    <2>3. Run(t) /\ t.pc = "lock for edit" /\ t.cmd = cmd
      BY <1>0 DEF Run, Fields
    <2>4. UNCHANGED <<files, raced, loose>> /\ KeepsLocks /\ term[p].pc # "write" /\ cmd.kind \in EditKinds
      BY <1>2, <2>2 DEF EditStarts, Quiet, Starts
    <2> HIDE DEF t
    <2> QED
      BY <2>2, <2>3, <2>4, Moved DEF StandsBack, Outside, KindFits, EditKinds, t
  <1>3. CASE ImportStarts(p)
    <2>1. PICK cmd :
             /\ Starts(p, "import", cmd)
             /\ Goes(p, [Idle EXCEPT !.pc = "lock for import", !.cmd = cmd,
                            !.docs = [f \in Files |-> IF f \in cmd.targets THEN docs[f] ELSE Missing]])
      BY <1>3 DEF ImportStarts
    <2> DEFINE read == [f \in Files |-> IF f \in cmd.targets THEN docs[f] ELSE Missing]
               t == [Idle EXCEPT !.pc = "lock for import", !.cmd = cmd, !.docs = read]
    <2>2. Run(t) /\ t.pc = "lock for import"
      BY <1>0 DEF Run, Fields
    <2>3. UNCHANGED <<files, raced, loose>> /\ KeepsLocks /\ term[p].pc # "write"
      BY <1>3, <2>1 DEF ImportStarts, Quiet, Starts
    <2>4. Moves(p) /\ term'[p].pc = "lock for import"
      <3> HIDE DEF read
      <3>1. Goes(p, t)
        BY <2>1 DEF read
      <3> HIDE DEF t
      <3> QED
        BY <2>2, <3>1, Moved
    <2> QED
      BY <2>3, <2>4 DEF StandsBack, Outside, KindFits
  <1>4. CASE EjectStarts(p)
    <2>1. PICK cmd : /\ Starts(p, "eject", cmd)
                     /\ Goes(p, [Idle EXCEPT !.pc = "lock for eject", !.cmd = cmd, !.config = config])
      BY <1>4 DEF EjectStarts
    <2> DEFINE t == [Idle EXCEPT !.pc = "lock for eject", !.cmd = cmd, !.config = config]
    <2>2. Run(t) /\ t.pc = "lock for eject"
      BY <1>0 DEF Run, Fields
    <2>3. UNCHANGED <<files, raced, loose>> /\ KeepsLocks /\ term[p].pc # "write"
      BY <1>4, <2>1 DEF EjectStarts, Quiet, Starts
    <2> HIDE DEF t
    <2> QED
      BY <2>1, <2>2, <2>3, Moved DEF StandsBack, Outside, KindFits, t
  <1>5. CASE RollbackStarts(p)
    <2>1. PICK cmd : /\ Starts(p, "rollback", cmd)
                     /\ Goes(p, [Idle EXCEPT !.pc = "roll back", !.cmd = cmd, !.todo = cmd.targets])
      BY <1>5 DEF RollbackStarts
    <2> DEFINE t == [Idle EXCEPT !.pc = "roll back", !.cmd = cmd, !.todo = cmd.targets]
    <2>2. Run(t) /\ t.pc = "roll back"
      BY <1>0 DEF Run, Fields
    <2>3. UNCHANGED <<files, raced, loose>> /\ KeepsLocks /\ term[p].pc # "write"
      BY <1>5, <2>1 DEF RollbackStarts, Quiet, Starts
    <2> HIDE DEF t
    <2> QED
      BY <2>1, <2>2, <2>3, Moved DEF StandsBack, Outside, KindFits, t
  <1>6. CASE InitStarts(p)
    <2>1. PICK cmd : /\ Starts(p, "init", cmd)
                     /\ Goes(p, [Idle EXCEPT !.pc = "read state", !.cmd = cmd, !.config = config])
      BY <1>6 DEF InitStarts
    <2> DEFINE t == [Idle EXCEPT !.pc = "read state", !.cmd = cmd, !.config = config]
    <2>2. Run(t) /\ t.pc = "read state" /\ t.cmd = cmd
      BY <1>0 DEF Run, Fields
    <2>3. UNCHANGED <<files, raced, loose>> /\ KeepsLocks /\ term[p].pc # "write" /\ cmd.kind = "init"
      BY <1>6, <2>1 DEF InitStarts, Quiet, Starts
    <2> HIDE DEF t
    <2> QED
      BY <2>1, <2>2, <2>3, Moved DEF StandsBack, Outside, KindFits, t
  <1> QED
    BY <1>1, <1>2, <1>3, <1>4, <1>5, <1>6

\* A plan is made of what a command read.
LEMMA SamePlan ==
    ASSUME NEW t, NEW u, NEW f, u.cmd = t.cmd, u.config = t.config, u.seen = t.seen, u.docs[f] = t.docs[f]
    PROVE  PlanOf(t, f) = PlanOf(u, f)
  BY DEF PlanOf, Desired

LEMMA LockForSyncDoes ==
    ASSUME TermShape, NEW p \in Terminals, LockForSync(p)
    PROVE  /\ Moves(p) /\ term[p].pc = "lock for sync" /\ term'[p].pc = "plan" /\ term'[p].cmd = term[p].cmd
           /\ term'[p].state = stateFile /\ term'[p].seen = stateFile
           /\ stateLock = Nobody /\ stateLock' = p /\ UNCHANGED <<files, configLock, raced, loose>>
  <1> DEFINE t == [term[p] EXCEPT !.pc = "plan", !.state = stateFile, !.seen = stateFile]
  <1>1. Run(t) /\ t.pc = "plan" /\ t.cmd = term[p].cmd /\ t.state = stateFile /\ t.seen = stateFile
    BY DEF TermShape, Run, Fields
  <1>2. Goes(p, t)
    BY DEF LockForSync
  <1> HIDE DEF t
  <1>3. Moves(p) /\ term'[p] = t
    BY <1>1, <1>2, Moved
  <1> QED
    BY <1>1, <1>3 DEF LockForSync, At, Free, Quiet

\* A file is passed over, or planned from what it holds.
PlansNext(p) ==
    /\ Moves(p) /\ term[p].pc = "plan"
    /\ UNCHANGED <<files, configLock, stateLock, raced, loose>>
    /\ term'[p].cmd = term[p].cmd /\ term'[p].config = term[p].config
    /\ term'[p].state = term[p].state /\ term'[p].seen = term[p].seen
    /\ \E f \in Turn(term[p].todo) :
          \/ term'[p].pc = "plan" /\ term'[p].todo = term[p].todo \ {f}
          \/ /\ term'[p].pc = "back up" /\ term'[p].todo = term[p].todo
             /\ term'[p].docs = [term[p].docs EXCEPT ![f] = docs[f]]
             /\ f \in Files => term'[p].plans[f] = PlanOf(term'[p], f)

LEMMA PlanNextDoes ==
    ASSUME TermShape, NEW p \in Terminals, PlanNext(p)
    PROVE  PlansNext(p)
  <1>1. PICK f \in Turn(term[p].todo) :
           LET t == [term[p] EXCEPT !.docs[f] = docs[f]]
           IN \E plan \in {PlanOf(t, f)} :
                 IF Writable(f, docs[f]) /\ HasChanges(plan)
                 THEN Goes(p, [t EXCEPT !.pc = "back up", !.plans[f] = plan,
                                        !.notified = @ \/ Migrates(t, f, plan)])
                 ELSE Goes(p, [term[p] EXCEPT !.todo = @ \ {f}])
    BY DEF PlanNext
  <1>2. term[p].pc = "plan" /\ UNCHANGED <<files, configLock, stateLock, raced, loose>>
    BY DEF PlanNext, At, KeepsLocks, Quiet
  <1>3. Run(term[p])
    BY DEF TermShape
  <1>4. CASE Goes(p, [term[p] EXCEPT !.todo = @ \ {f}])
    <2> DEFINE u == [term[p] EXCEPT !.todo = @ \ {f}]
    <2>1. /\ Run(u) /\ u.pc = term[p].pc /\ u.cmd = term[p].cmd /\ u.config = term[p].config
          /\ u.state = term[p].state /\ u.seen = term[p].seen /\ u.todo = term[p].todo \ {f}
      BY <1>3 DEF Run, Fields
    <2> HIDE DEF u
    <2>2. Moves(p) /\ term'[p] = u
      BY <1>4, <2>1, Moved DEF u
    <2> QED
      BY <1>2, <2>1, <2>2 DEF PlansNext
  <1>5. CASE ~Goes(p, [term[p] EXCEPT !.todo = @ \ {f}])
    <2> DEFINE t == [term[p] EXCEPT !.docs[f] = docs[f]]
               plan == PlanOf(t, f)
               told == t.notified \/ Migrates(t, f, plan)
               u == [t EXCEPT !.pc = "back up", !.plans[f] = plan, !.notified = told]
    <2>1. Goes(p, u)
      BY <1>1, <1>5
    <2>2. /\ Run(t) /\ t.cmd = term[p].cmd /\ t.config = term[p].config /\ t.state = term[p].state
          /\ t.seen = term[p].seen /\ t.todo = term[p].todo /\ t.docs = [term[p].docs EXCEPT ![f] = docs[f]]
      BY <1>3 DEF Run, Fields
    <2> HIDE DEF t, plan, told
    <2>3. /\ Run(u) /\ u.pc = "back up" /\ u.cmd = t.cmd /\ u.config = t.config /\ u.state = t.state
          /\ u.seen = t.seen /\ u.todo = t.todo /\ u.docs = t.docs /\ (f \in Files => u.plans[f] = plan)
      BY <2>2 DEF Run, Fields
    <2> HIDE DEF u
    <2>4. Moves(p) /\ term'[p] = u
      BY <2>1, <2>3, Moved
    <2>5. plan = PlanOf(u, f)
      BY <2>3, SamePlan DEF plan
    <2> QED
      BY <1>2, <2>2, <2>3, <2>4, <2>5 DEF PlansNext
  <1> QED
    BY <1>4, <1>5

LEMMA FinishSyncDoes ==
    ASSUME TermShape, NEW p \in Terminals, FinishSync(p)
    PROVE  /\ Moves(p) /\ term[p].pc = "plan" /\ term'[p].pc = "idle" /\ Release(p)
           /\ stateFile' \in {stateFile, [term[p].state EXCEPT !.migrated = TRUE]}
           /\ UNCHANGED <<config, docs, backups, raced, loose>>
  BY Ended DEF FinishSync, At, Quiet

\* The same run at another place.
Resumes(p, pc) ==
    /\ Moves(p) /\ term'[p].pc = pc /\ term'[p].cmd = term[p].cmd /\ term'[p].config = term[p].config
    /\ term'[p].seen = term[p].seen /\ term'[p].docs = term[p].docs /\ term'[p].plans = term[p].plans
    /\ term'[p].todo = term[p].todo

LEMMA Resumed ==
    ASSUME TermShape, NEW p \in Terminals, NEW pc, Goes(p, [term[p] EXCEPT !.pc = pc])
    PROVE  Resumes(p, pc) /\ term'[p].state = term[p].state /\ term'[p].imported = term[p].imported
  <1> DEFINE u == [term[p] EXCEPT !.pc = pc]
  <1>1. Run(u) /\ u.pc = pc /\ u.cmd = term[p].cmd /\ u.config = term[p].config /\ u.state = term[p].state
        /\ u.seen = term[p].seen /\ u.docs = term[p].docs /\ u.plans = term[p].plans /\ u.todo = term[p].todo
        /\ u.imported = term[p].imported
    BY DEF TermShape, Run, Fields
  <1> HIDE DEF u
  <1>2. Moves(p) /\ term'[p] = u
    BY <1>1, Moved DEF u
  <1> QED
    BY <1>1, <1>2 DEF Resumes

LEMMA ResumedWithState ==
    ASSUME TermShape, NEW p \in Terminals, NEW pc, NEW state, Goes(p, [term[p] EXCEPT !.pc = pc, !.state = state])
    PROVE  Resumes(p, pc) /\ term'[p].state = state
  <1> DEFINE u == [term[p] EXCEPT !.pc = pc, !.state = state]
  <1>1. Run(u) /\ u.pc = pc /\ u.cmd = term[p].cmd /\ u.config = term[p].config /\ u.state = state
        /\ u.seen = term[p].seen /\ u.docs = term[p].docs /\ u.plans = term[p].plans /\ u.todo = term[p].todo
    BY DEF TermShape, Run, Fields
  <1> HIDE DEF u
  <1>2. Moves(p) /\ term'[p] = u
    BY <1>1, Moved DEF u
  <1> QED
    BY <1>1, <1>2 DEF Resumes

\* A file gets a backup of what it holds, or there is nothing to back up.
Copies(f, existed) ==
    /\ backups' = IF existed THEN [backups EXCEPT ![f] = Pushed(@, docs[f])] ELSE backups
    /\ raced' = IF existed THEN raced \ {f} ELSE raced

LEMMA BackUpDoes ==
    ASSUME TermShape, NEW p \in Terminals, BackUp(p)
    PROVE  /\ term[p].pc = "back up"
           /\ \/ StandsBack(p)
              \/ /\ Resumes(p, "claim") /\ term'[p].state = term[p].state /\ KeepsLocks
                 /\ \E f \in Turn(term[p].todo) : Copies(f, term[p].docs[f].shape # "missing")
                 /\ UNCHANGED <<config, stateFile, docs, loose>>
  <1>1. PICK f \in Turn(term[p].todo) :
           IF term[p].docs[f].shape # "missing" /\ docs[f].shape = "missing"
           THEN Ends(p) /\ UNCHANGED <<backups, raced>>
           ELSE /\ Copies(f, term[p].docs[f].shape # "missing")
                /\ Goes(p, [term[p] EXCEPT !.pc = "claim"]) /\ KeepsLocks
    BY DEF BackUp, Copies, BackedUp
  <1>2. term[p].pc = "back up" /\ UNCHANGED <<config, stateFile, docs, loose>>
    BY DEF BackUp, At
  <1> QED
    BY <1>1, <1>2, Ended, Resumed DEF StandsBack, Outside, KindFits, files

LEMMA ClaimNamesDoes ==
    ASSUME TermShape, NEW p \in Terminals, ClaimNames(p)
    PROVE  /\ term[p].pc = "claim" /\ Resumes(p, "write") /\ term'[p].state = stateFile'
           /\ \E f \in Turn(term[p].todo) : stateFile' = Claim(term[p].state, f, ManagedAfter(term[p].plans[f]))
           /\ UNCHANGED <<config, docs, backups, configLock, stateLock, raced, loose>>
  <1>1. PICK f \in Turn(term[p].todo) :
           /\ stateFile' = Claim(term[p].state, f, ManagedAfter(term[p].plans[f]))
           /\ Goes(p, [term[p] EXCEPT !.pc = "write", !.state = stateFile'])
    BY DEF ClaimNames
  <1> QED
    BY <1>1, ResumedWithState DEF ClaimNames, At, KeepsLocks, Quiet

\* The write, and what a command with more files to do goes on with.
Writes(p) ==
    /\ Moves(p) /\ term[p].pc = "write" /\ UNCHANGED <<config, stateFile, backups, loose>>
    /\ \E f \in Turn(term[p].todo) :
          /\ docs' = [docs EXCEPT ![f] = ApplyPlanTo(term[p].docs[f], term[p].plans[f])]
          /\ raced' = raced \cup {f}
          /\ \/ term'[p].pc = "idle" /\ Release(p)
             \/ /\ term'[p].pc = IF term[p].cmd.kind \in {"eject", "init"} THEN "back up" ELSE "plan"
                /\ KeepsLocks
                /\ term'[p].cmd = term[p].cmd /\ term'[p].config = term[p].config
                /\ term'[p].state = term[p].state /\ term'[p].seen = term[p].seen
                /\ term'[p].todo = term[p].todo \ {f}
                /\ \A g \in Files \ {f} : /\ term'[p].docs[g] = term[p].docs[g]
                                          /\ term'[p].plans[g] = term[p].plans[g]

LEMMA WriteDoes ==
    ASSUME TermShape, NEW p \in Terminals, Write(p)
    PROVE  Writes(p)
  <1>1. PICK f \in Turn(term[p].todo) :
           LET t == term[p]
               next == [t EXCEPT !.todo = @ \ {f}, !.docs[f] = Missing, !.plans[f] = Absent]
           IN /\ docs' = [docs EXCEPT ![f] = ApplyPlanTo(t.docs[f], t.plans[f])]
              /\ raced' = raced \cup {f}
              /\ IF t.cmd.kind \in {"eject", "init"}
                 THEN IF next.todo = {} THEN Ends(p)
                      ELSE Goes(p, [next EXCEPT !.pc = "back up"]) /\ KeepsLocks
                 ELSE Goes(p, [next EXCEPT !.pc = "plan"]) /\ KeepsLocks
    BY DEF Write
  <1>2. term[p].pc = "write" /\ UNCHANGED <<config, stateFile, backups, loose>>
    BY DEF Write, At
  <1> DEFINE pc == IF term[p].cmd.kind \in {"eject", "init"} THEN "back up" ELSE "plan"
             next == [term[p] EXCEPT !.todo = @ \ {f}, !.docs[f] = Missing, !.plans[f] = Absent]
             u == [next EXCEPT !.pc = pc]
  <1>3. Ends(p) \/ (Goes(p, u) /\ KeepsLocks)
    <2>1. CASE term[p].cmd.kind \in {"eject", "init"}
      <3>1. u = [next EXCEPT !.pc = "back up"]
        BY <2>1
      <3> QED
        BY <1>1, <2>1, <3>1
    <2>2. CASE term[p].cmd.kind \notin {"eject", "init"}
      <3>1. u = [next EXCEPT !.pc = "plan"]
        BY <2>2
      <3> QED
        BY <1>1, <2>2, <3>1
    <2> QED
      BY <2>1, <2>2
  <1>4. CASE Ends(p)
    BY <1>1, <1>2, <1>4, Ended DEF Writes
  <1>5. CASE Goes(p, u) /\ KeepsLocks
    <2>1. /\ Run(next) /\ next.cmd = term[p].cmd /\ next.config = term[p].config /\ next.state = term[p].state
          /\ next.seen = term[p].seen /\ next.todo = term[p].todo \ {f}
          /\ \A g \in Files \ {f} : next.docs[g] = term[p].docs[g] /\ next.plans[g] = term[p].plans[g]
      BY DEF TermShape, Run, Fields
    <2> HIDE DEF next, pc
    <2>2. /\ Run(u) /\ u.pc = pc /\ u.cmd = next.cmd /\ u.config = next.config /\ u.state = next.state
          /\ u.seen = next.seen /\ u.todo = next.todo /\ u.docs = next.docs /\ u.plans = next.plans
      BY <2>1 DEF Run, Fields
    <2> HIDE DEF u
    <2>3. Moves(p) /\ term'[p] = u
      BY <1>5, <2>2, Moved
    <2> QED
      BY <1>1, <1>2, <1>5, <2>1, <2>2, <2>3 DEF Writes, pc
  <1> QED
    BY <1>3, <1>4, <1>5

LEMMA LockForEditDoes ==
    ASSUME TermShape, NEW p \in Terminals, LockForEdit(p)
    PROVE  \/ StandsBack(p)
           \/ /\ Moves(p) /\ term[p].pc = "lock for edit" /\ term'[p].pc = "save edit"
              /\ term'[p].cmd = term[p].cmd /\ term'[p].config = config
              /\ term[p].cmd.kind # "scope" => MustKnow(term[p].cmd) \subseteq Known(config.servers)
              /\ configLock = Nobody /\ configLock' = p /\ UNCHANGED <<files, stateLock, raced, loose>>
  <1>1. \/ Ends(p)
        \/ /\ configLock' = p /\ UNCHANGED stateLock
           /\ Accepts(config, IF term[p].cmd.kind = "scope" THEN [term[p].cmd EXCEPT !.names = {}] ELSE term[p].cmd)
           /\ Goes(p, [term[p] EXCEPT !.pc = "save edit", !.config = config])
    BY Zenon DEF LockForEdit
  <1>2. term[p].pc = "lock for edit" /\ configLock = Nobody /\ UNCHANGED <<files, raced, loose>>
    BY DEF LockForEdit, At, Free, Quiet
  <1>3. CASE Ends(p)
    BY <1>2, <1>3, Ended DEF StandsBack, Outside, KindFits
  <1> DEFINE u == [term[p] EXCEPT !.pc = "save edit", !.config = config]
  <1>5. Accepts(config, term[p].cmd) => MustKnow(term[p].cmd) \subseteq Known(config.servers)
    BY DEF Accepts
  <1>4. CASE /\ configLock' = p /\ UNCHANGED stateLock /\ Goes(p, u)
             /\ Accepts(config, IF term[p].cmd.kind = "scope" THEN [term[p].cmd EXCEPT !.names = {}] ELSE term[p].cmd)
    <2>1. Run(u) /\ u.pc = "save edit" /\ u.cmd = term[p].cmd /\ u.config = config
      BY DEF TermShape, Run, Fields
    <2> HIDE DEF u
    <2> QED
      BY <1>2, <1>4, <1>5, <2>1, Moved
  <1> QED
    BY <1>1, <1>3, <1>4

LEMMA SaveEditDoes ==
    ASSUME TermShape, NEW p \in Terminals, SaveEdit(p)
    PROVE  /\ Moves(p) /\ term[p].pc = "save edit" /\ term'[p].pc \in {"idle", "lock for sync"}
           /\ term'[p].pc = "lock for sync" => term'[p].cmd = term[p].cmd
           /\ KeepsLocks \/ Release(p)
           /\ config' = Edited(term[p].config, term[p].cmd)
           /\ UNCHANGED <<stateFile, docs, backups, raced, loose>>
  <1>0. config' = Edited(term[p].config, term[p].cmd)
    BY DEF SaveEdit
  <1>1. \E saved : \/ Ends(p)
                   \/ /\ Goes(p, [term[p] EXCEPT !.pc = "lock for sync", !.config = saved, !.todo = Files \ InProject])
                      /\ KeepsLocks
    BY DEF SaveEdit
  <1>2. PICK saved : \/ Ends(p)
                     \/ /\ Goes(p, [term[p] EXCEPT !.pc = "lock for sync", !.config = saved, !.todo = Files \ InProject])
                        /\ KeepsLocks
    BY <1>1
  <1>3. term[p].pc = "save edit" /\ UNCHANGED <<stateFile, docs, backups, raced, loose>>
    BY DEF SaveEdit, At, Quiet
  <1>4. CASE Ends(p)
    BY <1>0, <1>3, <1>4, Ended
  <1> DEFINE u == [term[p] EXCEPT !.pc = "lock for sync", !.config = saved, !.todo = Files \ InProject]
  <1>5. CASE Goes(p, u) /\ KeepsLocks
    <2>1. Run(u) /\ u.pc = "lock for sync" /\ u.cmd = term[p].cmd
      BY DEF TermShape, Run, Fields
    <2> HIDE DEF u
    <2> QED
      BY <1>0, <1>3, <1>5, <2>1, Moved
  <1> QED
    BY <1>2, <1>4, <1>5

\* import goes on with the config as it is once the lock is held.
Adopts(p) ==
    /\ Moves(p) /\ term[p].pc \notin Editing \cup Running /\ term'[p].pc = "adopt" /\ term'[p].config = config
    /\ configLock = Nobody /\ configLock' = p /\ UNCHANGED <<files, stateLock, raced, loose>>

LEMMA LockForImportDoes ==
    ASSUME TermShape, NEW p \in Terminals, LockForImport(p)
    PROVE  StandsBack(p) \/ Adopts(p)
  <1> DEFINE t == [term[p] EXCEPT !.config = config]
             asking == [t EXCEPT !.pc = "ask"]
             u == [t EXCEPT !.pc = "adopt"]
  <1>1. \/ Ends(p)
        \/ Goes(p, asking) /\ KeepsLocks
        \/ configLock' = p /\ UNCHANGED stateLock /\ Goes(p, u)
    BY DEF LockForImport
  <1>2. term[p].pc = "lock for import" /\ configLock = Nobody /\ UNCHANGED <<files, raced, loose>>
    BY DEF LockForImport, At, Free, Quiet
  <1>3. Run(t) /\ t.config = config
    BY DEF TermShape, Run, Fields
  <1> HIDE DEF t
  <1>4. Run(asking) /\ asking.pc = "ask" /\ Run(u) /\ u.pc = "adopt" /\ u.config = config
    BY <1>3 DEF Run, Fields
  <1> HIDE DEF asking, u
  <1>5. CASE Ends(p)
    BY <1>2, <1>5, Ended DEF StandsBack, Outside, KindFits
  <1>6. CASE Goes(p, asking) /\ KeepsLocks
    BY <1>2, <1>4, <1>6, Moved DEF StandsBack, Outside, KindFits
  <1>7. CASE configLock' = p /\ UNCHANGED stateLock /\ Goes(p, u)
    BY <1>2, <1>4, <1>7, Moved DEF Adopts, Editing, Running
  <1> QED
    BY <1>1, <1>5, <1>6, <1>7

LEMMA AnswerDoes ==
    ASSUME TermShape, NEW p \in Terminals, Answer(p)
    PROVE  Adopts(p)
  <1>1. \E answers, skip, read :
           Goes(p, [term[p] EXCEPT !.pc = "adopt", !.config = config, !.answers = answers, !.skip = skip,
                                   !.docs = IF term[p].cmd.kind = "init" THEN read ELSE @])
           /\ DOMAIN read = Files
    <2>1. PICK plan, answers, skip :
            LET t == term[p]  init == t.cmd.kind = "init"
            IN Goes(p, [t EXCEPT !.pc = "adopt", !.config = Relocked(t), !.answers = answers,
                               !.skip = IF init THEN {} ELSE skip,
                               !.docs = IF init THEN StruckOut(t, plan, skip) ELSE @])
      BY DEF Answer
    <2>2. Relocked(term[p]) = config /\ DOMAIN StruckOut(term[p], plan, skip) = Files
      BY DEF Relocked, StruckOut
    <2> QED
      BY <2>1, <2>2
  <1>2. PICK answers, skip, read :
           Goes(p, [term[p] EXCEPT !.pc = "adopt", !.config = config, !.answers = answers, !.skip = skip,
                                   !.docs = IF term[p].cmd.kind = "init" THEN read ELSE @])
           /\ DOMAIN read = Files
    BY <1>1
  <1> DEFINE now == IF term[p].cmd.kind = "init" THEN read ELSE term[p].docs
             u == [term[p] EXCEPT !.pc = "adopt", !.config = config, !.answers = answers, !.skip = skip, !.docs = now]
  <1>3. Goes(p, u)
    BY <1>2
  <1>4. DOMAIN now = Files
    BY <1>2 DEF TermShape, Run
  <1> HIDE DEF now
  <1>5. Run(u) /\ u.pc = "adopt" /\ u.config = config
    BY <1>4 DEF TermShape, Run, Fields
  <1> HIDE DEF u
  <1> QED
    BY <1>3, <1>5, Moved DEF Answer, At, Free, Quiet, Adopts, Editing, Running

LEMMA LockToAdoptDoes ==
    ASSUME TermShape, NEW p \in Terminals, LockToAdopt(p)
    PROVE  \/ StandsBack(p)
           \/ /\ Moves(p) /\ term[p].pc = "adopt" /\ term'[p].pc = "save config"
              /\ term'[p].config = term[p].config /\ term'[p].state = stateFile /\ term'[p].docs = term[p].docs
              /\ \E plan, answers, skip :
                    /\ plan = PlanImport(Offered(term[p]), term[p].config.servers) /\ NamesSuffice(plan)
                    /\ term'[p].imported = Imported(plan, [config |-> term[p].config, state |-> stateFile], answers, skip)
              /\ stateLock = Nobody /\ stateLock' = p /\ UNCHANGED <<files, configLock, raced, loose>>
  <1>1. PICK plan :
           \/ Ends(p)
           \/ /\ plan = PlanImport(Offered(term[p]), term[p].config.servers) /\ NamesSuffice(plan)
              /\ stateLock' = p /\ UNCHANGED configLock
              /\ Goes(p, [term[p] EXCEPT !.pc = "save config", !.state = stateFile,
                             !.imported = Imported(plan, [config |-> term[p].config, state |-> stateFile],
                                                   Answered(term[p]), term[p].skip)])
    BY DEF LockToAdopt
  <1>2. term[p].pc = "adopt" /\ stateLock = Nobody /\ UNCHANGED <<files, raced, loose>>
    BY DEF LockToAdopt, At, Free, Quiet
  <1>3. CASE Ends(p)
    BY <1>2, <1>3, Ended DEF StandsBack, Outside, KindFits
  <1> DEFINE left == Imported(plan, [config |-> term[p].config, state |-> stateFile], Answered(term[p]), term[p].skip)
             u == [term[p] EXCEPT !.pc = "save config", !.state = stateFile, !.imported = left]
  <1>4. CASE /\ plan = PlanImport(Offered(term[p]), term[p].config.servers) /\ NamesSuffice(plan)
             /\ stateLock' = p /\ UNCHANGED configLock /\ Goes(p, u)
    <2>1. \E answers, skip : left = Imported(plan, [config |-> term[p].config, state |-> stateFile], answers, skip)
      OBVIOUS
    <2> HIDE DEF left
    <2>2. Run(u) /\ u.pc = "save config" /\ u.config = term[p].config /\ u.state = stateFile /\ u.imported = left
          /\ u.docs = term[p].docs
      BY DEF TermShape, Run, Fields
    <2> HIDE DEF u
    <2> QED
      BY <1>2, <1>4, <2>1, <2>2, Moved
  <1> QED
    BY <1>1, <1>3, <1>4

LEMMA SaveImportedDoes ==
    ASSUME TermShape, NEW p \in Terminals, SaveImported(p)
    PROVE  /\ term[p].pc = "save config" /\ Resumes(p, "save adoptions")
           /\ term'[p].state = term[p].state /\ term'[p].imported = term[p].imported
           /\ config' = term[p].imported.config
           /\ UNCHANGED <<stateFile, docs, backups, configLock, stateLock, raced, loose>>
  BY Resumed DEF SaveImported, At, KeepsLocks, Quiet

LEMMA SaveAdoptionsDoes ==
    ASSUME TermShape, NEW p \in Terminals, SaveAdoptions(p)
    PROVE  /\ Moves(p) /\ term[p].pc = "save adoptions" /\ term'[p].pc \in {"idle", "refresh"} /\ Release(p) /\ KindFits(term'[p])
           /\ stateFile' = term[p].imported.state /\ UNCHANGED <<config, docs, backups, raced, loose>>
  <1> DEFINE u == [Idle EXCEPT !.pc = "refresh", !.cmd = term[p].cmd]
  <1>1. Ends(p) \/ (Goes(p, u) /\ Release(p) /\ term[p].cmd.kind = "init")
    BY DEF SaveAdoptions
  <1>2. Run(u) /\ u.pc = "refresh" /\ u.cmd = term[p].cmd
    BY IdleShape DEF Run, Fields
  <1> HIDE DEF u
  <1>3. Moves(p) /\ term'[p].pc \in {"idle", "refresh"} /\ Release(p) /\ KindFits(term'[p])
    BY <1>1, <1>2, Moved, Ended DEF KindFits
  <1> QED
    BY <1>3 DEF SaveAdoptions, At, Quiet

\* eject goes on with the plans of the files it has just read.
Ejects(p) ==
    /\ Moves(p) /\ term[p].pc \notin Editing \cup Running /\ term'[p].pc = "back up"
    /\ term'[p].docs = docs /\ term'[p].state = stateFile /\ term'[p].seen = stateFile
    /\ \A f \in term'[p].todo : f \in Files /\ term'[p].plans[f] = PlanOf(term'[p], f)
    /\ stateLock = Nobody /\ stateLock' = p /\ UNCHANGED <<files, configLock, raced, loose>>

LEMMA EjectPlans ==
    ASSUME NEW r, Run(r), DOMAIN docs = Files
    PROVE  LET t == EjectPlan(r) IN
           /\ Run(t) /\ t.docs = docs /\ t.state = stateFile /\ t.seen = stateFile
           /\ \A f \in Restored(t) : f \in Files /\ t.plans[f] = PlanOf(t, f)
  <1> DEFINE read == [r EXCEPT !.seen = stateFile, !.docs = docs]
             made == Replanned(read)
             t == [r EXCEPT !.state = stateFile, !.seen = stateFile, !.docs = docs, !.plans = made]
  <1>1. t = EjectPlan(r)
    BY DEF EjectPlan
  <1>2. DOMAIN made = Files /\ \A f \in Files : made[f] \in {Absent, PlanOf(read, f)}
    BY DEF Replanned
  <1>3. read.cmd = r.cmd /\ read.config = r.config /\ read.seen = stateFile /\ read.docs = docs
    BY DEF Run, Fields
  <1> HIDE DEF made
  <1>4. /\ Run(t) /\ t.docs = docs /\ t.state = stateFile /\ t.seen = stateFile /\ t.plans = made
        /\ t.cmd = r.cmd /\ t.config = r.config
    BY <1>2 DEF Run, Fields
  <1> HIDE DEF read, t
  <1>5. ASSUME NEW f \in Restored(t) PROVE f \in Files /\ t.plans[f] = PlanOf(t, f)
    <2>1. f \in Files /\ t.plans[f] # Absent
      BY <1>5 DEF Restored, Changing, Claimed
    <2>2. PlanOf(read, f) = PlanOf(t, f)
      BY <1>3, <1>4, SamePlan
    <2> QED
      BY <1>2, <1>4, <2>1, <2>2
  <1> QED
    BY <1>1, <1>4, <1>5

LEMMA Ejected ==
    ASSUME TermShape, DOMAIN docs = Files, NEW p \in Terminals, NEW pc,
           Goes(p, [EjectPlan(term[p]) EXCEPT !.pc = pc, !.todo = Restored(EjectPlan(term[p]))])
    PROVE  /\ Moves(p) /\ term'[p].pc = pc /\ term'[p].docs = docs
           /\ term'[p].state = stateFile /\ term'[p].seen = stateFile
           /\ \A f \in term'[p].todo : f \in Files /\ term'[p].plans[f] = PlanOf(term'[p], f)
  <1> DEFINE t == EjectPlan(term[p])
             todo == Restored(t)
             u == [t EXCEPT !.pc = pc, !.todo = todo]
  <1>1. /\ Run(t) /\ t.docs = docs /\ t.state = stateFile /\ t.seen = stateFile
        /\ \A f \in todo : f \in Files /\ t.plans[f] = PlanOf(t, f)
    BY EjectPlans DEF TermShape
  <1> HIDE DEF t, todo
  <1>2. /\ Run(u) /\ u.pc = pc /\ u.docs = t.docs /\ u.state = t.state /\ u.seen = t.seen /\ u.plans = t.plans
        /\ u.cmd = t.cmd /\ u.config = t.config /\ u.todo = todo
    BY <1>1 DEF Run, Fields
  <1>3. Goes(p, u)
    BY DEF t, todo
  <1> HIDE DEF u
  <1>4. Moves(p) /\ term'[p] = u
    BY <1>2, <1>3, Moved
  <1>5. ASSUME NEW f \in todo PROVE PlanOf(t, f) = PlanOf(u, f)
    BY <1>2, SamePlan
  <1> QED
    BY <1>1, <1>2, <1>4, <1>5

LEMMA LockForEjectDoes ==
    ASSUME TermShape, DOMAIN docs = Files, NEW p \in Terminals, LockForEject(p)
    PROVE  StandsBack(p) \/ Ejects(p)
  <1> DEFINE t == EjectPlan(term[p])
  <1>1. \/ Ends(p)
        \/ Goes(p, [[t EXCEPT !.todo = Restored(t)] EXCEPT !.pc = "confirm"]) /\ KeepsLocks
        \/ /\ stateLock' = p /\ UNCHANGED configLock
           /\ Goes(p, [[t EXCEPT !.todo = Restored(t)] EXCEPT !.pc = "back up"])
    BY DEF LockForEject
  <1>2. \A pc : [[t EXCEPT !.todo = Restored(t)] EXCEPT !.pc = pc] = [t EXCEPT !.pc = pc, !.todo = Restored(t)]
    <2>1. DOMAIN t = Fields
      BY EjectPlans DEF TermShape, Run
    <2> DEFINE todo == Restored(t)
    <2> HIDE DEF t, todo
    <2>2. \A pc : [[t EXCEPT !.todo = todo] EXCEPT !.pc = pc] = [t EXCEPT !.pc = pc, !.todo = todo]
      BY <2>1 DEF Fields
    <2> QED
      BY <2>2 DEF t, todo
  <1>3. term[p].pc = "lock for eject" /\ stateLock = Nobody /\ UNCHANGED <<files, raced, loose>>
    BY DEF LockForEject, At, Free, Quiet
  <1>4. CASE Ends(p)
    BY <1>3, <1>4, Ended DEF StandsBack, Outside, KindFits
  <1>5. CASE Goes(p, [t EXCEPT !.pc = "confirm", !.todo = Restored(t)]) /\ KeepsLocks
    BY <1>3, <1>5, Ejected DEF StandsBack, Outside, KindFits
  <1>6. CASE stateLock' = p /\ UNCHANGED configLock /\ Goes(p, [t EXCEPT !.pc = "back up", !.todo = Restored(t)])
    BY <1>3, <1>6, Ejected DEF Ejects, Editing, Running
  <1> HIDE DEF t
  <1> QED
    BY <1>1, <1>2, <1>4, <1>5, <1>6

LEMMA ConfirmDoes ==
    ASSUME TermShape, DOMAIN docs = Files, NEW p \in Terminals, Confirm(p)
    PROVE  StandsBack(p) \/ Ejects(p)
  <1> DEFINE t == EjectPlan(term[p])
  <1>1. \/ Ends(p)
        \/ /\ stateLock' = p /\ UNCHANGED configLock
           /\ Goes(p, [t EXCEPT !.pc = "back up", !.todo = Restored(t)])
    BY DEF Confirm
  <1>2. term[p].pc = "confirm" /\ stateLock = Nobody /\ UNCHANGED <<files, raced, loose>>
    BY DEF Confirm, At, Free, Quiet
  <1>3. CASE Ends(p)
    BY <1>2, <1>3, Ended DEF StandsBack, Outside, KindFits
  <1>4. CASE stateLock' = p /\ UNCHANGED configLock /\ Goes(p, [t EXCEPT !.pc = "back up", !.todo = Restored(t)])
    BY <1>2, <1>4, Ejected DEF Ejects, Editing, Running
  <1> QED
    BY <1>1, <1>3, <1>4


\* rollback puts a file back only after it has kept a copy of it.
LEMMA RollBackNextDoes ==
    ASSUME TermShape, NEW p \in Terminals, RollBackNext(p)
    PROVE  \/ StandsBack(p)
           \/ /\ Moves(p) /\ term[p].pc = "roll back" /\ term'[p].pc = "put back"
              /\ term'[p].todo = term[p].todo
              /\ \E f \in Turn(term[p].todo) :
                    /\ Copies(f, docs[f].shape # "missing") /\ backups[f] # << >>
                    /\ f \in Files => term'[p].docs[f] = Last(backups[f])
              /\ KeepsLocks /\ UNCHANGED <<config, stateFile, docs, loose>>
  <1>1. PICK f \in Turn(term[p].todo) :
           \/ Goes(p, [term[p] EXCEPT !.todo = @ \ {f}]) /\ UNCHANGED <<backups, raced>>
           \/ /\ Goes(p, [term[p] EXCEPT !.pc = "put back", !.docs[f] = Last(backups[f])])
              /\ Copies(f, docs[f].shape # "missing") /\ backups[f] # << >>
    BY DEF RollBackNext, Copies
  <1>2. term[p].pc = "roll back" /\ KeepsLocks /\ UNCHANGED <<config, stateFile, docs, loose>>
    BY DEF RollBackNext, At
  <1> DEFINE old == Last(backups[f])
             u == [term[p] EXCEPT !.todo = @ \ {f}]
             v == [term[p] EXCEPT !.pc = "put back", !.docs[f] = old]
  <1>3. Run(u) /\ u.pc = term[p].pc
    BY DEF TermShape, Run, Fields
  <1>4. Run(v) /\ v.pc = "put back" /\ v.todo = term[p].todo /\ (f \in Files => v.docs[f] = old)
    <2> HIDE DEF old
    <2> QED
      BY DEF TermShape, Run, Fields
  <1>5. CASE Goes(p, u) /\ UNCHANGED <<backups, raced>>
    <2> HIDE DEF u
    <2> QED
      BY <1>2, <1>3, <1>5, Moved DEF StandsBack, Outside, KindFits, files
  <1>6. CASE Goes(p, v) /\ Copies(f, docs[f].shape # "missing") /\ backups[f] # << >>
    <2> HIDE DEF v
    <2> QED
      BY <1>2, <1>4, <1>6, Moved
  <1> QED
    BY <1>1, <1>5, <1>6

LEMMA PutBackDoes ==
    ASSUME TermShape, NEW p \in Terminals, PutBack(p)
    PROVE  /\ Moves(p) /\ term[p].pc = "put back" /\ term'[p].pc = "roll back" /\ KeepsLocks
           /\ \E f \in Turn(term[p].todo) :
                 /\ docs' = [docs EXCEPT ![f] = term[p].docs[f]]
                 /\ raced' = raced \cup {f} /\ loose' = loose \cup {f}
           /\ UNCHANGED <<config, stateFile, backups>>
  <1>1. PICK f \in Turn(term[p].todo) :
           /\ docs' = [docs EXCEPT ![f] = term[p].docs[f]]
           /\ raced' = raced \cup {f} /\ loose' = loose \cup {f}
           /\ Goes(p, [term[p] EXCEPT !.pc = "roll back", !.todo = @ \ {f}, !.docs[f] = Missing])
    BY DEF PutBack
  <1> DEFINE u == [term[p] EXCEPT !.pc = "roll back", !.todo = @ \ {f}, !.docs[f] = Missing]
  <1>2. Run(u) /\ u.pc = "roll back"
    BY DEF TermShape, Run, Fields
  <1> HIDE DEF u
  <1>3. Moves(p) /\ term'[p].pc = "roll back"
    BY <1>1, <1>2, Moved DEF u
  <1> QED
    BY <1>1, <1>3 DEF PutBack, At

LEMMA RestStandsBack ==
    ASSUME TermShape, DOMAIN docs = Files, NEW p \in Terminals, KindFits(term[p]),
           FinishRollback(p) \/ Refresh(p) \/ ReadState(p) \/ ImportStep(p) \/ Crash(p)
    PROVE  StandsBack(p)
  <1>0. Run(Idle) /\ Run(term[p])
    BY IdleShape DEF TermShape
  <1>1. CASE FinishRollback(p)
    BY <1>1, Ended DEF FinishRollback, At, Quiet, StandsBack, Outside, KindFits
  <1>2. CASE Refresh(p)
    <2> DEFINE u == [Idle EXCEPT !.pc = "sync step", !.cmd = term[p].cmd, !.config = config, !.seen = stateFile]
    <2>1. Run(u) /\ u.pc = "sync step" /\ u.cmd = term[p].cmd
      BY <1>0 DEF Run, Fields
    <2>2. Goes(p, u) /\ UNCHANGED <<files, raced, loose>> /\ KeepsLocks /\ term[p].pc = "refresh"
      BY <1>2 DEF Refresh, Quiet, At
    <2> HIDE DEF u
    <2> QED
      BY <2>1, <2>2, Moved DEF StandsBack, Outside, KindFits
  <1>3. CASE ReadState(p)
    <2> DEFINE u == [term[p] EXCEPT !.pc = "import step", !.seen = stateFile]
    <2>1. Run(u) /\ u.pc = "import step" /\ u.cmd = term[p].cmd
      BY <1>0 DEF Run, Fields
    <2>2. Goes(p, u) /\ UNCHANGED <<files, raced, loose>> /\ KeepsLocks /\ term[p].pc = "read state"
      BY <1>3 DEF ReadState, Quiet, At
    <2> HIDE DEF u
    <2> QED
      BY <2>1, <2>2, Moved DEF StandsBack, Outside, KindFits
  <1>4. CASE ImportStep(p)
    <2> DEFINE u == [term[p] EXCEPT !.pc = "sync step"]
               read == [term[p] EXCEPT !.docs = docs]
               v == [read EXCEPT !.pc = "ask"]
    <2>1. Run(u) /\ u.pc = "sync step" /\ u.cmd = term[p].cmd /\ Run(v) /\ v.pc = "ask"
      BY <1>0 DEF Run, Fields
    <2>2. Goes(p, u) \/ Goes(p, v)
      BY <1>4 DEF ImportStep
    <2>3. UNCHANGED <<files, raced, loose>> /\ KeepsLocks /\ term[p].pc = "import step"
      BY <1>4 DEF ImportStep, Quiet, At
    <2> HIDE DEF u, v
    <2> QED
      BY <2>1, <2>2, <2>3, Moved DEF StandsBack, Outside, KindFits
  <1>5. CASE Crash(p)
    BY <1>5, Ended DEF Crash, At, StandsBack, Outside, KindFits
  <1> QED
    BY <1>1, <1>2, <1>3, <1>4, <1>5

\* The wizard plans what it has read, without a lock.
Foresees(p) ==
    /\ Moves(p) /\ term[p].pc = "sync step" /\ term'[p].pc = "lock to apply" /\ term'[p].docs = docs
    /\ term'[p].cmd = term[p].cmd
    /\ \A f \in term'[p].todo : f \in Files /\ term'[p].plans[f] = PlanOf(term'[p], f)
    /\ KeepsLocks /\ UNCHANGED <<files, raced, loose>>

LEMMA SyncStepDoes ==
    ASSUME TermShape, DOMAIN docs = Files, NEW p \in Terminals, SyncStep(p)
    PROVE  StandsBack(p) \/ Foresees(p)
  <1> DEFINE t == [term[p] EXCEPT !.docs = docs]
             made == [f \in Files |-> IF Writable(f, docs[f]) THEN PlanOf(t, f) ELSE Absent]
             due == {f \in Files : made[f] # Absent /\ HasChanges(made[f]) /\ Mirrored(t.config.servers) # {}}
             u == [t EXCEPT !.pc = "lock to apply", !.todo = due, !.plans = made]
  <1>1. Goes(p, Idle) \/ Goes(p, u)
    <2>1. \E plans \in {made} :
             LET todo == {f \in Files : plans[f] # Absent /\ HasChanges(plans[f]) /\ Mirrored(t.config.servers) # {}}
             IN Goes(p, IF todo = {} THEN Idle
                        ELSE [t EXCEPT !.pc = "lock to apply", !.todo = todo, !.plans = plans])
      BY Zenon DEF SyncStep
    <2> HIDE DEF made, t
    <2>2. Goes(p, IF due = {} THEN Idle ELSE u)
      BY <2>1
    <2> HIDE DEF u, due
    <2> QED
      BY <2>2
  <1>2. term[p].pc = "sync step" /\ KeepsLocks /\ UNCHANGED <<files, raced, loose>>
    BY DEF SyncStep, At, Quiet
  <1>3. Run(t) /\ t.docs = docs /\ t.cmd = term[p].cmd
    BY DEF TermShape, Run, Fields
  <1>4. /\ DOMAIN made = Files
        /\ \A f \in due : f \in Files /\ made[f] = PlanOf(t, f)
    OBVIOUS
  <1> HIDE DEF made, due, t
  <1>5. /\ Run(u) /\ u.pc = "lock to apply" /\ u.docs = docs /\ u.todo = due /\ u.plans = made
        /\ u.cmd = t.cmd /\ u.config = t.config /\ u.seen = t.seen
    BY <1>3, <1>4 DEF Run, Fields
  <1> HIDE DEF u
  <1>6. CASE Goes(p, Idle)
    <2>1. Moves(p) /\ term'[p] = Idle /\ Idle.pc = "idle"
      BY <1>6, IdleShape, Moved
    <2> QED
      BY <1>2, <2>1 DEF StandsBack, Outside, KindFits
  <1>7. CASE Goes(p, u)
    <2>1. Moves(p) /\ term'[p] = u
      BY <1>5, <1>7, Moved
    <2>2. ASSUME NEW f \in due PROVE f \in Files /\ made[f] = PlanOf(u, f)
      <3>1. u.cmd = t.cmd /\ u.config = t.config /\ u.seen = t.seen /\ u.docs[f] = t.docs[f]
        BY <1>3, <1>5
      <3> QED
        BY <1>4, <3>1, SamePlan
    <2> QED
      BY <1>2, <1>3, <1>5, <2>1, <2>2 DEF Foresees
  <1> QED
    BY <1>1, <1>6, <1>7

LEMMA LockToApplyDoes ==
    ASSUME TermShape, NEW p \in Terminals, LockToApply(p)
    PROVE  /\ Resumes(p, "back up") /\ term[p].pc = "lock to apply" /\ term'[p].state = stateFile
           /\ loose' = loose \cup {f \in Files : term[p].seen # stateFile \/ term[p].docs[f] # docs[f]}
           /\ stateLock = Nobody /\ stateLock' = p /\ UNCHANGED <<files, configLock, raced>>
  BY ResumedWithState DEF LockToApply, At, Free

\* The users: the client files, and nothing else.
LEMMA UserDoes ==
    ASSUME NEW f \in Files, User(f)
    PROVE  /\ \E doc : docs' = [docs EXCEPT ![f] = doc]
           /\ raced' = raced \cup {f}
           /\ UNCHANGED <<config, stateFile, backups, term, loose, configLock, stateLock>>
  <1>1. \E doc : Edits(f, doc)
    <2>1. CASE UserWrites(f)
      BY <2>1 DEF UserWrites
    <2>2. CASE UserSwitches(f)
      BY <2>2 DEF UserSwitches
    <2>3. CASE UserExcludes(f)
      BY <2>3 DEF UserExcludes
    <2>4. CASE UserDeletes(f)
      BY <2>4 DEF UserDeletes
    <2>5. CASE UserBreaks(f)
      BY <2>5 DEF UserBreaks
    <2> QED
      BY <2>1, <2>2, <2>3, <2>4, <2>5 DEF User
  <1> QED
    BY <1>1 DEF Edits, KeepsLocks

-----------------------------------------------------------------------------
(* No update is lost.                                                       *)

CommandInv == /\ LockInv /\ DOMAIN docs = Files
              /\ \A p \in Terminals : KindFits(term[p])

\* What a command may do to the locks and to what they protect.
Orderly(p) ==
    /\ Moves(p) /\ KindFits(term'[p])
    /\ configLock' \in {configLock, Held(configLock, p)} \/ (configLock = Nobody /\ configLock' = p)
    /\ stateLock' \in {stateLock, Held(stateLock, p)} \/ (stateLock = Nobody /\ stateLock' = p)
    /\ config' # config => configLock = p
    /\ stateFile' # stateFile => stateLock = p
    /\ term'[p].pc \in Editing => configLock' = p
    /\ term'[p].pc \in Running => stateLock' = p /\ term'[p].state = stateFile'
    /\ term'[p].pc \in Editing \ {"save adoptions"} => term'[p].config = config'
    /\ DOMAIN docs' = Files

LEMMA MovedShape ==
    ASSUME TermShape, NEW p \in Terminals, Moves(p)
    PROVE  TermShape' /\ \A q \in Terminals \ {p} : term'[q] = term[q]
  BY DEF TermShape, Moves

LEMMA OrderKept ==
    ASSUME CommandInv, NEW p \in Terminals, Orderly(p)
    PROVE  CommandInv'
  <1>1. TermShape' /\ \A q \in Terminals \ {p} : term'[q] = term[q]
    BY MovedShape DEF CommandInv, LockInv, Orderly
  <1>2. ASSUME NEW q \in Terminals
        PROVE  /\ term'[q].pc \in Editing => configLock' = q
               /\ term'[q].pc \in Running => stateLock' = q
               /\ term'[q].pc \in Editing \ {"save adoptions"} => term'[q].config = config'
               /\ term'[q].pc \in Running => term'[q].state = stateFile'
               /\ KindFits(term'[q])
    <2>1. CASE q = p
      BY <2>1 DEF Orderly
    <2>2. CASE q # p
      <3>1. term'[q] = term[q] /\ p # Nobody /\ q # Nobody
        BY <1>1, <2>2, CommandAssumption
      <3>2. term[q].pc \in Editing => configLock = q /\ (q # p => configLock' = q /\ config' = config)
        BY <2>2, <3>1 DEF Orderly, Held, CommandInv, LockInv, LocksAreHeld
      <3>3. term[q].pc \in Running => stateLock = q /\ (q # p => stateLock' = q /\ stateFile' = stateFile)
        BY <2>2, <3>1 DEF Orderly, Held, CommandInv, LockInv, LocksAreHeld
      <3>4. /\ term[q].pc \in Editing \ {"save adoptions"} => term[q].config = config
            /\ term[q].pc \in Running => term[q].state = stateFile
            /\ KindFits(term[q])
            /\ KindFits(term[q])
        BY DEF CommandInv, LockInv, CopiesAreCurrent
      <3> QED
        BY <2>2, <3>1, <3>2, <3>3, <3>4
    <2> QED
      BY <2>1, <2>2
  <1> QED
    BY <1>1, <1>2 DEF CommandInv, LockInv, LocksAreHeld, CopiesAreCurrent, Orderly

\* A lock let go is a lock nobody's terminal needs from then on.
LEMMA OutsideIsOrderly ==
    ASSUME CommandInv, NEW p \in Terminals, Moves(p), term'[p].pc \in Outside \cup {"lock to apply", "put back"},
           KindFits(term'[p]), KeepsLocks \/ Release(p), DOMAIN docs' = Files,
           config' # config => configLock = p, stateFile' # stateFile => stateLock = p
    PROVE  Orderly(p)
  BY DEF Orderly, Outside, Editing, Running, KeepsLocks, Release

LEMMA SyncIsOrderly ==
    ASSUME CommandInv, NEW p \in Terminals, Sync(p)
    PROVE  Orderly(p)
  <1>0. /\ TermShape /\ DOMAIN docs = Files /\ KindFits(term[p])
        /\ term[p].pc \in Running => stateLock = p /\ term[p].state = stateFile
    BY DEF CommandInv, LockInv, LocksAreHeld, CopiesAreCurrent
  <1>1. CASE SyncStarts(p)
    <2>1. StandsBack(p)
      BY <1>0, <1>1, StartsStandBack
    <2> QED
      BY <1>0, <2>1, OutsideIsOrderly DEF StandsBack, files
  <1>2. CASE LockForSync(p)
    BY <1>0, <1>2, LockForSyncDoes DEF Orderly, KindFits, Editing, Running, files
  <1>3. CASE PlanNext(p)
    <2>1. PlansNext(p)
      BY <1>0, <1>3, PlanNextDoes
    <2> QED
      BY <1>0, <2>1 DEF PlansNext, Orderly, KindFits, Editing, Running, files
  <1>4. CASE FinishSync(p)
    <2>1. term[p].pc \in Running
      BY <1>0, <1>4, FinishSyncDoes DEF Running
    <2> QED
      BY <1>0, <1>4, <2>1, FinishSyncDoes, OutsideIsOrderly DEF Outside, KindFits
  <1> QED
    BY <1>1, <1>2, <1>3, <1>4 DEF Sync

LEMMA ApplyIsOrderly ==
    ASSUME CommandInv, NEW p \in Terminals, Apply(p)
    PROVE  Orderly(p)
  <1>0. /\ TermShape /\ DOMAIN docs = Files /\ KindFits(term[p])
        /\ term[p].pc \in Running => stateLock = p /\ term[p].state = stateFile
    BY DEF CommandInv, LockInv, LocksAreHeld, CopiesAreCurrent
  <1>1. CASE BackUp(p)
    <2>1. CASE StandsBack(p)
      BY <1>0, <2>1, OutsideIsOrderly DEF StandsBack, files
    <2>2. CASE ~StandsBack(p)
      BY <1>0, <1>1, <2>2, BackUpDoes DEF Resumes, Orderly, KindFits, Editing, Running, KeepsLocks
    <2> QED
      BY <2>1, <2>2
  <1>2. CASE ClaimNames(p)
    BY <1>0, <1>2, ClaimNamesDoes DEF Resumes, Orderly, KindFits, Editing, Running
  <1>3. CASE Write(p)
    <2>1. Writes(p)
      BY <1>0, <1>3, WriteDoes
    <2>2. PICK f \in Turn(term[p].todo) :
             /\ docs' = [docs EXCEPT ![f] = ApplyPlanTo(term[p].docs[f], term[p].plans[f])]
             /\ \/ term'[p].pc = "idle" /\ Release(p)
                \/ /\ term'[p].pc = IF term[p].cmd.kind \in {"eject", "init"} THEN "back up" ELSE "plan"
                   /\ KeepsLocks /\ term'[p].state = term[p].state /\ term'[p].cmd = term[p].cmd
      BY <2>1 DEF Writes
    <2>3. DOMAIN docs' = Files
      BY <1>0, <2>2
    <2>4. Moves(p) /\ term[p].pc = "write" /\ UNCHANGED <<config, stateFile>>
      BY <2>1 DEF Writes
    <2>5. CASE term'[p].pc = "idle" /\ Release(p)
      BY <2>3, <2>4, <2>5, OutsideIsOrderly DEF Outside, KindFits
    <2> QED
      BY <1>0, <2>2, <2>3, <2>4, <2>5 DEF Orderly, KindFits, Editing, Running, KeepsLocks
  <1> QED
    BY <1>1, <1>2, <1>3 DEF Apply

LEMMA EditIsOrderly ==
    ASSUME CommandInv, NEW p \in Terminals, EditConfig(p)
    PROVE  Orderly(p)
  <1>0. /\ TermShape /\ DOMAIN docs = Files /\ KindFits(term[p])
        /\ term[p].pc \in Editing => configLock = p
    BY DEF CommandInv, LockInv, LocksAreHeld
  <1>1. CASE StandsBack(p)
    BY <1>0, <1>1, OutsideIsOrderly DEF StandsBack, files
  <1>2. CASE EditStarts(p)
    BY <1>0, <1>1, <1>2, StartsStandBack
  <1>3. CASE LockForEdit(p) /\ ~StandsBack(p)
    BY <1>0, <1>3, LockForEditDoes DEF Orderly, KindFits, Editing, Running, files
  <1>4. CASE SaveEdit(p)
    <2>1. configLock = p
      BY <1>0, <1>4, SaveEditDoes DEF Editing
    <2> QED
      BY <1>0, <1>4, <2>1, SaveEditDoes, OutsideIsOrderly DEF Outside, KindFits
  <1> QED
    BY <1>1, <1>2, <1>3, <1>4 DEF EditConfig

LEMMA ImportIsOrderly ==
    ASSUME CommandInv, NEW p \in Terminals, Import(p)
    PROVE  Orderly(p)
  <1>0. /\ TermShape /\ DOMAIN docs = Files /\ KindFits(term[p])
        /\ term[p].pc \in Editing => configLock = p
        /\ term[p].pc \in Running => stateLock = p /\ term[p].state = stateFile
        /\ term[p].pc \in Editing \ {"save adoptions"} => term[p].config = config
    BY DEF CommandInv, LockInv, LocksAreHeld, CopiesAreCurrent
  <1>1. CASE StandsBack(p)
    BY <1>0, <1>1, OutsideIsOrderly DEF StandsBack, files
  <1>2. CASE ImportStarts(p)
    BY <1>0, <1>1, <1>2, StartsStandBack
  <1>3. CASE (LockForImport(p) \/ Answer(p)) /\ ~StandsBack(p)
    <2>1. Adopts(p)
      BY <1>0, <1>3, LockForImportDoes, AnswerDoes
    <2> QED
      BY <1>0, <2>1 DEF Adopts, Orderly, KindFits, Editing, Running, files
  <1>4. CASE LockToAdopt(p) /\ ~StandsBack(p)
    BY <1>0, <1>4, LockToAdoptDoes DEF Orderly, KindFits, Editing, Running, files
  <1>5. CASE SaveImported(p)
    BY <1>0, <1>5, SaveImportedDoes DEF Resumes, Orderly, KindFits, Editing, Running
  <1>6. CASE SaveAdoptions(p)
    <2>1. stateLock = p
      BY <1>0, <1>6, SaveAdoptionsDoes DEF Running
    <2> QED
      BY <1>0, <1>6, <2>1, SaveAdoptionsDoes, OutsideIsOrderly DEF Outside, KindFits
  <1> QED
    BY <1>1, <1>2, <1>3, <1>4, <1>5, <1>6 DEF Import

LEMMA EjectIsOrderly ==
    ASSUME CommandInv, NEW p \in Terminals, Eject(p)
    PROVE  Orderly(p)
  <1>0. TermShape /\ DOMAIN docs = Files /\ KindFits(term[p])
    BY DEF CommandInv, LockInv
  <1>1. CASE StandsBack(p)
    BY <1>0, <1>1, OutsideIsOrderly DEF StandsBack, files
  <1>2. CASE EjectStarts(p)
    BY <1>0, <1>1, <1>2, StartsStandBack
  <1>3. CASE (LockForEject(p) \/ Confirm(p)) /\ ~StandsBack(p)
    <2>1. Ejects(p)
      BY <1>0, <1>3, LockForEjectDoes, ConfirmDoes
    <2> QED
      BY <1>0, <2>1 DEF Ejects, Orderly, KindFits, Editing, Running, files
  <1> QED
    BY <1>1, <1>2, <1>3 DEF Eject

LEMMA RollbackIsOrderly ==
    ASSUME CommandInv, NEW p \in Terminals, Rollback(p)
    PROVE  Orderly(p)
  <1>0. TermShape /\ DOMAIN docs = Files /\ KindFits(term[p])
    BY DEF CommandInv, LockInv
  <1>1. CASE StandsBack(p)
    BY <1>0, <1>1, OutsideIsOrderly DEF StandsBack, files
  <1>2. CASE RollbackStarts(p) \/ FinishRollback(p)
    BY <1>0, <1>1, <1>2, StartsStandBack, RestStandsBack
  <1>3. CASE RollBackNext(p) /\ ~StandsBack(p)
    BY <1>0, <1>3, RollBackNextDoes, OutsideIsOrderly DEF KindFits
  <1>4. CASE PutBack(p)
    <2>1. DOMAIN docs' = Files
      BY <1>0, <1>4, PutBackDoes
    <2> QED
      BY <1>0, <1>4, <2>1, PutBackDoes, OutsideIsOrderly DEF Outside, KindFits
  <1> QED
    BY <1>1, <1>2, <1>3, <1>4 DEF Rollback

LEMMA WizardIsOrderly ==
    ASSUME CommandInv, NEW p \in Terminals, Wizard(p)
    PROVE  Orderly(p)
  <1>0. TermShape /\ DOMAIN docs = Files /\ KindFits(term[p])
    BY DEF CommandInv, LockInv
  <1>1. CASE StandsBack(p)
    BY <1>0, <1>1, OutsideIsOrderly DEF StandsBack, files
  <1>2. CASE InitStarts(p) \/ Refresh(p) \/ ReadState(p) \/ ImportStep(p)
    BY <1>0, <1>1, <1>2, StartsStandBack, RestStandsBack
  <1>3. CASE SyncStep(p) /\ ~StandsBack(p)
    <2>1. Foresees(p)
      BY <1>0, <1>3, SyncStepDoes
    <2> QED
      BY <1>0, <2>1, OutsideIsOrderly DEF Foresees, KindFits, files
  <1>4. CASE LockToApply(p)
    BY <1>0, <1>4, LockToApplyDoes DEF Resumes, Orderly, KindFits, Editing, Running, files
  <1> QED
    BY <1>1, <1>2, <1>3, <1>4 DEF Wizard

LEMMA CommandsAreOrderly ==
    ASSUME CommandInv, NEW p \in Terminals, Commanded(p)
    PROVE  Orderly(p)
  <1>1. CASE Crash(p)
    <2>1. StandsBack(p)
      BY <1>1, RestStandsBack DEF CommandInv, LockInv
    <2> QED
      BY <2>1, OutsideIsOrderly DEF StandsBack, files, CommandInv
  <1> QED
    BY <1>1, SyncIsOrderly, ApplyIsOrderly, EditIsOrderly, ImportIsOrderly, EjectIsOrderly,
       RollbackIsOrderly, WizardIsOrderly DEF Commanded

LEMMA CommandInvStep ==
    ASSUME CommandInv, [Next \/ Rest]_vars
    PROVE  CommandInv'
  <1>1. CASE \E p \in Terminals : Commanded(p)
    BY <1>1, CommandsAreOrderly, OrderKept
  <1>2. CASE \E f \in Files : User(f)
    <2>1. PICK f \in Files : User(f)
      BY <1>2
    <2>2. \E doc : docs' = [docs EXCEPT ![f] = doc]
      BY <2>1, UserDoes
    <2>3. UNCHANGED <<config, stateFile, term, configLock, stateLock>>
      BY <2>1, UserDoes
    <2> QED
      BY <2>2, <2>3 DEF CommandInv, LockInv, TermShape, LocksAreHeld, CopiesAreCurrent
  <1>3. CASE UNCHANGED vars
    BY <1>3 DEF vars, files, CommandInv, LockInv, TermShape, LocksAreHeld, CopiesAreCurrent
  <1>4. Next \/ Rest \/ UNCHANGED vars
    OBVIOUS
  <1> QED
    BY <1>1, <1>2, <1>3, <1>4 DEF Next, Rest, Commanded

LEMMA CommandInvInit == Init => CommandInv
  <1> SUFFICES ASSUME Init PROVE CommandInv
    OBVIOUS
  <1>1. TermShape /\ \A p \in Terminals : term[p].pc = "idle"
    BY IdleShape DEF Init, TermShape
  <1>2. DOMAIN docs = Files
    BY CommandAssumption DEF Init
  <1> QED
    BY <1>1, <1>2 DEF CommandInv, LockInv, LocksAreHeld, CopiesAreCurrent, KindFits, Editing, Running

LEMMA CommandInvHolds == Spec => []CommandInv
  BY CommandInvInit, CommandInvStep, PTL DEF Spec

\* No command writes the config or the state file from a copy that is not what
\* the file holds, whatever the commands, the terminals and the interleaving
\* of their steps: the two locks, held from the read to the write, and the
\* second read of import behind its question (store.rs, state.rs).
THEOREM NoLostUpdateHolds == Spec => []NoLostUpdate
  <1>1. CommandInv => NoLostUpdate
    BY DEF CommandInv, LockInv, CopiesAreCurrent, NoLostUpdate, At, Editing, Running
  <1> QED
    BY <1>1, CommandInvHolds, PTL

-----------------------------------------------------------------------------
(* A rollback undoes the write.                                             *)

\* A file that did not change since is what its newest backup holds.
Stack(s) == \E S : s \in Seq(S)
BackupInv ==
    /\ DOMAIN backups = Files /\ \A f \in Files : Stack(backups[f])
    /\ \A f \in Files \ raced : Last(backups[f]) = docs[f]

\* What a step does to the client files and to their backups.
Kept    == UNCHANGED <<docs, backups, raced>>
Copied  == docs' = docs /\ \E f \in Files, existed \in BOOLEAN : Copies(f, existed)
Written == /\ backups' = backups
           /\ \E f \in Files : raced' = raced \cup {f} /\ \E doc : docs' = [docs EXCEPT ![f] = doc]

LEMMA TurnIsAFile ==
    ASSUME NEW todo, NEW f \in Turn(todo)
    PROVE  f \in Files /\ f \in todo
  <1>1. f \in todo /\ \E i \in DOMAIN FileOrder : FileOrder[i] = f
    BY DEF Turn
  <1> QED
    BY <1>1, ImportAssumption, ElementOfSeq

LEMMA PushedIsOnTop ==
    ASSUME NEW s, Stack(s), NEW doc
    PROVE  Stack(Pushed(s, doc)) /\ Last(Pushed(s, doc)) = doc
  <1>1. PICK S : s \in Seq(S)
    BY DEF Stack
  <1> DEFINE T == S \cup {doc}
             all == Append(s, doc)
  <1>2. s \in Seq(T)
    BY <1>1
  <1>3. all \in Seq(T) /\ Len(all) = Len(s) + 1 /\ all[Len(all)] = doc /\ Len(s) \in Nat
    BY <1>2
  <1>4. CASE Len(all) > Keep
    <2>1. Len(all) > 1
      BY <1>4, CommandAssumption, <1>3
    <2>2. Tail(all) \in Seq(T) /\ Len(Tail(all)) = Len(all) - 1 /\ Tail(all)[Len(all) - 1] = all[Len(all)]
      BY <1>3, <2>1
    <2> QED
      BY <1>3, <1>4, <2>2 DEF Pushed, Stack, Last
  <1>5. CASE ~(Len(all) > Keep)
    BY <1>3, <1>5 DEF Pushed, Stack, Last
  <1> QED
    BY <1>4, <1>5

LEMMA CommandOnFiles ==
    ASSUME CommandInv, NEW p \in Terminals, Commanded(p)
    PROVE  Kept \/ Copied \/ Written
  <1>0. TermShape /\ DOMAIN docs = Files /\ KindFits(term[p])
    BY DEF CommandInv, LockInv
  <1>1. ASSUME StandsBack(p) PROVE Kept
    BY <1>1 DEF StandsBack, files, Kept
  <1>2. CASE Sync(p)
    <2>1. CASE PlanNext(p)
      BY <1>0, <2>1, PlanNextDoes DEF PlansNext, files, Kept
    <2> QED
      BY <1>0, <1>1, <1>2, <2>1, StartsStandBack, LockForSyncDoes, FinishSyncDoes DEF Sync, files, Kept
  <1>3. CASE Apply(p)
    <2>1. CASE BackUp(p)
      BY <1>0, <1>1, <2>1, BackUpDoes, TurnIsAFile DEF Copied
    <2>2. CASE ClaimNames(p)
      BY <1>0, <2>2, ClaimNamesDoes DEF Kept
    <2>3. CASE Write(p)
      <3>1. Writes(p)
        BY <1>0, <2>3, WriteDoes
      <3>2. PICK f \in Turn(term[p].todo) :
               /\ docs' = [docs EXCEPT ![f] = ApplyPlanTo(term[p].docs[f], term[p].plans[f])]
               /\ raced' = raced \cup {f}
        BY <3>1 DEF Writes
      <3>3. f \in Files /\ backups' = backups
        BY <3>1, TurnIsAFile DEF Writes
      <3> QED
        BY <3>2, <3>3 DEF Written
    <2> QED
      BY <1>3, <2>1, <2>2, <2>3 DEF Apply
  <1>4. CASE EditConfig(p)
    BY <1>0, <1>1, <1>4, StartsStandBack, LockForEditDoes, SaveEditDoes DEF EditConfig, files, Kept
  <1>5. CASE Import(p)
    <2>1. Adopts(p) => Kept
      BY DEF Adopts, files, Kept
    <2> QED
      BY <1>0, <1>1, <1>5, <2>1, StartsStandBack, LockForImportDoes, AnswerDoes, LockToAdoptDoes, SaveImportedDoes,
         SaveAdoptionsDoes DEF Import, files, Kept
  <1>6. CASE Eject(p)
    <2>1. Ejects(p) => Kept
      BY DEF Ejects, files, Kept
    <2> QED
      BY <1>0, <1>1, <1>6, <2>1, StartsStandBack, LockForEjectDoes, ConfirmDoes DEF Eject
  <1>7. CASE Rollback(p)
    <2>1. CASE RollBackNext(p)
      BY <1>0, <1>1, <2>1, RollBackNextDoes, TurnIsAFile DEF Copied
    <2>2. CASE PutBack(p)
      BY <1>0, <2>2, PutBackDoes, TurnIsAFile DEF Written
    <2> QED
      BY <1>0, <1>1, <1>7, <2>1, <2>2, StartsStandBack, RestStandsBack DEF Rollback
  <1>8. CASE Wizard(p)
    <2>1. Foresees(p) => Kept
      BY DEF Foresees, files, Kept
    <2> QED
      BY <1>0, <1>1, <1>8, <2>1, StartsStandBack, RestStandsBack, SyncStepDoes, LockToApplyDoes DEF Wizard, files, Kept
  <1>9. CASE Crash(p)
    BY <1>0, <1>1, <1>9, RestStandsBack
  <1> QED
    BY <1>2, <1>3, <1>4, <1>5, <1>6, <1>7, <1>8, <1>9 DEF Commanded

LEMMA StepOnFiles ==
    ASSUME CommandInv, [Next \/ Rest]_vars
    PROVE  Kept \/ Copied \/ Written
  <1>1. CASE \E p \in Terminals : Commanded(p)
    BY <1>1, CommandOnFiles
  <1>2. CASE \E f \in Files : User(f)
    BY <1>2, UserDoes DEF Written
  <1>3. CASE UNCHANGED vars
    BY <1>3 DEF vars, files, Kept
  <1>4. Next \/ Rest \/ UNCHANGED vars
    OBVIOUS
  <1> QED
    BY <1>1, <1>2, <1>3, <1>4 DEF Next, Rest, Commanded

LEMMA BackupInvStep ==
    ASSUME CommandInv, BackupInv, [Next \/ Rest]_vars
    PROVE  BackupInv'
  <1>1. CASE Kept
    BY <1>1 DEF Kept, BackupInv
  <1>2. CASE Copied
    <2>1. PICK f \in Files, existed \in BOOLEAN : Copies(f, existed)
      BY <1>2 DEF Copied
    <2>2. CASE ~existed
      BY <1>2, <2>1, <2>2 DEF Copied, Copies, BackupInv
    <2>3. CASE existed
      <3>1. docs' = docs /\ raced' = raced \ {f} /\ backups' = [backups EXCEPT ![f] = Pushed(backups[f], docs[f])]
        BY <1>2, <2>1, <2>3 DEF Copied, Copies
      <3>2. Stack(Pushed(backups[f], docs[f])) /\ Last(Pushed(backups[f], docs[f])) = docs[f]
        BY PushedIsOnTop DEF BackupInv
      <3>3. DOMAIN backups' = Files
        BY <3>1 DEF BackupInv
      <3>4. ASSUME NEW g \in Files
            PROVE  Stack(backups'[g]) /\ (g \notin raced' => Last(backups'[g]) = docs'[g])
        BY <3>1, <3>2 DEF BackupInv
      <3> QED
        BY <3>3, <3>4 DEF BackupInv
    <2> QED
      BY <2>2, <2>3
  <1>3. CASE Written
    BY <1>3 DEF Written, BackupInv
  <1> QED
    BY <1>1, <1>2, <1>3, StepOnFiles

LEMMA BackupInvInit == Init => BackupInv
  <1>1. Stack(<< >>)
    <2>1. << >> \in Seq({})
      OBVIOUS
    <2> QED
      BY <2>1 DEF Stack
  <1> QED
    BY <1>1 DEF Init, BackupInv

\* "Undo everything this run did": a file that is replaced and that nobody
\* changed since it was copied is what its newest backup holds, however many
\* commands, users and rollbacks work on the files at once, and however few
\* backups are kept (backup.rs, apply_client).
THEOREM RollbackUndoesTheWriteHolds == Spec => RollbackUndoesTheWrite
  <1>1. ASSUME BackupInv, NEW p \in Terminals, NEW f \in Files, Replaces(p, f), f \notin raced
        PROVE  Last(backups[f]) = docs[f]
    BY <1>1 DEF BackupInv
  <1>2. BackupInv => [\A p \in Terminals : \A f \in Files :
                         /\ Replaces(p, f)
                         /\ term[p].docs[f].shape # "missing" /\ f \notin raced
                         => Last(backups[f]) = docs[f]]_vars
    BY <1>1
  <1> QED
    BY <1>2, BackupInvInit, CommandInvHolds, BackupInvStep, PTL DEF Spec, RollbackUndoesTheWrite

-----------------------------------------------------------------------------
(* What sync writes needs nothing more.                                     *)

\* Absent and Wrong stand for what is no JSON object: no key is in them that
\* says where an entry leads, and none of the switches.
EntryKeys == {"command", "url", "httpUrl", "serverUrl", "disabled", "autoApprove", "alwaysAllow", "disabledTools"}
NothingIsAnObject == \A k \in EntryKeys : ~Has(Absent, k) /\ ~Has(Wrong, k)

LEMMA EmitsSomething ==
    ASSUME NothingIsAnObject, NEW schema, NEW transport, NEW more
    PROVE  Emit(schema, transport) \cup more \notin {Absent, Wrong}
  <1> DEFINE entry == Emit(schema, transport) \cup more
  <1>1. UrlKey(schema) \in EntryKeys /\ "command" \in EntryKeys
    BY DEF UrlKey, EntryKeys
  <1>2. \/ <<"command", transport.at>> \in entry
        \/ <<UrlKey(schema), transport.at>> \in entry
    BY DEF Emit, Target
  <1> HIDE DEF entry
  <1>3. \A k, value : <<k, value>> \in entry => Has(entry, k)
    <2> SUFFICES ASSUME NEW k, NEW value, <<k, value>> \in entry PROVE Has(entry, k)
      OBVIOUS
    <2>1. <<k, value>>[1] = k
      OBVIOUS
    <2> QED
      BY <2>1 DEF Has, Keys
  <1>4. PICK k \in EntryKeys : Has(entry, k)
    BY <1>1, <1>2, <1>3
  <1> QED
    BY <1>4 DEF NothingIsAnObject, entry

LEMMA CarriedOnce ==
    ASSUME NothingIsAnObject, NEW kind, NEW existing, NEW server
    PROVE  LET emitted == ClientEntry(kind, server)
               carried == CarryOver(kind, existing, emitted)
           IN carried \notin {Absent, Wrong} /\ CarryOver(kind, carried, emitted) = carried
  <1> DEFINE emitted == ClientEntry(kind, server)
             carried == CarryOver(kind, existing, emitted)
             mine(obj) == {pair \in obj : /\ pair[1] \in PreservedFields(Codec(kind).entries)
                                          /\ ~Has(emitted, pair[1])}
  <1>1. \A more : emitted \cup more \notin {Absent, Wrong}
    BY EmitsSomething DEF ClientEntry
  <1>2. emitted \cup {} = emitted
    OBVIOUS
  <1>3. carried \notin {Absent, Wrong}
    BY <1>1, <1>2 DEF CarryOver
  <1>4. CarryOver(kind, carried, emitted) = emitted \cup mine(carried)
    BY <1>3 DEF CarryOver
  <1>5. mine(emitted) = {}
    BY DEF Has, Keys
  <1>6. \/ mine(carried) = mine(existing) /\ carried = emitted \cup mine(existing)
        \/ mine(carried) = {} /\ carried = emitted
    <2>1. CASE existing \in {Absent, Wrong}
      BY <1>5, <2>1 DEF CarryOver
    <2>2. CASE existing \notin {Absent, Wrong}
      <3>1. carried = emitted \cup mine(existing)
        BY <2>2 DEF CarryOver
      <3>2. mine(carried) = mine(existing)
        BY <1>5, <3>1
      <3> QED
        BY <3>1, <3>2
    <2> QED
      BY <2>1, <2>2
  <1> HIDE DEF carried, mine, emitted
  <1>7. CarryOver(kind, carried, emitted) = carried
    BY <1>4, <1>6
  <1> QED
    BY <1>3, <1>7 DEF carried, emitted

\* What plan_file adds to the difference is the exclusion list.
SyncParts(plan, made, kind, doc) ==
    /\ plan.adds = made.adds /\ plan.updates = made.updates /\ plan.removes = made.removes
    /\ plan.desired = made.desired
    /\ plan.unexclude = IF HasExclusionList(kind)
                        THEN doc.excluded \cap (ManagedAfter(made) \cup made.removes) ELSE {}

LEMMA PlanFileParts ==
    ASSUME NEW f, NEW doc, NEW desired, NEW managed
    PROVE  SyncParts(PlanFile(f, doc, desired, managed), PlanSync(KindOf[f], Entries(doc), desired, managed),
                     KindOf[f], doc)
  BY DEF SyncParts, PlanFile, PlanClientContext, PlanSync, Difference

\* Planning a file again after its plan was applied, with the names it claimed
\* as the managed ones.
LEMMA AppliedPlanIsDone ==
    ASSUME NothingIsAnObject, NEW f, NEW doc, NEW desired, NEW managed
    PROVE  LET plan == PlanFile(f, doc, desired, managed)
           IN ~HasChanges(PlanFile(f, ApplyPlanTo(doc, plan), desired, ManagedAfter(plan)))
  <1> DEFINE kind == KindOf[f]
             entry(n, current) == CarryOver(kind, current[n], ClientEntry(kind, desired[n]))
             owned(current, mine) == Mirrored(desired) \ Conflicts(current, desired, mine)
             cur == Entries(doc)
             first == PlanSync(kind, cur, desired, managed)
             plan == PlanFile(f, doc, desired, managed)
             after == ApplyPlanTo(doc, plan)
             now == Entries(after)
             own == owned(cur, managed)
             again == PlanSync(kind, now, desired, ManagedAfter(plan))
             last == PlanFile(f, after, desired, ManagedAfter(plan))
  <1>0. SyncParts(plan, first, kind, doc) /\ SyncParts(last, again, kind, after)
    BY PlanFileParts
  <1>1. \A n \in Names : entry(n, cur) \notin {Absent, Wrong}
                         /\ CarryOver(kind, entry(n, cur), ClientEntry(kind, desired[n])) = entry(n, cur)
    BY CarriedOnce
  <1>2. own \subseteq Names /\ Mirrored(desired) \subseteq Names
    BY DEF Mirrored, Known
  <1>3. /\ first.desired = DesiredEntries(kind, cur, desired, own)
        /\ {n \in Names : first.desired[n] # Absent} = own
    BY <1>1, <1>2 DEF PlanSync, Difference, DesiredEntries
  <1>4. /\ first.adds = {n \in own : cur[n] = Absent}
        /\ first.updates = {n \in own : cur[n] \notin {Absent, entry(n, cur)}}
        /\ first.removes = ({n \in Names : cur[n] # Absent} \ (own \cup Conflicts(cur, desired, managed))) \cap managed
    BY <1>1, <1>2, <1>3 DEF PlanSync, Difference, DesiredEntries
  <1>5. /\ plan.adds = first.adds /\ plan.updates = first.updates /\ plan.removes = first.removes
        /\ plan.desired = first.desired
    BY <1>0 DEF SyncParts
  <1>6. ManagedAfter(plan) = own
    BY <1>3, <1>5 DEF ManagedAfter
  <1>7. \A n \in Names : now[n] = IF Upserts(plan)[n] # Absent THEN Upserts(plan)[n]
                                  ELSE IF n \in plan.removes THEN Absent ELSE cur[n]
    BY DEF ApplyPlanTo, Edit, Doc, Entries
  <1>8. \A n \in own : now[n] = entry(n, cur)
    <2> SUFFICES ASSUME NEW n \in own PROVE now[n] = entry(n, cur)
      OBVIOUS
    <2>1. n \in Names /\ first.desired[n] = entry(n, cur) /\ entry(n, cur) # Absent
      BY <1>1, <1>2, <1>3 DEF DesiredEntries
    <2>2. CASE n \in plan.adds \cup plan.updates
      BY <1>5, <1>7, <2>1, <2>2 DEF Upserts
    <2>3. CASE n \notin plan.adds \cup plan.updates
      <3>1. cur[n] = entry(n, cur)
        BY <1>4, <1>5, <2>3
      <3>2. n \notin plan.removes
        BY <1>4, <1>5
      <3> QED
        BY <1>7, <2>1, <2>3, <3>1, <3>2 DEF Upserts
    <2> QED
      BY <2>2, <2>3
  <1>9. \A n \in Conflicts(cur, desired, managed) : now[n] # Absent
    <2> SUFFICES ASSUME NEW n \in Conflicts(cur, desired, managed) PROVE now[n] # Absent
      OBVIOUS
    <2>1. n \in Names /\ n \notin own /\ cur[n] # Absent
      BY <1>2 DEF Conflicts, Unmanaged
    <2>2. n \notin plan.adds \cup plan.updates \cup plan.removes
      BY <1>4, <1>5, <2>1
    <2> QED
      BY <1>7, <2>1, <2>2 DEF Upserts
  <1>10. Conflicts(now, desired, own) = Conflicts(cur, desired, managed)
    BY <1>9 DEF Conflicts, Unmanaged
  <1>11. owned(now, own) = own
    BY <1>10
  <1>12. \A n \in own : entry(n, now) = entry(n, cur)
    BY <1>1, <1>2, <1>8
  <1>13. /\ again.desired = DesiredEntries(kind, now, desired, own)
         /\ {n \in Names : again.desired[n] # Absent} = own
    BY <1>1, <1>2, <1>6, <1>11, <1>12 DEF PlanSync, Difference, DesiredEntries
  <1>14. again.adds = {} /\ again.updates = {} /\ again.removes = {}
    <2>1. \A n \in own : again.desired[n] = now[n] /\ now[n] # Absent
      BY <1>1, <1>2, <1>8, <1>12, <1>13 DEF DesiredEntries
    <2>2. /\ again.adds = {n \in {m \in Names : again.desired[m] # Absent} : now[n] = Absent}
          /\ again.updates = {n \in {m \in Names : again.desired[m] # Absent} : now[n] \notin {Absent, again.desired[n]}}
          /\ again.removes \subseteq ManagedAfter(plan) \ {n \in Names : again.desired[n] # Absent}
      BY DEF PlanSync, Difference
    <2> QED
      BY <1>6, <1>13, <2>1, <2>2
  <1>15. last.adds = again.adds /\ last.updates = again.updates /\ last.removes = again.removes
    BY <1>0 DEF SyncParts
  <1>16. last.unexclude = {}
    <2>1. CASE ~HasExclusionList(kind)
      BY <1>0, <2>1 DEF SyncParts
    <2>2. CASE HasExclusionList(kind)
      <3>1. after.excluded = doc.excluded \ plan.unexclude
        BY DEF ApplyPlanTo, Edit, Doc
      <3>2. plan.unexclude = doc.excluded \cap (ManagedAfter(first) \cup first.removes)
        BY <1>0, <2>2 DEF SyncParts
      <3>3. last.unexclude = after.excluded \cap (ManagedAfter(again) \cup again.removes)
        BY <1>0, <2>2 DEF SyncParts
      <3>4. ManagedAfter(first) = own /\ ManagedAfter(again) = own
        BY <1>3, <1>13 DEF ManagedAfter
      <3> QED
        BY <1>14, <3>1, <3>2, <3>3, <3>4
    <2> QED
      BY <2>1, <2>2
  <1> QED
    BY <1>14, <1>15, <1>16 DEF HasChanges

LEMMA TurnIsOne ==
    ASSUME NEW todo, NEW f \in Turn(todo), NEW g \in Turn(todo)
    PROVE  f = g
  <1>1. f \in todo /\ g \in todo
    BY DEF Turn
  <1>2. PICK i, j \in DOMAIN FileOrder : i <= j /\ FileOrder[i] = f /\ FileOrder[j] = g
    BY <1>1 DEF Turn
  <1>3. PICK k, l \in DOMAIN FileOrder : k <= l /\ FileOrder[k] = g /\ FileOrder[l] = f
    BY <1>1 DEF Turn
  <1>4. i = l /\ j = k
    BY <1>2, <1>3, ImportAssumption
  <1>5. DOMAIN FileOrder \subseteq Nat
    <2>1. DOMAIN FileOrder = 1 .. Len(FileOrder) /\ Len(FileOrder) \in Nat
      BY ImportAssumption, LenProperties
    <2> QED
      BY <2>1
  <1> QED
    BY <1>2, <1>3, <1>4, <1>5

StateShape(state) == DOMAIN state = {"managed", "resolved", "migrated"} /\ DOMAIN state.managed = Files

LEMMA ClaimShape ==
    ASSUME NEW state, StateShape(state), NEW f \in Files, NEW names
    PROVE  /\ StateShape(Claim(state, f, names)) /\ Managed(Claim(state, f, names), f) = names
           /\ Claim(state, f, names).resolved = state.resolved
  BY DEF StateShape, Claim, Managed

\* The files whose plans are made: all that are to be done, or the next one.
Due(t) == IF t.cmd.kind \in {"eject", "init"} THEN t.todo ELSE Turn(t.todo)
PlansAreOf(t) == \A f \in Due(t) : f \in Files /\ t.plans[f] = PlanOf(t, f)

\* A plan is what planning says of the copies it was made from, and only the
\* wizard's answers may be others than those of the state it writes.
PlansFit(t) ==
    /\ t.pc \in {"save config", "save adoptions"} => StateShape(t.imported.state)
    /\ t.pc \in {"lock to apply", "back up", "claim", "write"} => PlansAreOf(t)
    /\ t.pc \in {"plan", "back up", "claim", "write"} => t.cmd.kind = "init" \/ t.state.resolved = t.seen.resolved
    /\ t.pc = "write" => \A f \in Turn(t.todo) : Managed(t.state, f) = ManagedAfter(t.plans[f])
PlanInv == StateShape(stateFile) /\ \A p \in Terminals : PlansFit(term[p])

\* What a step must leave behind.
Leaves(p) == StateShape(stateFile') /\ PlansFit(term'[p])

LEMMA OutsideFits ==
    ASSUME NEW t, t.pc \in Outside \cup {"lock for sync", "save edit", "adopt", "put back"}
    PROVE  PlansFit(t)
  BY DEF PlansFit, Outside

LEMMA StandingBackLeaves ==
    ASSUME PlanInv, NEW p \in Terminals, StandsBack(p)
    PROVE  Leaves(p)
  BY OutsideFits DEF StandsBack, Leaves, PlanInv, files

LEMMA TurnIsDue ==
    ASSUME NEW t, NEW f \in Turn(t.todo)
    PROVE  f \in Due(t)
  BY TurnIsAFile DEF Due

\* The same copies, the same plans.
LEMMA SamePlans ==
    ASSUME NEW t, NEW u, PlansAreOf(t), u.cmd = t.cmd, u.config = t.config, u.seen = t.seen,
           u.docs = t.docs, u.plans = t.plans, u.todo = t.todo
    PROVE  PlansAreOf(u)
  <1>1. Due(u) = Due(t)
    BY DEF Due
  <1>2. ASSUME NEW f \in Due(t) PROVE PlanOf(t, f) = PlanOf(u, f)
    BY SamePlan
  <1> QED
    BY <1>1, <1>2 DEF PlansAreOf

LEMMA SyncLeaves ==
    ASSUME CommandInv, PlanInv, NEW p \in Terminals, Sync(p)
    PROVE  Leaves(p)
  <1>0. /\ TermShape /\ StateShape(stateFile) /\ PlansFit(term[p]) /\ KindFits(term[p])
        /\ term[p].pc \in Running => term[p].state = stateFile
    BY DEF CommandInv, LockInv, CopiesAreCurrent, PlanInv
  <1>1. CASE SyncStarts(p)
    BY <1>0, <1>1, StartsStandBack, StandingBackLeaves
  <1>2. CASE LockForSync(p)
    BY <1>0, <1>2, LockForSyncDoes DEF Leaves, PlansFit, files
  <1>3. CASE PlanNext(p)
    <2>1. PlansNext(p)
      BY <1>0, <1>3, PlanNextDoes
    <2>2. PICK f \in Turn(term[p].todo) :
            \/ term'[p].pc = "plan" /\ term'[p].todo = term[p].todo \ {f}
            \/ /\ term'[p].pc = "back up" /\ term'[p].todo = term[p].todo
               /\ f \in Files => term'[p].plans[f] = PlanOf(term'[p], f)
      BY <2>1 DEF PlansNext
    <2>3. /\ term'[p].cmd = term[p].cmd /\ term'[p].state = term[p].state /\ term'[p].seen = term[p].seen
          /\ term[p].pc = "plan" /\ stateFile' = stateFile
      BY <2>1 DEF PlansNext, files
    <2>4. term[p].state.resolved = term[p].seen.resolved /\ term[p].cmd.kind \notin {"eject", "init"}
      BY <1>0, <2>3 DEF PlansFit, KindFits
    <2>5. CASE term'[p].pc = "plan"
      BY <1>0, <2>3, <2>4, <2>5 DEF Leaves, PlansFit
    <2>6. CASE term'[p].pc = "back up" /\ term'[p].todo = term[p].todo
               /\ (f \in Files => term'[p].plans[f] = PlanOf(term'[p], f))
      <3>1. Due(term'[p]) = Turn(term[p].todo)
        BY <2>3, <2>4, <2>6 DEF Due
      <3>2. f \in Files /\ \A g \in Due(term'[p]) : g = f
        BY <3>1, TurnIsAFile, TurnIsOne
      <3>3. PlansAreOf(term'[p])
        BY <2>6, <3>2 DEF PlansAreOf
      <3> QED
        BY <1>0, <2>3, <2>4, <2>6, <3>3 DEF Leaves, PlansFit
    <2> QED
      BY <2>2, <2>5, <2>6
  <1>4. CASE FinishSync(p)
    <2>1. term[p].state = stateFile /\ term'[p].pc = "idle"
          /\ stateFile' \in {stateFile, [term[p].state EXCEPT !.migrated = TRUE]}
      BY <1>0, <1>4, FinishSyncDoes DEF Running
    <2>2. StateShape(stateFile')
      BY <1>0, <2>1 DEF StateShape
    <2> QED
      BY <2>1, <2>2, OutsideFits DEF Leaves, Outside
  <1> QED
    BY <1>1, <1>2, <1>3, <1>4 DEF Sync

LEMMA ApplyLeaves ==
    ASSUME CommandInv, PlanInv, NEW p \in Terminals, Apply(p)
    PROVE  Leaves(p)
  <1>0. /\ TermShape /\ StateShape(stateFile) /\ PlansFit(term[p])
        /\ term[p].pc \in Running => term[p].state = stateFile
    BY DEF CommandInv, LockInv, CopiesAreCurrent, PlanInv
  <1>1. CASE BackUp(p)
    <2>1. CASE StandsBack(p)
      BY <2>1, StandingBackLeaves
    <2>2. CASE ~StandsBack(p)
      <3>1. Resumes(p, "claim") /\ term'[p].state = term[p].state /\ term[p].pc = "back up" /\ stateFile' = stateFile
        BY <1>0, <1>1, <2>2, BackUpDoes
      <3>2. PlansAreOf(term[p]) /\ (term[p].cmd.kind = "init" \/ term[p].state.resolved = term[p].seen.resolved)
        BY <1>0, <3>1 DEF PlansFit
      <3>3. PlansAreOf(term'[p])
        BY <3>1, <3>2, SamePlans DEF Resumes
      <3> QED
        BY <1>0, <3>1, <3>2, <3>3 DEF Leaves, PlansFit, Resumes
    <2> QED
      BY <2>1, <2>2
  <1>2. CASE ClaimNames(p)
    <2>1. PICK f \in Turn(term[p].todo) : stateFile' = Claim(term[p].state, f, ManagedAfter(term[p].plans[f]))
      BY <1>0, <1>2, ClaimNamesDoes
    <2>2. term[p].pc = "claim" /\ Resumes(p, "write") /\ term'[p].state = stateFile'
      BY <1>0, <1>2, ClaimNamesDoes
    <2>3. /\ PlansAreOf(term[p]) /\ (term[p].cmd.kind = "init" \/ term[p].state.resolved = term[p].seen.resolved)
          /\ StateShape(term[p].state)
      BY <1>0, <2>2 DEF PlansFit, Running
    <2>4. PlansAreOf(term'[p])
      BY <2>2, <2>3, SamePlans DEF Resumes
    <2>5. f \in Files
      BY TurnIsAFile
    <2>6. /\ StateShape(stateFile') /\ Managed(stateFile', f) = ManagedAfter(term[p].plans[f])
          /\ stateFile'.resolved = term[p].state.resolved
      BY <2>1, <2>3, <2>5, ClaimShape
    <2>7. \A g \in Turn(term'[p].todo) : g = f
      BY <2>2, TurnIsOne DEF Resumes
    <2> QED
      BY <2>2, <2>3, <2>4, <2>6, <2>7 DEF Leaves, PlansFit, Resumes
  <1>3. CASE Write(p)
    <2>1. Writes(p)
      BY <1>0, <1>3, WriteDoes
    <2>2. PICK f \in Turn(term[p].todo) :
             \/ term'[p].pc = "idle"
             \/ /\ term'[p].pc = IF term[p].cmd.kind \in {"eject", "init"} THEN "back up" ELSE "plan"
                /\ term'[p].cmd = term[p].cmd /\ term'[p].config = term[p].config
                /\ term'[p].state = term[p].state /\ term'[p].seen = term[p].seen
                /\ term'[p].todo = term[p].todo \ {f}
                /\ \A g \in Files \ {f} : /\ term'[p].docs[g] = term[p].docs[g]
                                          /\ term'[p].plans[g] = term[p].plans[g]
      BY <2>1 DEF Writes
    <2>3. stateFile' = stateFile /\ term[p].pc = "write"
      BY <2>1 DEF Writes
    <2>4. CASE term'[p].pc = "idle"
      BY <1>0, <2>3, <2>4, OutsideFits DEF Leaves, Outside
    <2>5. CASE term'[p].pc # "idle"
      <3>1. PlansAreOf(term[p]) /\ (term[p].cmd.kind = "init" \/ term[p].state.resolved = term[p].seen.resolved)
        BY <1>0, <2>3 DEF PlansFit
      <3>2. CASE term[p].cmd.kind \in {"eject", "init"}
        <4>1. Due(term'[p]) = term[p].todo \ {f} /\ Due(term[p]) = term[p].todo
          BY <2>2, <2>5, <3>2 DEF Due
        <4>2. ASSUME NEW g \in Due(term'[p]) PROVE g \in Files /\ term'[p].plans[g] = PlanOf(term'[p], g)
          <5>1. g \in Files \ {f} /\ term[p].plans[g] = PlanOf(term[p], g)
            BY <3>1, <4>1 DEF PlansAreOf
          <5>2. PlanOf(term[p], g) = PlanOf(term'[p], g)
            <6>1. /\ term'[p].cmd = term[p].cmd /\ term'[p].config = term[p].config
                  /\ term'[p].seen = term[p].seen /\ term'[p].docs[g] = term[p].docs[g]
              BY <2>2, <2>5, <5>1
            <6> QED
              BY <6>1, SamePlan
          <5> QED
            BY <2>2, <2>5, <5>1, <5>2
        <4>3. PlansAreOf(term'[p])
          BY <4>2 DEF PlansAreOf
        <4> QED
          BY <1>0, <2>2, <2>3, <2>5, <3>1, <3>2, <4>3 DEF Leaves, PlansFit
      <3>3. CASE term[p].cmd.kind \notin {"eject", "init"}
        BY <1>0, <2>2, <2>3, <2>5, <3>1, <3>3 DEF Leaves, PlansFit
      <3> QED
        BY <3>2, <3>3
    <2> QED
      BY <2>4, <2>5
  <1> QED
    BY <1>1, <1>2, <1>3 DEF Apply

LEMMA ImportedShape ==
    ASSUME NEW plan, NEW held, StateShape(held.state), NEW answers, NEW skip
    PROVE  StateShape(Imported(plan, held, answers, skip).state)
  <1> DEFINE claims == [f \in Files |-> held.state.managed[f] \cup AdoptOrigins(plan, Brought(plan, answers, skip), f)]
             stands == [f \in Files |-> [n \in Names |->
                          IF ResolveOrigins(plan, answers, f, n) = {} THEN held.state.resolved[f][n]
                          ELSE CHOOSE c \in ResolveOrigins(plan, answers, f, n) : TRUE]]
             left == [held.state EXCEPT !.managed = claims, !.resolved = stands]
  <1>1. Imported(plan, held, answers, skip).state = left
    BY Zenon DEF Imported
  <1>2. DOMAIN claims = Files
    OBVIOUS
  <1> HIDE DEF claims, stands
  <1>3. StateShape(left)
    BY <1>2 DEF StateShape
  <1> QED
    BY <1>1, <1>3

LEMMA ImportLeaves ==
    ASSUME CommandInv, PlanInv, NEW p \in Terminals, Import(p)
    PROVE  Leaves(p)
  <1>0. TermShape /\ StateShape(stateFile) /\ PlansFit(term[p])
    BY DEF CommandInv, LockInv, PlanInv
  <1>1. CASE StandsBack(p)
    BY <1>1, StandingBackLeaves
  <1>2. CASE ImportStarts(p)
    BY <1>0, <1>1, <1>2, StartsStandBack
  <1>3. CASE (LockForImport(p) \/ Answer(p)) /\ ~StandsBack(p)
    <2>1. Adopts(p)
      BY <1>0, <1>3, LockForImportDoes, AnswerDoes
    <2> QED
      BY <1>0, <2>1, OutsideFits DEF Adopts, Leaves, files
  <1>4. CASE LockToAdopt(p) /\ ~StandsBack(p)
    <2>1. /\ term'[p].pc = "save config" /\ stateFile' = stateFile
          /\ \E plan, answers, skip :
                term'[p].imported = Imported(plan, [config |-> term[p].config, state |-> stateFile], answers, skip)
      BY <1>0, <1>4, LockToAdoptDoes DEF files
    <2>2. StateShape(term'[p].imported.state)
      BY <1>0, <2>1, ImportedShape
    <2> QED
      BY <1>0, <2>1, <2>2 DEF Leaves, PlansFit
  <1>5. CASE SaveImported(p)
    BY <1>0, <1>5, SaveImportedDoes DEF Leaves, PlansFit, Resumes
  <1>6. CASE SaveAdoptions(p)
    BY <1>0, <1>6, SaveAdoptionsDoes, OutsideFits DEF Leaves, PlansFit, Outside
  <1> QED
    BY <1>1, <1>2, <1>3, <1>4, <1>5, <1>6 DEF Import

LEMMA EjectLeaves ==
    ASSUME CommandInv, PlanInv, NEW p \in Terminals, Eject(p)
    PROVE  Leaves(p)
  <1>0. TermShape /\ StateShape(stateFile) /\ DOMAIN docs = Files
    BY DEF CommandInv, LockInv, PlanInv
  <1>1. CASE StandsBack(p)
    BY <1>1, StandingBackLeaves
  <1>2. CASE EjectStarts(p)
    BY <1>0, <1>1, <1>2, StartsStandBack
  <1>3. CASE (LockForEject(p) \/ Confirm(p)) /\ ~StandsBack(p)
    <2>1. Ejects(p)
      BY <1>0, <1>3, LockForEjectDoes, ConfirmDoes
    <2>2. \A f \in Due(term'[p]) : f \in term'[p].todo
      BY TurnIsAFile DEF Due
    <2>3. PlansAreOf(term'[p])
      BY <2>1, <2>2 DEF Ejects, PlansAreOf
    <2> QED
      BY <1>0, <2>1, <2>3 DEF Ejects, Leaves, PlansFit, files
  <1> QED
    BY <1>1, <1>2, <1>3 DEF Eject

LEMMA WizardLeaves ==
    ASSUME CommandInv, PlanInv, NEW p \in Terminals, Wizard(p)
    PROVE  Leaves(p)
  <1>0. TermShape /\ StateShape(stateFile) /\ DOMAIN docs = Files /\ KindFits(term[p]) /\ PlansFit(term[p])
    BY DEF CommandInv, LockInv, PlanInv
  <1>1. CASE StandsBack(p)
    BY <1>1, StandingBackLeaves
  <1>2. CASE InitStarts(p) \/ Refresh(p) \/ ReadState(p) \/ ImportStep(p)
    BY <1>0, <1>1, <1>2, StartsStandBack, RestStandsBack
  <1>3. CASE SyncStep(p) /\ ~StandsBack(p)
    <2>1. Foresees(p)
      BY <1>0, <1>3, SyncStepDoes
    <2>2. \A f \in Due(term'[p]) : f \in term'[p].todo
      BY TurnIsAFile DEF Due
    <2>3. PlansAreOf(term'[p])
      BY <2>1, <2>2 DEF Foresees, PlansAreOf
    <2> QED
      BY <1>0, <2>1, <2>3 DEF Foresees, Leaves, PlansFit, files
  <1>4. CASE LockToApply(p)
    <2>1. Resumes(p, "back up") /\ term[p].pc = "lock to apply" /\ stateFile' = stateFile
      BY <1>0, <1>4, LockToApplyDoes DEF files
    <2>2. PlansAreOf(term[p]) /\ term[p].cmd.kind = "init"
      BY <1>0, <2>1 DEF PlansFit, KindFits
    <2>3. PlansAreOf(term'[p])
      BY <2>1, <2>2, SamePlans DEF Resumes
    <2> QED
      BY <1>0, <2>1, <2>2, <2>3 DEF Leaves, PlansFit, Resumes
  <1> QED
    BY <1>1, <1>2, <1>3, <1>4 DEF Wizard

LEMMA CommandLeaves ==
    ASSUME CommandInv, PlanInv, NEW p \in Terminals, Commanded(p)
    PROVE  Leaves(p)
  <1>0. TermShape /\ StateShape(stateFile) /\ DOMAIN docs = Files /\ KindFits(term[p])
    BY DEF CommandInv, LockInv, PlanInv
  <1>1. CASE StandsBack(p)
    BY <1>1, StandingBackLeaves
  <1>2. CASE EditConfig(p) /\ ~StandsBack(p)
    BY <1>0, <1>2, StartsStandBack, LockForEditDoes, SaveEditDoes, OutsideFits DEF EditConfig, Leaves, Outside, files
  <1>3. CASE Rollback(p) /\ ~StandsBack(p)
    <2>1. CASE RollBackNext(p)
      BY <1>0, <1>3, <2>1, RollBackNextDoes, OutsideFits DEF Leaves
    <2>2. CASE PutBack(p)
      BY <1>0, <2>2, PutBackDoes, OutsideFits DEF Leaves, Outside
    <2> QED
      BY <1>0, <1>3, <2>1, <2>2, StartsStandBack, RestStandsBack DEF Rollback
  <1>4. CASE Crash(p)
    BY <1>0, <1>1, <1>4, RestStandsBack
  <1> QED
    BY <1>1, <1>2, <1>3, <1>4, SyncLeaves, ApplyLeaves, ImportLeaves, EjectLeaves, WizardLeaves DEF Commanded

LEMMA PlanInvStep ==
    ASSUME CommandInv, PlanInv, [Next \/ Rest]_vars
    PROVE  PlanInv'
  <1>1. CASE \E p \in Terminals : Commanded(p)
    <2>1. PICK p \in Terminals : Commanded(p)
      BY <1>1
    <2>2. Leaves(p) /\ Orderly(p)
      BY <2>1, CommandLeaves, CommandsAreOrderly
    <2>3. \A q \in Terminals \ {p} : term'[q] = term[q]
      BY <2>2, MovedShape DEF Orderly, CommandInv, LockInv
    <2>4. ASSUME NEW q \in Terminals PROVE PlansFit(term'[q])
      <3>1. CASE q = p
        BY <2>2, <3>1 DEF Leaves
      <3>2. CASE q # p
        <4>1. term'[q] = term[q] /\ PlansFit(term[q])
          BY <2>3, <3>2 DEF PlanInv
        <4> QED
          BY <4>1
      <3> QED
        BY <3>1, <3>2
    <2>5. StateShape(stateFile')
      BY <2>2 DEF Leaves
    <2>6. \A q \in Terminals : PlansFit(term[q])'
      BY <2>4 DEF PlansFit, PlansAreOf, Due, Turn, PlanOf, Desired, StateShape, Managed, Resolved
    <2> QED
      BY <2>5, <2>6 DEF PlanInv, StateShape
  <1>2. CASE UNCHANGED <<stateFile, term>>
    BY <1>2 DEF PlanInv, PlansFit, PlansAreOf, StateShape
  <1>3. CASE \E f \in Files : User(f)
    BY <1>2, <1>3, UserDoes
  <1>4. CASE UNCHANGED vars
    BY <1>2, <1>4 DEF vars, files
  <1>5. Next \/ Rest \/ UNCHANGED vars
    OBVIOUS
  <1> QED
    BY <1>1, <1>3, <1>4, <1>5 DEF Next, Rest, Commanded

\* Of the commands' steps, the write and the rollback change a client file.
LEMMA CommandKeepsDocs ==
    ASSUME CommandInv, NEW p \in Terminals, Commanded(p), ~Write(p), ~PutBack(p)
    PROVE  docs' = docs
  <1>0. TermShape /\ DOMAIN docs = Files /\ KindFits(term[p])
    BY DEF CommandInv, LockInv
  <1>1. CASE StandsBack(p)
    BY <1>1 DEF StandsBack, files
  <1>2. CASE Sync(p) /\ ~StandsBack(p)
    BY <1>0, <1>2, StartsStandBack, LockForSyncDoes, PlanNextDoes, FinishSyncDoes DEF Sync, PlansNext, files
  <1>3. CASE Apply(p) /\ ~StandsBack(p)
    BY <1>0, <1>3, BackUpDoes, ClaimNamesDoes DEF Apply
  <1>4. CASE EditConfig(p) /\ ~StandsBack(p)
    BY <1>0, <1>4, StartsStandBack, LockForEditDoes, SaveEditDoes DEF EditConfig, files
  <1>5. CASE Import(p) /\ ~StandsBack(p)
    BY <1>0, <1>5, StartsStandBack, LockForImportDoes, AnswerDoes, LockToAdoptDoes, SaveImportedDoes,
       SaveAdoptionsDoes DEF Import, Adopts, files
  <1>6. CASE Eject(p) /\ ~StandsBack(p)
    BY <1>0, <1>6, StartsStandBack, LockForEjectDoes, ConfirmDoes DEF Eject, Ejects, files
  <1>7. CASE Rollback(p) /\ ~StandsBack(p)
    BY <1>0, <1>7, StartsStandBack, RestStandsBack, RollBackNextDoes DEF Rollback
  <1>8. CASE Wizard(p) /\ ~StandsBack(p)
    BY <1>0, <1>8, StartsStandBack, RestStandsBack, SyncStepDoes, LockToApplyDoes DEF Wizard, Foresees, files
  <1>9. CASE Crash(p) /\ ~StandsBack(p)
    BY <1>0, <1>9, RestStandsBack
  <1> QED
    BY <1>1, <1>2, <1>3, <1>4, <1>5, <1>6, <1>7, <1>8, <1>9 DEF Commanded

\* What happens when a file is replaced.
LEMMA ReplacingWrites ==
    ASSUME CommandInv, PlanInv, [Next \/ Rest]_vars, NEW p \in Terminals, NEW f \in Files, Replaces(p, f)
    PROVE  /\ term[p].pc = "write" /\ f \in Turn(term[p].todo)
           /\ docs'[f] = ApplyPlanTo(term[p].docs[f], term[p].plans[f])
           /\ DOMAIN docs' = Files /\ Run(term[p])
           /\ term[p].plans[f] = PlanOf(term[p], f)
           /\ Managed(term[p].state, f) = ManagedAfter(term[p].plans[f])
           /\ term[p].cmd.kind = "init" \/ term[p].state.resolved = term[p].seen.resolved
  <1>0. /\ TermShape /\ DOMAIN docs = Files /\ Run(term[p]) /\ KindFits(term[p]) /\ PlansFit(term[p])
    BY DEF CommandInv, LockInv, TermShape, PlanInv
  <1>1. /\ term[p].pc = "write" /\ f \in Turn(term[p].todo) /\ term'[p] # term[p] /\ docs'[f] # docs[f]
    BY DEF Replaces, At
  <1>2. PlansAreOf(term[p]) /\ f \in Due(term[p])
    BY <1>0, <1>1, TurnIsDue DEF PlansFit
  <1>3. Writes(p)
    <2>1. ~\E g \in Files : User(g)
      BY <1>1, UserDoes
    <2>2. ~UNCHANGED vars
      BY <1>1 DEF vars
    <2>3. PICK q \in Terminals : Commanded(q)
      BY <2>1, <2>2 DEF Next, Rest, Commanded
    <2>4. q = p
      BY <1>0, <1>1, <2>3, CommandsAreOrderly, MovedShape DEF Orderly
    <2>5. CASE Write(p)
      BY <1>0, <2>5, WriteDoes
    <2>6. CASE ~Write(p)
      <3>1. docs' = docs \/ PutBack(p)
        BY <2>3, <2>4, <2>6, CommandKeepsDocs
      <3> QED
        BY <1>0, <1>1, <3>1, PutBackDoes
    <2> QED
      BY <2>5, <2>6
  <1>4. PICK g \in Turn(term[p].todo) :
           docs' = [docs EXCEPT ![g] = ApplyPlanTo(term[p].docs[g], term[p].plans[g])]
    BY <1>3 DEF Writes
  <1>5. g = f
    BY <1>1, <1>4, TurnIsOne
  <1>6. docs'[f] = ApplyPlanTo(term[p].docs[f], term[p].plans[f]) /\ DOMAIN docs' = Files
    BY <1>0, <1>4, <1>5
  <1> QED
    BY <1>0, <1>1, <1>2, <1>6 DEF PlansFit, PlansAreOf

LEMMA PlanInvInit == Init => PlanInv
  <1> SUFFICES ASSUME Init PROVE PlanInv
    OBVIOUS
  <1>1. StateShape(stateFile)
    BY CommandAssumption DEF Init, States, StateShape
  <1>2. \A p \in Terminals : term[p].pc = "idle"
    BY IdleShape DEF Init
  <1> QED
    BY <1>1, <1>2, OutsideFits DEF PlanInv, Outside

\* Planning a file again from the same config and the claims just made finds
\* nothing to do, whatever its users keep in it: the second sync is silent
\* (sync.rs, apply_client).
THEOREM SyncIsIdempotentHolds ==
    ASSUME NothingIsAnObject
    PROVE  Spec => SyncIsIdempotent
  <1> DEFINE Silent == \A p \in Terminals : \A f \in Files :
                          Replaces(p, f)
                          => LET after == [term[p] EXCEPT !.docs = docs', !.seen = term[p].state]
                             IN ~HasChanges(PlanOf(after, f))
  <1>1. CommandInv /\ PlanInv /\ [Next \/ Rest]_vars => Silent
    <2> SUFFICES ASSUME CommandInv, PlanInv, [Next \/ Rest]_vars,
                        NEW p \in Terminals, NEW f \in Files, Replaces(p, f)
                 PROVE  LET after == [term[p] EXCEPT !.docs = docs', !.seen = term[p].state]
                        IN ~HasChanges(PlanOf(after, f))
      OBVIOUS
    <2> DEFINE t == term[p]
               after == [t EXCEPT !.docs = docs', !.seen = t.state]
    <2>1. /\ docs'[f] = ApplyPlanTo(t.docs[f], t.plans[f]) /\ Run(t) /\ t.plans[f] = PlanOf(t, f)
          /\ Managed(t.state, f) = ManagedAfter(t.plans[f])
          /\ t.cmd.kind = "init" \/ t.state.resolved = t.seen.resolved
      BY ReplacingWrites
    <2> HIDE DEF t
    <2>2. after.cmd = t.cmd /\ after.config = t.config /\ after.docs = docs' /\ after.seen = t.state
      BY <2>1 DEF Run, Fields
    <2> HIDE DEF after
    <2>3. Desired(after, f) = Desired(t, f)
      BY <2>1, <2>2 DEF Desired, Resolved
    <2>4. t.plans[f] = PlanFile(f, t.docs[f], Desired(t, f), Managed(t.seen, f))
      BY <2>1 DEF PlanOf
    <2>5. PlanOf(after, f) = PlanFile(f, ApplyPlanTo(t.docs[f], t.plans[f]), Desired(t, f), ManagedAfter(t.plans[f]))
      BY <2>1, <2>2, <2>3 DEF PlanOf
    <2>6. ~HasChanges(PlanOf(after, f))
      BY <2>4, <2>5, AppliedPlanIsDone
    <2> QED
      BY <2>6 DEF after, t
  <1>2. Spec => [](CommandInv /\ PlanInv)
    BY PlanInvInit, CommandInvInit, CommandInvStep, PlanInvStep, PTL DEF Spec
  <1> QED
    BY <1>1, <1>2, PTL DEF Spec, SyncIsIdempotent

-----------------------------------------------------------------------------
(* What a plan does to an entry.                                            *)

\* A name is mcpgw's from now on, and was before if there was an entry; or its
\* entry goes if it was mcpgw's, and stays as it is if it was not.
LEMMA WhatIsWritten ==
    ASSUME NEW f, NEW doc, NEW desired, NEW managed, NEW n \in Names
    PROVE  LET plan == PlanFile(f, doc, desired, managed)
               cur == Entries(doc)
               now == ApplyPlanTo(doc, plan).entries
           IN /\ n \in ManagedAfter(plan)
                 => /\ now[n] = CarryOver(KindOf[f], cur[n], ClientEntry(KindOf[f], desired[n]))
                    /\ n \in managed \/ cur[n] = Absent
              /\ n \notin ManagedAfter(plan) => now[n] = IF n \in managed THEN Absent ELSE cur[n]
  <1> DEFINE kind == KindOf[f]
             cur == Entries(doc)
             made == PlanSync(kind, cur, desired, managed)
             plan == PlanFile(f, doc, desired, managed)
             now == ApplyPlanTo(doc, plan).entries
             own == Mirrored(desired) \ Conflicts(cur, desired, managed)
             written == CarryOver(kind, cur[n], ClientEntry(kind, desired[n]))
  <1>0. SyncParts(plan, made, kind, doc)
    BY PlanFileParts
  <1>1. plan.desired[n] = IF n \in own THEN written ELSE Absent
    BY <1>0 DEF SyncParts, PlanSync, Difference, DesiredEntries
  <1>2. n \in plan.adds \cup plan.updates <=> plan.desired[n] \notin {Absent, cur[n]}
    BY <1>0 DEF SyncParts, PlanSync, Difference
  <1>3. n \in plan.removes
        <=> cur[n] # Absent /\ plan.desired[n] = Absent /\ n \notin Conflicts(cur, desired, managed) /\ n \in managed
    BY <1>0 DEF SyncParts, PlanSync, Difference
  <1>4. n \in ManagedAfter(plan) <=> plan.desired[n] # Absent
    BY DEF ManagedAfter
  <1>5. now[n] = IF Upserts(plan)[n] # Absent THEN Upserts(plan)[n]
                 ELSE IF n \in plan.removes THEN Absent ELSE cur[n]
    BY DEF ApplyPlanTo, Edit, Doc
  <1>6. Upserts(plan)[n] = IF n \in plan.adds \cup plan.updates THEN plan.desired[n] ELSE Absent
    BY DEF Upserts
  <1>7. n \in Conflicts(cur, desired, managed) => cur[n] # Absent /\ n \notin managed
    BY DEF Conflicts, Unmanaged
  <1>8. n \in own => n \in managed \/ cur[n] = Absent
    BY DEF Conflicts, Unmanaged
  <1> HIDE DEF plan, made, now, own, written, cur
  <1>9. ASSUME n \in ManagedAfter(plan)
        PROVE  now[n] = written /\ (n \in managed \/ cur[n] = Absent)
    BY <1>1, <1>2, <1>3, <1>4, <1>5, <1>6, <1>8, <1>9
  <1>10. ASSUME n \notin ManagedAfter(plan)
         PROVE  now[n] = IF n \in managed THEN Absent ELSE cur[n]
    BY <1>2, <1>3, <1>4, <1>5, <1>6, <1>7, <1>10
  <1> QED
    BY <1>9, <1>10 DEF plan, now, written, cur, kind

\* What a field holds is told by the pairs of its key.
LEMMA FieldOfPairs ==
    ASSUME NEW a, NEW b, NEW k, \A pair : (pair \in a /\ pair[1] = k) <=> (pair \in b /\ pair[1] = k)
    PROVE  (Has(a, k) <=> Has(b, k)) /\ Field(a, k) = Field(b, k)
  <1>1. k \in Keys(a) <=> k \in Keys(b)
    BY DEF Keys
  <1>2. (CHOOSE pair \in a : pair[1] = k)[2] = (CHOOSE pair \in b : pair[1] = k)[2]
    OBVIOUS
  <1>3. CASE k \in Keys(a)
    <2>1. Field(a, k) = (CHOOSE pair \in a : pair[1] = k)[2]
      BY <1>3 DEF Field
    <2>2. Field(b, k) = (CHOOSE pair \in b : pair[1] = k)[2]
      BY <1>1, <1>3 DEF Field
    <2>3. Field(a, k) = Field(b, k)
      BY <1>2, <2>1, <2>2, Zenon
    <2> QED
      BY <1>1, <2>3 DEF Has
  <1>4. CASE k \notin Keys(a)
    BY <1>1, <1>4 DEF Field, Has
  <1> QED
    BY <1>3, <1>4

\* mcpgw writes none of the switches itself.
LEMMA EmitsNoSwitch ==
    ASSUME NEW kind, NEW transport, NEW k \in PreservedFields(Codec(kind).entries)
    PROVE  ~Has(Emit(Codec(kind).entries, transport), k)
  <1> DEFINE schema == Codec(kind).entries
  <1>1. k \in {"disabled", "autoApprove", "alwaysAllow", "disabledTools"} /\ schema \in {"cline", "zoo", "amp"}
    BY DEF PreservedFields
  <1>2. HelperField(schema) = Absent
    BY <1>1 DEF HelperField
  <1>3. \A pair \in Emit(schema, transport) :
           pair[1] \in {"command", EnvKey(schema), "source", UrlKey(schema), HeadersKey(schema), "type"}
    BY <1>2 DEF Emit, Target, Opt
  <1>4. EnvKey(schema) = "env" /\ UrlKey(schema) = "url" /\ HeadersKey(schema) = "headers"
    BY <1>1 DEF EnvKey, UrlKey, HeadersKey
  <1> HIDE DEF schema
  <1> QED
    BY <1>1, <1>3, <1>4 DEF Has, Keys, schema

LEMMA SwitchesAreCarried ==
    ASSUME NothingIsAnObject, NEW kind, NEW existing, existing # Absent, NEW server,
           NEW k \in PreservedFields(Codec(kind).entries), Has(existing, k)
    PROVE  Field(CarryOver(kind, existing, ClientEntry(kind, server)), k) = Field(existing, k)
  <1> DEFINE emitted == ClientEntry(kind, server)
             carried == CarryOver(kind, existing, emitted)
  <1>1. existing # Wrong
    <2>1. k \in EntryKeys
      BY DEF PreservedFields, EntryKeys
    <2>2. ~Has(Wrong, k)
      BY <2>1 DEF NothingIsAnObject
    <2> QED
      BY <2>2
  <1>2. ~Has(emitted, k)
    BY EmitsNoSwitch DEF ClientEntry
  <1>3. carried = emitted \cup {pair \in existing : /\ pair[1] \in PreservedFields(Codec(kind).entries)
                                                    /\ ~Has(emitted, pair[1])}
    BY <1>1 DEF CarryOver
  <1> HIDE DEF emitted, carried
  <1>4. \A pair : (pair \in carried /\ pair[1] = k) <=> (pair \in existing /\ pair[1] = k)
    BY <1>2, <1>3 DEF Has, Keys
  <1> QED
    BY <1>4, FieldOfPairs DEF carried, emitted

\* A switch does not change where an entry leads.
LEMMA SwitchLeadsNowhere ==
    ASSUME NEW f \in Files, "disabled" \in PreservedFields(Codec(KindOf[f]).entries),
           NEW entry, entry \notin {Absent, Wrong}, ReachesGateway(f, entry \cup { <<"disabled", TRUE>> })
    PROVE  ReachesGateway(f, entry)
  <1> DEFINE flipped == entry \cup { <<"disabled", TRUE>> }
             schema == Codec(KindOf[f]).entries
  <1>1. \A k : k # "disabled" => (Has(flipped, k) <=> Has(entry, k)) /\ Field(flipped, k) = Field(entry, k)
    <2> SUFFICES ASSUME NEW k, k # "disabled"
                 PROVE  (Has(flipped, k) <=> Has(entry, k)) /\ Field(flipped, k) = Field(entry, k)
      OBVIOUS
    <2>1. \A pair : (pair \in flipped /\ pair[1] = k) <=> (pair \in entry /\ pair[1] = k)
      <3> SUFFICES ASSUME NEW pair PROVE (pair \in flipped /\ pair[1] = k) <=> (pair \in entry /\ pair[1] = k)
        OBVIOUS
      <3>1. pair \in flipped <=> pair \in entry \/ pair = <<"disabled", TRUE>>
        OBVIOUS
      <3>2. <<"disabled", TRUE>>[1] # k
        OBVIOUS
      <3> HIDE DEF flipped
      <3> QED
        BY <3>1, <3>2
    <2> QED
      BY <2>1, FieldOfPairs
  <1>2. schema \in {"cline", "zoo", "amp"} /\ flipped # Wrong
    BY DEF PreservedFields, ReachesGateway, Parse, Problem
  <1> DEFINE Same(a, b) == a.problem = b.problem /\ (~a.problem => a.transport.kind = b.transport.kind
                                                                  /\ a.transport.at = b.transport.at)
  <1> HIDE DEF flipped
  <1>3. Same(ParseMcpServers(flipped), ParseMcpServers(entry))
    <2>1. \A kind, target, given, e1, e2, note : target # "disabled" /\ given # "disabled"
             => Same(Read(kind, flipped, target, given, e1, note), Read(kind, entry, target, given, e2, note))
      BY <1>1 DEF Read, Mistyped, Problem, Sound
    <2>2. /\ Field(flipped, "type") = Field(entry, "type")
          /\ (Has(flipped, "command") <=> Has(entry, "command")) /\ (Has(flipped, "url") <=> Has(entry, "url"))
      BY <1>1
    <2>3. \A type, command, url :
             Same(McpServersEntry(flipped, type, command, url), McpServersEntry(entry, type, command, url))
      <3> SUFFICES ASSUME NEW type, NEW command, NEW url
                   PROVE  Same(McpServersEntry(flipped, type, command, url), McpServersEntry(entry, type, command, url))
        OBVIOUS
      <3>1. \A e1, e2 : Same(Read("stdio", flipped, "command", "env", e1, {}),
                             Read("stdio", entry, "command", "env", e2, {}))
        BY <2>1
      <3>2. \A e1, e2, note : Same(Read("http", flipped, "url", "headers", e1, note),
                                   Read("http", entry, "url", "headers", e2, note))
        BY <2>1
      <3>3. Same(Problem, Problem)
        OBVIOUS
      <3> HIDE DEF Same
      <3> QED
        BY <3>1, <3>2, <3>3 DEF McpServersEntry
    <2>4. ParseMcpServers(flipped)
             = McpServersEntry(flipped, Field(entry, "type"), Has(entry, "command"), Has(entry, "url"))
      <3>1. Has(flipped, "command") = Has(entry, "command") /\ Has(flipped, "url") = Has(entry, "url")
        BY <2>2 DEF Has
      <3> QED
        BY <2>2, <3>1 DEF ParseMcpServers
    <2> HIDE DEF Same
    <2> QED
      BY <2>3, <2>4 DEF ParseMcpServers
  <1>4. Same(ParseCline(flipped), ParseCline(entry))
    BY <1>3 DEF ParseCline, Noting
  <1>5. Same(ParseEntry(schema, flipped), ParseEntry(schema, entry))
    BY <1>2, <1>3, <1>4 DEF ParseEntry
  <1>6. \A obj, read : LET w == WithHelper(schema, obj, read)
                       IN w.problem = read.problem /\ (~read.problem => w.transport.at = read.transport.at)
    BY DEF WithHelper
  <1> QED
    BY <1>2, <1>5, <1>6 DEF ReachesGateway, Parse, AimsAtGateway, flipped

-----------------------------------------------------------------------------
(* What the files and the copies hold.                                      *)

Prepared == {"lock to apply", "back up", "claim", "write"}

\* A copy is a document; before its file was left alone by claims (`left`), it
\* reached the gateway through claimed entries only; and the claims on the
\* files still to do are the ones that were read.
CopiesFit(t, left) ==
    /\ t.pc \in Prepared => \A f \in Due(t) : Fits(t.docs[f])
    /\ t.pc = "put back" => \A f \in Turn(t.todo) : Fits(t.docs[f])
    /\ t.pc \in {"save config", "save adoptions"}
          => \A f \in Files : Managed(t.state, f) \subseteq Managed(t.imported.state, f)
    /\ t.pc \in {"back up", "claim", "write"}
          => \A f \in Due(t) \ left : ClaimsWhatReaches(t.docs[f], f, Managed(t.seen, f))
    /\ t.pc \in {"plan", "back up", "claim"}
          => \A f \in (Files \cap t.todo) \ left : Managed(t.seen, f) = Managed(t.state, f)
    /\ t.pc = "write"
          => \A f \in (Files \cap t.todo) \ (left \cup Turn(t.todo)) : Managed(t.seen, f) = Managed(t.state, f)

FilesFit == \A f \in Files : Fits(docs[f]) /\ \A i \in DOMAIN backups[f] : Fits(backups[f][i])
FileInv == FilesFit /\ WrittenIsClaimed /\ \A p \in Terminals : CopiesFit(term[p], loose)

HoldsInv == CommandInv /\ BackupInv /\ PlanInv /\ FileInv

Settles(p) == loose \subseteq loose' /\ CopiesFit(term'[p], loose')

LEMMA MoreLeft ==
    ASSUME NEW t, NEW a, NEW b, CopiesFit(t, a), a \subseteq b
    PROVE  CopiesFit(t, b)
  BY DEF CopiesFit

LEMMA SettledOutside ==
    ASSUME NEW t, NEW left, t.pc \in Outside \cup {"lock for sync", "save edit", "adopt"}
    PROVE  CopiesFit(t, left)
  BY DEF CopiesFit, Outside, Prepared

LEMMA StandingBackSettles ==
    ASSUME NEW p \in Terminals, StandsBack(p)
    PROVE  Settles(p)
  BY SettledOutside DEF StandsBack, Settles

\* Whoever has the state file's lock, or takes it, is the only one to write.
LEMMA WhoWrites ==
    ASSUME CommandInv, NEW p \in Terminals, stateLock \in {p, Nobody}
    PROVE  BeingWritten = IF term[p].pc = "write" THEN Turn(term[p].todo) ELSE {}
  <1>1. \A q \in Terminals : term[q].pc = "write" => q = p
    BY CommandAssumption DEF CommandInv, LockInv, LocksAreHeld, Running
  <1> QED
    BY <1>1 DEF BeingWritten, At

LEMMA SyncSettles ==
    ASSUME HoldsInv, NEW p \in Terminals, Sync(p)
    PROVE  Settles(p)
  <1>0. /\ CommandInv /\ TermShape /\ FileInv /\ KindFits(term[p]) /\ CopiesFit(term[p], loose) /\ Run(term[p])
        /\ term[p].pc \in Running => stateLock = p /\ term[p].state = stateFile
    BY DEF HoldsInv, CommandInv, LockInv, LocksAreHeld, CopiesAreCurrent, TermShape, FileInv
  <1>1. CASE SyncStarts(p)
    BY <1>0, <1>1, StartsStandBack, StandingBackSettles
  <1>2. CASE LockForSync(p)
    <2>1. term'[p].pc = "plan" /\ term'[p].state = term'[p].seen /\ loose' = loose
      BY <1>0, <1>2, LockForSyncDoes
    <2> QED
      BY <2>1 DEF Settles, CopiesFit, Prepared
  <1>3. CASE PlanNext(p)
    <2>1. PlansNext(p)
      BY <1>0, <1>3, PlanNextDoes
    <2>2. /\ term[p].pc = "plan" /\ loose' = loose /\ term'[p].cmd = term[p].cmd
          /\ term'[p].state = term[p].state /\ term'[p].seen = term[p].seen
      BY <2>1 DEF PlansNext
    <2>3. PICK f \in Turn(term[p].todo) :
            \/ term'[p].pc = "plan" /\ term'[p].todo = term[p].todo \ {f}
            \/ /\ term'[p].pc = "back up" /\ term'[p].todo = term[p].todo
               /\ term'[p].docs = [term[p].docs EXCEPT ![f] = docs[f]]
      BY <2>1 DEF PlansNext
    <2>4. f \in Files /\ f \in term[p].todo
      BY TurnIsAFile
    <2>5. \A g \in (Files \cap term[p].todo) \ loose : Managed(term[p].seen, g) = Managed(term[p].state, g)
      BY <1>0, <2>2 DEF CopiesFit
    <2>6. CASE term'[p].pc = "plan" /\ term'[p].todo = term[p].todo \ {f}
      BY <2>2, <2>5, <2>6 DEF Settles, CopiesFit, Prepared
    <2>7. CASE /\ term'[p].pc = "back up" /\ term'[p].todo = term[p].todo
               /\ term'[p].docs = [term[p].docs EXCEPT ![f] = docs[f]]
      <3>1. term'[p].docs[f] = docs[f] /\ Fits(docs[f])
        BY <1>0, <2>4, <2>7 DEF Run, FileInv, FilesFit
      <3>2. \A g \in Due(term'[p]) : g = f
        BY <1>0, <2>2, <2>7, TurnIsOne DEF Due, KindFits
      <3>3. BeingWritten = {} /\ term[p].state = stateFile
        BY <1>0, <2>2, WhoWrites DEF Running
      <3>4. f \notin loose => ClaimsWhatReaches(docs[f], f, Managed(term[p].seen, f))
        BY <1>0, <2>4, <2>5, <3>3 DEF FileInv, WrittenIsClaimed
      <3> QED
        BY <2>2, <2>5, <2>7, <3>1, <3>2, <3>4 DEF Settles, CopiesFit, Prepared
    <2> QED
      BY <2>3, <2>6, <2>7
  <1>4. CASE FinishSync(p)
    BY <1>0, <1>4, FinishSyncDoes, SettledOutside DEF Settles, Outside
  <1> QED
    BY <1>1, <1>2, <1>3, <1>4 DEF Sync

LEMMA ApplySettles ==
    ASSUME HoldsInv, NEW p \in Terminals, Apply(p)
    PROVE  Settles(p)
  <1>0. /\ CommandInv /\ TermShape /\ CopiesFit(term[p], loose) /\ PlansFit(term[p]) /\ StateShape(stateFile)
        /\ term[p].pc \in Running => term[p].state = stateFile
    BY DEF HoldsInv, CommandInv, LockInv, CopiesAreCurrent, FileInv, PlanInv
  <1>1. CASE BackUp(p)
    <2>1. CASE StandsBack(p)
      BY <2>1, StandingBackSettles
    <2>2. CASE ~StandsBack(p)
      <3>1. /\ Resumes(p, "claim") /\ term'[p].state = term[p].state /\ term[p].pc = "back up" /\ loose' = loose
        BY <1>0, <1>1, <2>2, BackUpDoes
      <3>2. Due(term'[p]) = Due(term[p])
        BY <3>1 DEF Resumes, Due
      <3> QED
        BY <1>0, <3>1, <3>2 DEF Resumes, Settles, CopiesFit, Prepared
    <2> QED
      BY <2>1, <2>2
  <1>2. CASE ClaimNames(p)
    <2>1. PICK f \in Turn(term[p].todo) : stateFile' = Claim(term[p].state, f, ManagedAfter(term[p].plans[f]))
      BY <1>0, <1>2, ClaimNamesDoes
    <2>2. term[p].pc = "claim" /\ Resumes(p, "write") /\ term'[p].state = stateFile' /\ loose' = loose
      BY <1>0, <1>2, ClaimNamesDoes
    <2>3. Due(term'[p]) = Due(term[p])
      BY <2>2 DEF Resumes, Due
    <2>4. StateShape(term[p].state)
      BY <1>0, <2>2 DEF Running
    <2>5. \A g \in Files \ {f} : Managed(stateFile', g) = Managed(term[p].state, g)
      BY <2>1, <2>4 DEF StateShape, Claim, Managed
    <2> QED
      BY <1>0, <2>2, <2>3, <2>5 DEF Resumes, Settles, CopiesFit, Prepared
  <1>3. CASE Write(p)
    <2>1. Writes(p)
      BY <1>0, <1>3, WriteDoes
    <2>2. PICK f \in Turn(term[p].todo) :
             \/ term'[p].pc = "idle"
             \/ /\ term'[p].pc = IF term[p].cmd.kind \in {"eject", "init"} THEN "back up" ELSE "plan"
                /\ term'[p].cmd = term[p].cmd
                /\ term'[p].state = term[p].state /\ term'[p].seen = term[p].seen
                /\ term'[p].todo = term[p].todo \ {f}
                /\ \A g \in Files \ {f} : term'[p].docs[g] = term[p].docs[g]
      BY <2>1 DEF Writes
    <2>3. loose' = loose /\ term[p].pc = "write"
      BY <2>1 DEF Writes
    <2>4. CASE term'[p].pc = "idle"
      BY <2>3, <2>4, SettledOutside DEF Settles, Outside
    <2>5. CASE term'[p].pc # "idle"
      <3>1. \A g \in Turn(term[p].todo) : g = f
        BY TurnIsOne
      <3>2. \A g \in (Files \cap term'[p].todo) \ loose' : Managed(term'[p].seen, g) = Managed(term'[p].state, g)
        BY <1>0, <2>2, <2>3, <2>5, <3>1 DEF CopiesFit
      <3>3. CASE term[p].cmd.kind \in {"eject", "init"}
        <4>1. Due(term'[p]) = term[p].todo \ {f} /\ Due(term[p]) = term[p].todo /\ term'[p].pc = "back up"
          BY <2>2, <2>5, <3>3 DEF Due
        <4>2. \A g \in Due(term'[p]) : g \in Files /\ term'[p].docs[g] = term[p].docs[g]
          BY <1>0, <2>2, <2>3, <2>5, <4>1 DEF PlansFit, PlansAreOf
        <4>3. \A g \in Due(term'[p]) : Fits(term'[p].docs[g])
          BY <1>0, <2>3, <4>1, <4>2 DEF CopiesFit, Prepared
        <4>4. \A g \in Due(term'[p]) \ loose' : ClaimsWhatReaches(term'[p].docs[g], g, Managed(term'[p].seen, g))
          BY <1>0, <2>2, <2>3, <2>5, <4>1, <4>2 DEF CopiesFit
        <4> QED
          BY <2>3, <3>2, <4>1, <4>3, <4>4 DEF Settles, CopiesFit
      <3>4. CASE term[p].cmd.kind \notin {"eject", "init"}
        <4>1. term'[p].pc = "plan"
          BY <2>2, <2>5, <3>4
        <4> QED
          BY <2>3, <3>2, <4>1 DEF Settles, CopiesFit, Prepared
      <3> QED
        BY <3>3, <3>4
    <2> QED
      BY <2>4, <2>5
  <1> QED
    BY <1>1, <1>2, <1>3 DEF Apply

\* import takes no claim away.
LEMMA ImportClaimsMore ==
    ASSUME NEW plan, NEW held, StateShape(held.state), NEW answers, NEW skip, NEW f \in Files
    PROVE  Managed(held.state, f) \subseteq Managed(Imported(plan, held, answers, skip).state, f)
  <1> DEFINE more(g) == AdoptOrigins(plan, Brought(plan, answers, skip), g)
             claims == [g \in Files |-> held.state.managed[g] \cup more(g)]
             stands == [g \in Files |-> [n \in Names |->
                          IF ResolveOrigins(plan, answers, g, n) = {} THEN held.state.resolved[g][n]
                          ELSE CHOOSE c \in ResolveOrigins(plan, answers, g, n) : TRUE]]
             left == [held.state EXCEPT !.managed = claims, !.resolved = stands]
  <1>1. Imported(plan, held, answers, skip).state = left
    BY Zenon DEF Imported
  <1>2. claims[f] = held.state.managed[f] \cup more(f)
    OBVIOUS
  <1> HIDE DEF claims, stands, more
  <1>3. left.managed = claims
    BY DEF StateShape
  <1> QED
    BY <1>1, <1>2, <1>3 DEF Managed

LEMMA ImportSettles ==
    ASSUME HoldsInv, NEW p \in Terminals, Import(p)
    PROVE  Settles(p)
  <1>0. TermShape /\ StateShape(stateFile) /\ CopiesFit(term[p], loose)
    BY DEF HoldsInv, CommandInv, LockInv, PlanInv, FileInv
  <1>1. CASE StandsBack(p)
    BY <1>1, StandingBackSettles
  <1>2. CASE ImportStarts(p)
    BY <1>0, <1>1, <1>2, StartsStandBack
  <1>3. CASE (LockForImport(p) \/ Answer(p)) /\ ~StandsBack(p)
    <2>1. Adopts(p)
      BY <1>0, <1>3, LockForImportDoes, AnswerDoes
    <2> QED
      BY <2>1, SettledOutside DEF Adopts, Settles
  <1>4. CASE LockToAdopt(p) /\ ~StandsBack(p)
    <2>1. /\ term'[p].pc = "save config" /\ term'[p].state = stateFile /\ loose' = loose
          /\ \E plan, answers, skip :
                term'[p].imported = Imported(plan, [config |-> term[p].config, state |-> stateFile], answers, skip)
      BY <1>0, <1>4, LockToAdoptDoes
    <2>2. \A f \in Files : Managed(stateFile, f) \subseteq Managed(term'[p].imported.state, f)
      <3>1. PICK plan, answers, skip :
               term'[p].imported = Imported(plan, [config |-> term[p].config, state |-> stateFile], answers, skip)
        BY <2>1
      <3> DEFINE held == [config |-> term[p].config, state |-> stateFile]
      <3>2. StateShape(held.state)
        BY <1>0
      <3>3. \A f \in Files : Managed(held.state, f) \subseteq Managed(Imported(plan, held, answers, skip).state, f)
        BY <3>2, ImportClaimsMore
      <3> QED
        BY <3>1, <3>3
    <2> QED
      BY <2>1, <2>2 DEF Settles, CopiesFit, Prepared
  <1>5. CASE SaveImported(p)
    BY <1>0, <1>5, SaveImportedDoes DEF Resumes, Settles, CopiesFit, Prepared
  <1>6. CASE SaveAdoptions(p)
    BY <1>0, <1>6, SaveAdoptionsDoes, SettledOutside DEF Settles, Outside
  <1> QED
    BY <1>1, <1>2, <1>3, <1>4, <1>5, <1>6 DEF Import

LEMMA EjectSettles ==
    ASSUME HoldsInv, NEW p \in Terminals, Eject(p)
    PROVE  Settles(p)
  <1>0. TermShape /\ CommandInv /\ FileInv /\ DOMAIN docs = Files
    BY DEF HoldsInv, CommandInv, LockInv
  <1>1. CASE StandsBack(p)
    BY <1>1, StandingBackSettles
  <1>2. CASE EjectStarts(p)
    BY <1>0, <1>1, <1>2, StartsStandBack
  <1>3. CASE (LockForEject(p) \/ Confirm(p)) /\ ~StandsBack(p)
    <2>1. Ejects(p)
      BY <1>0, <1>3, LockForEjectDoes, ConfirmDoes
    <2>2. \A f \in Due(term'[p]) : f \in Files
      BY <2>1, TurnIsAFile DEF Due, Ejects
    <2>3. BeingWritten = {}
      BY <1>0, <2>1, WhoWrites DEF Ejects, Running
    <2>4. \A f \in Files \ loose : ClaimsWhatReaches(docs[f], f, Managed(stateFile, f))
      BY <1>0, <2>3 DEF FileInv, WrittenIsClaimed
    <2>5. /\ term'[p].pc = "back up" /\ term'[p].docs = docs /\ term'[p].state = stateFile
          /\ term'[p].seen = stateFile /\ loose' = loose
      BY <2>1 DEF Ejects
    <2> QED
      BY <1>0, <2>2, <2>4, <2>5 DEF Settles, CopiesFit, Prepared, FileInv, FilesFit
  <1> QED
    BY <1>1, <1>2, <1>3 DEF Eject

LEMMA RollbackSettles ==
    ASSUME HoldsInv, NEW p \in Terminals, Rollback(p)
    PROVE  Settles(p)
  <1>0. TermShape /\ FileInv /\ BackupInv /\ DOMAIN docs = Files /\ KindFits(term[p])
    BY DEF HoldsInv, CommandInv, LockInv
  <1>1. CASE StandsBack(p)
    BY <1>1, StandingBackSettles
  <1>2. CASE RollbackStarts(p) \/ FinishRollback(p)
    BY <1>0, <1>1, <1>2, StartsStandBack, RestStandsBack
  <1>3. CASE RollBackNext(p) /\ ~StandsBack(p)
    <2>1. /\ term'[p].pc = "put back" /\ term'[p].todo = term[p].todo /\ loose' = loose
          /\ \E f \in Turn(term[p].todo) :
                backups[f] # << >> /\ (f \in Files => term'[p].docs[f] = Last(backups[f]))
      BY <1>0, <1>3, RollBackNextDoes
    <2>2. PICK f \in Turn(term[p].todo) :
             backups[f] # << >> /\ (f \in Files => term'[p].docs[f] = Last(backups[f]))
      BY <2>1
    <2>3. f \in Files
      BY TurnIsAFile
    <2>4. Len(backups[f]) \in DOMAIN backups[f]
      <3>1. PICK S : backups[f] \in Seq(S)
        BY <1>0, <2>3 DEF BackupInv, Stack
      <3> QED
        BY <2>2, <3>1
    <2>5. Fits(Last(backups[f]))
      BY <1>0, <2>3, <2>4 DEF FileInv, FilesFit, Last
    <2> QED
      BY <2>1, <2>2, <2>3, <2>5, TurnIsOne DEF Settles, CopiesFit, Prepared
  <1>4. CASE PutBack(p)
    <2>1. loose \subseteq loose' /\ term'[p].pc = "roll back"
      BY <1>0, <1>4, PutBackDoes
    <2> QED
      BY <2>1, SettledOutside DEF Settles, Outside
  <1> QED
    BY <1>1, <1>2, <1>3, <1>4 DEF Rollback

LEMMA WizardSettles ==
    ASSUME HoldsInv, NEW p \in Terminals, Wizard(p)
    PROVE  Settles(p)
  <1>0. /\ TermShape /\ CommandInv /\ FileInv /\ PlansFit(term[p]) /\ DOMAIN docs = Files /\ KindFits(term[p])
        /\ CopiesFit(term[p], loose)
    BY DEF HoldsInv, CommandInv, LockInv, FileInv, PlanInv
  <1>1. CASE StandsBack(p)
    BY <1>1, StandingBackSettles
  <1>2. CASE InitStarts(p) \/ Refresh(p) \/ ReadState(p) \/ ImportStep(p)
    BY <1>0, <1>1, <1>2, StartsStandBack, RestStandsBack
  <1>3. CASE SyncStep(p) /\ ~StandsBack(p)
    <2>1. Foresees(p)
      BY <1>0, <1>3, SyncStepDoes
    <2>2. \A f \in Due(term'[p]) : f \in Files
      BY <2>1, TurnIsAFile DEF Due, Foresees
    <2>3. term'[p].pc = "lock to apply" /\ term'[p].docs = docs /\ loose' = loose
      BY <2>1 DEF Foresees
    <2> QED
      BY <1>0, <2>2, <2>3 DEF Settles, CopiesFit, Prepared, FileInv, FilesFit
  <1>4. CASE LockToApply(p)
    <2>1. /\ Resumes(p, "back up") /\ term[p].pc = "lock to apply" /\ term'[p].state = stateFile
          /\ loose' = loose \cup {f \in Files : term[p].seen # stateFile \/ term[p].docs[f] # docs[f]}
          /\ stateLock = Nobody
      BY <1>0, <1>4, LockToApplyDoes
    <2>2. Due(term'[p]) = Due(term[p]) /\ PlansAreOf(term[p])
      BY <1>0, <2>1 DEF Resumes, Due, PlansFit
    <2>3. BeingWritten = {}
      BY <1>0, <2>1, WhoWrites
    <2>4. \A f \in Files \ loose : ClaimsWhatReaches(docs[f], f, Managed(stateFile, f))
      BY <1>0, <2>3 DEF FileInv, WrittenIsClaimed
    <2>5. \A f \in Due(term'[p]) : f \in Files /\ Fits(term'[p].docs[f])
      BY <1>0, <2>1, <2>2 DEF Resumes, CopiesFit, Prepared, PlansAreOf
    <2>6. \A f \in Due(term'[p]) \ loose' : ClaimsWhatReaches(term'[p].docs[f], f, Managed(term'[p].seen, f))
      BY <2>1, <2>4, <2>5 DEF Resumes
    <2>7. \A f \in Files \ loose' : Managed(term'[p].seen, f) = Managed(term'[p].state, f)
      BY <2>1 DEF Resumes
    <2>8. loose \subseteq loose' /\ term'[p].pc = "back up"
      BY <2>1 DEF Resumes
    <2> QED
      BY <2>5, <2>6, <2>7, <2>8 DEF Settles, CopiesFit
  <1> QED
    BY <1>1, <1>2, <1>3, <1>4 DEF Wizard

LEMMA CommandSettles ==
    ASSUME HoldsInv, NEW p \in Terminals, Commanded(p)
    PROVE  Settles(p)
  <1>0. TermShape /\ DOMAIN docs = Files /\ KindFits(term[p])
    BY DEF HoldsInv, CommandInv, LockInv
  <1>1. CASE StandsBack(p)
    BY <1>1, StandingBackSettles
  <1>2. CASE EditConfig(p) /\ ~StandsBack(p)
    BY <1>0, <1>2, StartsStandBack, LockForEditDoes, SaveEditDoes, SettledOutside DEF EditConfig, Settles, Outside
  <1>3. CASE Crash(p)
    BY <1>0, <1>1, <1>3, RestStandsBack
  <1> QED
    BY <1>1, <1>2, <1>3, SyncSettles, ApplySettles, ImportSettles, EjectSettles, RollbackSettles, WizardSettles
       DEF Commanded

-----------------------------------------------------------------------------
(* The files stay documents.                                                *)

LEMMA WrittenFits ==
    ASSUME NEW doc, NEW plan
    PROVE  Fits(ApplyPlanTo(doc, plan))
  BY DEF ApplyPlanTo, Edit, Doc, Fits, Shapes

LEMMA PushedFits ==
    ASSUME NEW s, Stack(s), \A i \in DOMAIN s : Fits(s[i]), NEW doc, Fits(doc)
    PROVE  \A i \in DOMAIN Pushed(s, doc) : Fits(Pushed(s, doc)[i])
  <1>1. PICK S : s \in Seq(S)
    BY DEF Stack
  <1> DEFINE T == S \cup {doc}
             all == Append(s, doc)
  <1>2. s \in Seq(T)
    BY <1>1
  <1>3. all \in Seq(T) /\ Len(all) = Len(s) + 1 /\ Len(s) \in Nat /\ all[Len(all)] = doc
        /\ \A i \in 1 .. Len(s) : all[i] = s[i]
    BY <1>2
  <1>4. \A i \in 1 .. Len(all) : Fits(all[i])
    BY <1>2, <1>3
  <1>5. CASE Len(all) > Keep
    <2>1. Tail(all) \in Seq(T) /\ Len(Tail(all)) = Len(all) - 1 /\ \A i \in 1 .. Len(all) - 1 : Tail(all)[i] = all[i + 1]
      BY <1>3
    <2>2. DOMAIN Tail(all) = 1 .. Len(all) - 1
      BY <1>3, <2>1
    <2>3. Pushed(s, doc) = Tail(all)
      BY <1>5 DEF Pushed
    <2> HIDE DEF all
    <2>4. ASSUME NEW i \in DOMAIN Tail(all) PROVE Fits(Tail(all)[i])
      <3>1. i + 1 \in 1 .. Len(all) /\ Tail(all)[i] = all[i + 1]
        BY <1>3, <2>1, <2>2
      <3> QED
        BY <1>4, <3>1
    <2> QED
      BY <2>3, <2>4
  <1>6. CASE ~(Len(all) > Keep)
    BY <1>3, <1>4, <1>6 DEF Pushed
  <1> QED
    BY <1>5, <1>6

LEMMA CommandFilesFit ==
    ASSUME HoldsInv, NEW p \in Terminals, Commanded(p)
    PROVE  FilesFit'
  <1>0. TermShape /\ CommandInv /\ BackupInv /\ FilesFit /\ CopiesFit(term[p], loose) /\ DOMAIN docs = Files
    BY DEF HoldsInv, CommandInv, LockInv, FileInv
  <1>1. CASE Write(p)
    <2>1. Writes(p)
      BY <1>0, <1>1, WriteDoes
    <2>2. PICK f \in Turn(term[p].todo) : docs' = [docs EXCEPT ![f] = ApplyPlanTo(term[p].docs[f], term[p].plans[f])]
      BY <2>1 DEF Writes
    <2>3. backups' = backups
      BY <2>1 DEF Writes
    <2> QED
      BY <1>0, <2>2, <2>3, WrittenFits DEF FilesFit
  <1>2. CASE PutBack(p)
    <2>1. PICK f \in Turn(term[p].todo) : docs' = [docs EXCEPT ![f] = term[p].docs[f]]
      BY <1>0, <1>2, PutBackDoes
    <2>2. backups' = backups /\ term[p].pc = "put back"
      BY <1>0, <1>2, PutBackDoes
    <2>3. Fits(term[p].docs[f])
      BY <1>0, <2>2 DEF CopiesFit
    <2> QED
      BY <1>0, <2>1, <2>2, <2>3 DEF FilesFit
  <1>3. CASE ~Write(p) /\ ~PutBack(p)
    <2>1. docs' = docs
      BY <1>0, <1>3, CommandKeepsDocs
    <2>2. CASE backups' = backups
      BY <1>0, <2>1, <2>2 DEF FilesFit
    <2>3. CASE backups' # backups
      <3>1. PICK f \in Files : backups' = [backups EXCEPT ![f] = Pushed(backups[f], docs[f])]
        BY <1>0, <2>3, CommandOnFiles DEF Kept, Copied, Written, Copies
      <3>2. \A i \in DOMAIN Pushed(backups[f], docs[f]) : Fits(Pushed(backups[f], docs[f])[i])
        BY <1>0, PushedFits DEF BackupInv, FilesFit
      <3>3. DOMAIN backups = Files
        BY <1>0 DEF BackupInv
      <3> QED
        BY <1>0, <2>1, <3>1, <3>2, <3>3 DEF FilesFit
    <2> QED
      BY <2>2, <2>3
  <1> QED
    BY <1>1, <1>2, <1>3

\* What a user leaves in a file is a document, and reaches the gateway only
\* where the file did.
Harmless(f, doc) ==
    Fits(doc) /\ \A claimed : ClaimsWhatReaches(docs[f], f, claimed) => ClaimsWhatReaches(doc, f, claimed)

LEMMA NoEntriesHarmless ==
    ASSUME NEW f, NEW shape \in Shapes
    PROVE  Harmless(f, Doc(shape, NoEntries, {}))
  <1> DEFINE doc == Doc(shape, NoEntries, {})
  <1>1. Fits(doc) /\ Present(doc) = {}
    BY DEF Doc, Fits, NoEntries, Present, Entries
  <1> QED
    BY <1>1 DEF Harmless, ClaimsWhatReaches

LEMMA UserLeaves ==
    ASSUME NEW f \in Files, Fits(docs[f]), User(f)
    PROVE  \E doc : docs' = [docs EXCEPT ![f] = doc] /\ Harmless(f, doc)
  <1> DEFINE now == docs[f]
  <1>0. DOMAIN Entries(now) = Names /\ \A m \in Present(now) : Entries(now)[m] = now.entries[m]
    BY DEF Fits, Entries, NoEntries, Present
  <1>1. CASE UserWrites(f)
    <2>1. PICK n \in Names, entry \in UserEntries[f] \cup {Absent} :
             Sane(f) /\ Edits(f, Doc("map", [Entries(docs[f]) EXCEPT ![n] = entry], docs[f].excluded))
      BY <1>1 DEF UserWrites
    <2> DEFINE held == [Entries(now) EXCEPT ![n] = entry]
               doc == Doc("map", held, now.excluded)
    <2>2. docs' = [docs EXCEPT ![f] = doc]
      BY <2>1 DEF Edits
    <2>3. DOMAIN held = Names /\ held[n] = entry /\ \A m \in Names \ {n} : held[m] = Entries(now)[m]
      BY <1>0
    <2> HIDE DEF held
    <2>4. Fits(doc) /\ doc.entries = held /\ Entries(doc) = held
      BY <2>3 DEF Doc, Fits, Shapes, Entries
    <2>5. ASSUME NEW m \in Present(doc), ReachesGateway(f, doc.entries[m])
          PROVE  m \in Present(now) /\ ReachesGateway(f, now.entries[m])
      <3>1. m \in Names /\ held[m] # Absent
        BY <2>4, <2>5 DEF Present
      <3>2. m # n
        BY <2>3, <2>4, <2>5, <3>1, CommandAssumption
      <3>3. held[m] = Entries(now)[m] /\ m \in Present(now)
        BY <2>3, <3>1, <3>2 DEF Present
      <3> QED
        BY <1>0, <2>4, <2>5, <3>3
    <2> QED
      BY <2>2, <2>4, <2>5 DEF Harmless, ClaimsWhatReaches
  <1>2. CASE UserSwitches(f)
    <2>1. PICK n \in Names :
             /\ "disabled" \in PreservedFields(Codec(KindOf[f]).entries)
             /\ Entries(now)[n] \notin {Absent, Wrong}
             /\ Edits(f, [docs[f] EXCEPT !.entries[n] = @ \cup { <<"disabled", TRUE>> }])
      BY <1>2 DEF UserSwitches
    <2> DEFINE flipped == now.entries[n] \cup { <<"disabled", TRUE>> }
               held == [now.entries EXCEPT ![n] = flipped]
               doc == [now EXCEPT !.entries = held]
    <2>2. docs' = [docs EXCEPT ![f] = doc]
      BY <2>1 DEF Edits
    <2>3. n \in Present(now) /\ Entries(now)[n] = now.entries[n] /\ now.shape \in {"map", "inline"}
      BY <1>0, <2>1 DEF Present, Entries, NoEntries
    <2>4. DOMAIN held = Names /\ held[n] = flipped /\ \A m \in Names \ {n} : held[m] = now.entries[m]
      BY DEF Fits
    <2>5. ReachesGateway(f, flipped) => ReachesGateway(f, now.entries[n])
      BY <2>1, <2>3, SwitchLeadsNowhere
    <2> HIDE DEF held, flipped
    <2>6. Fits(doc) /\ doc.entries = held /\ Entries(doc) = held
      BY <2>3, <2>4 DEF Fits, Entries
    <2>7. ASSUME NEW m \in Present(doc), ReachesGateway(f, doc.entries[m])
          PROVE  m \in Present(now) /\ ReachesGateway(f, now.entries[m])
      <3>1. CASE m = n
        BY <2>3, <2>4, <2>5, <2>6, <2>7, <3>1
      <3>2. CASE m # n
        <4>1. m \in Names /\ held[m] # Absent /\ held[m] = now.entries[m]
          BY <2>4, <2>6, <2>7, <3>2 DEF Present
        <4>2. m \in Present(now)
          BY <2>3, <4>1 DEF Present, Entries
        <4> QED
          BY <2>6, <2>7, <4>1, <4>2
      <3> QED
        BY <3>1, <3>2
    <2> HIDE DEF doc
    <2> QED
      BY <2>2, <2>6, <2>7 DEF Harmless, ClaimsWhatReaches
  <1>3. CASE UserExcludes(f)
    <2>1. PICK n \in Names : now.shape = "map" /\ Edits(f, [docs[f] EXCEPT !.excluded = @ \cup {n}])
      BY <1>3 DEF UserExcludes
    <2> DEFINE doc == [now EXCEPT !.excluded = @ \cup {n}]
    <2>2. docs' = [docs EXCEPT ![f] = doc]
      BY <2>1 DEF Edits
    <2>3. Fits(doc) /\ doc.entries = now.entries /\ Present(doc) = Present(now)
      BY <2>1 DEF Fits, Present, Entries
    <2> QED
      BY <2>2, <2>3 DEF Harmless, ClaimsWhatReaches
  <1>4. CASE UserDeletes(f)
    <2>1. docs' = [docs EXCEPT ![f] = Doc("missing", NoEntries, {})]
      BY <1>4 DEF UserDeletes, Edits, Missing
    <2> QED
      BY <2>1, NoEntriesHarmless DEF Shapes
  <1>5. CASE UserBreaks(f)
    <2>1. PICK shape \in {"broken", "no map"} : docs' = [docs EXCEPT ![f] = Doc(shape, NoEntries, {})]
      BY <1>5 DEF UserBreaks, Edits
    <2> QED
      BY <2>1, NoEntriesHarmless DEF Shapes
  <1> QED
    BY <1>1, <1>2, <1>3, <1>4, <1>5 DEF User

-----------------------------------------------------------------------------
(* What reaches the gateway is claimed.                                     *)

\* The written file reaches the gateway through the entries of the plan only.
LEMMA WrittenClaims ==
    ASSUME NEW f, NEW doc, NEW desired, NEW managed, ClaimsWhatReaches(doc, f, managed)
    PROVE  LET plan == PlanFile(f, doc, desired, managed)
           IN ClaimsWhatReaches(ApplyPlanTo(doc, plan), f, ManagedAfter(plan))
  <1> DEFINE plan == PlanFile(f, doc, desired, managed)
             after == ApplyPlanTo(doc, plan)
  <1> SUFFICES ASSUME NEW n \in Present(after), ReachesGateway(f, after.entries[n]), n \notin ManagedAfter(plan)
               PROVE  FALSE
    BY DEF ClaimsWhatReaches
  <1>1. n \in Names /\ after.entries[n] # Absent
    BY DEF Present, Entries, ApplyPlanTo, Edit, Doc
  <1>2. after.entries[n] = IF n \in managed THEN Absent ELSE Entries(doc)[n]
    BY <1>1, WhatIsWritten
  <1>3. n \notin managed /\ after.entries[n] = Entries(doc)[n] /\ n \in Present(doc)
    BY <1>1, <1>2 DEF Present
  <1>4. Entries(doc)[n] = doc.entries[n]
    BY <1>3 DEF Present, Entries, NoEntries
  <1> QED
    BY <1>3, <1>4 DEF ClaimsWhatReaches

\* Nothing is written but by Write, and no claim goes but for a file about to
\* be written.
LEMMA ClaimsStay ==
    ASSUME HoldsInv, NEW p \in Terminals, Commanded(p), docs' = docs
    PROVE  /\ BeingWritten \subseteq BeingWritten' \cup loose' \/ Write(p)
           /\ \A f \in Files : Managed(stateFile, f) \subseteq Managed(stateFile', f) \/ f \in BeingWritten'
  <1>0. /\ TermShape /\ DOMAIN docs = Files /\ KindFits(term[p]) /\ CommandInv /\ CopiesFit(term[p], loose)
        /\ StateShape(stateFile) /\ \A q \in Terminals \ {p} : term'[q] = term[q]
        /\ term[p].pc \in Running => term[p].state = stateFile
    BY CommandsAreOrderly, MovedShape
       DEF HoldsInv, CommandInv, LockInv, FileInv, PlanInv, Orderly, CopiesAreCurrent
  <1>1. CASE StandsBack(p)
    <2>1. BeingWritten \subseteq BeingWritten' \cup loose'
      BY <1>0, <1>1 DEF StandsBack, BeingWritten, At
    <2>2. stateFile' = stateFile
      BY <1>1 DEF StandsBack, files
    <2> QED
      BY <2>1, <2>2
  <1>2. CASE Write(p)
    <2>1. stateFile' = stateFile
      BY <1>0, <1>2, WriteDoes DEF Writes
    <2> QED
      BY <1>2, <2>1
  <1>3. CASE ClaimNames(p)
    <2>1. PICK f \in Turn(term[p].todo) : stateFile' = Claim(term[p].state, f, ManagedAfter(term[p].plans[f]))
      BY <1>0, <1>3, ClaimNamesDoes
    <2>2. term[p].pc = "claim" /\ term'[p].pc = "write" /\ term'[p].todo = term[p].todo
      BY <1>0, <1>3, ClaimNamesDoes DEF Resumes
    <2>3. f \in BeingWritten'
      BY <2>2 DEF BeingWritten, At
    <2>4. \A g \in Files \ {f} : Managed(stateFile', g) = Managed(stateFile, g)
      BY <1>0, <2>1, <2>2 DEF Running, StateShape, Claim, Managed
    <2>5. BeingWritten \subseteq BeingWritten'
      BY <1>0, <2>2 DEF BeingWritten, At
    <2> QED
      BY <2>3, <2>4, <2>5
  <1>4. CASE term[p].pc # "write" /\ \A f \in Files : Managed(stateFile, f) \subseteq Managed(stateFile', f)
    <2>1. BeingWritten \subseteq BeingWritten'
      BY <1>0, <1>4 DEF BeingWritten, At
    <2> QED
      BY <1>4, <2>1
  <1>5. CASE FinishSync(p) \/ SaveAdoptions(p)
    <2>1. CASE FinishSync(p)
      <3>1. stateFile' \in {stateFile, [term[p].state EXCEPT !.migrated = TRUE]} /\ term[p].pc = "plan"
        BY <1>0, <2>1, FinishSyncDoes
      <3>2. stateFile'.managed = stateFile.managed
        BY <1>0, <3>1 DEF Running, StateShape
      <3> QED
        BY <1>4, <3>1, <3>2 DEF Managed
    <2>2. CASE SaveAdoptions(p)
      BY <1>0, <1>4, <2>2, SaveAdoptionsDoes DEF CopiesFit, Running
    <2> QED
      BY <1>5, <2>1, <2>2
  <1>6. CASE /\ ~StandsBack(p) /\ ~Write(p) /\ ~ClaimNames(p) /\ ~FinishSync(p) /\ ~SaveAdoptions(p)
    <2>1. term[p].pc # "write" /\ stateFile' = stateFile
      <3>1. CASE Sync(p)
        BY <1>0, <1>6, <3>1, StartsStandBack, LockForSyncDoes, PlanNextDoes DEF Sync, PlansNext, files
      <3>2. CASE Apply(p)
        BY <1>0, <1>6, <3>2, BackUpDoes DEF Apply
      <3>3. CASE EditConfig(p)
        BY <1>0, <1>6, <3>3, StartsStandBack, LockForEditDoes, SaveEditDoes DEF EditConfig, files
      <3>4. CASE Import(p)
        BY <1>0, <1>6, <3>4, StartsStandBack, LockForImportDoes, AnswerDoes, LockToAdoptDoes, SaveImportedDoes
           DEF Import, Adopts, Running, files
      <3>5. CASE Eject(p)
        BY <1>0, <1>6, <3>5, StartsStandBack, LockForEjectDoes, ConfirmDoes DEF Eject, Ejects, Running, files
      <3>6. CASE Rollback(p)
        BY <1>0, <1>6, <3>6, StartsStandBack, RestStandsBack, RollBackNextDoes, PutBackDoes DEF Rollback
      <3>7. CASE Wizard(p)
        BY <1>0, <1>6, <3>7, StartsStandBack, RestStandsBack, SyncStepDoes, LockToApplyDoes
           DEF Wizard, Foresees, files
      <3>8. CASE Crash(p)
        BY <1>0, <1>6, <3>8, RestStandsBack
      <3> QED
        BY <3>1, <3>2, <3>3, <3>4, <3>5, <3>6, <3>7, <3>8 DEF Commanded
    <2> QED
      BY <1>4, <2>1
  <1> QED
    BY <1>1, <1>2, <1>3, <1>5, <1>6

LEMMA CommandClaims ==
    ASSUME HoldsInv, NEW p \in Terminals, Commanded(p)
    PROVE  WrittenIsClaimed'
  <1>0. /\ TermShape /\ CommandInv /\ WrittenIsClaimed /\ DOMAIN docs = Files
        /\ PlansFit(term[p]) /\ CopiesFit(term[p], loose) /\ loose \subseteq loose'
        /\ \A q \in Terminals \ {p} : term'[q] = term[q]
        /\ term[p].pc \in Running => stateLock = p /\ term[p].state = stateFile
    BY CommandsAreOrderly, MovedShape, CommandSettles
       DEF HoldsInv, CommandInv, LockInv, LocksAreHeld, CopiesAreCurrent, FileInv, PlanInv, Orderly, Settles
  <1> SUFFICES ASSUME NEW g \in Files, g \notin loose', g \notin BeingWritten'
               PROVE  ClaimsWhatReaches(docs'[g], g, Managed(stateFile', g))
    BY DEF WrittenIsClaimed
  <1>1. g \notin BeingWritten => ClaimsWhatReaches(docs[g], g, Managed(stateFile, g))
    BY <1>0 DEF WrittenIsClaimed
  <1>2. CASE Write(p)
    <2>1. Writes(p)
      BY <1>0, <1>2, WriteDoes
    <2>2. PICK f \in Turn(term[p].todo) : docs' = [docs EXCEPT ![f] = ApplyPlanTo(term[p].docs[f], term[p].plans[f])]
      BY <2>1 DEF Writes
    <2>3. stateFile' = stateFile /\ loose' = loose /\ term[p].pc = "write"
      BY <2>1 DEF Writes
    <2>4. CASE g = f
      <3>1. /\ Managed(stateFile, f) = ManagedAfter(term[p].plans[f]) /\ f \in Due(term[p])
            /\ term[p].plans[f] = PlanFile(f, term[p].docs[f], Desired(term[p], f), Managed(term[p].seen, f))
        BY <1>0, <2>2, <2>3, TurnIsDue DEF Running, PlansFit, PlansAreOf, PlanOf
      <3>2. ClaimsWhatReaches(term[p].docs[f], f, Managed(term[p].seen, f))
        BY <1>0, <2>3, <2>4, <3>1 DEF CopiesFit
      <3>3. ClaimsWhatReaches(ApplyPlanTo(term[p].docs[f], term[p].plans[f]), f, ManagedAfter(term[p].plans[f]))
        BY <3>1, <3>2, WrittenClaims
      <3> QED
        BY <1>0, <2>2, <2>3, <2>4, <3>1, <3>3
    <2>5. CASE g # f
      <3>1. BeingWritten = Turn(term[p].todo)
        BY <1>0, <2>3, WhoWrites DEF Running
      <3>2. g \notin BeingWritten
        BY <2>2, <2>5, <3>1, TurnIsOne
      <3> QED
        BY <1>0, <1>1, <2>2, <2>3, <2>5, <3>2
    <2> QED
      BY <2>4, <2>5
  <1>3. CASE PutBack(p)
    <2>1. PICK f \in Turn(term[p].todo) :
             docs' = [docs EXCEPT ![f] = term[p].docs[f]] /\ loose' = loose \cup {f}
      BY <1>0, <1>3, PutBackDoes
    <2>2. stateFile' = stateFile /\ term[p].pc = "put back"
      BY <1>0, <1>3, PutBackDoes
    <2>3. BeingWritten \subseteq BeingWritten'
      BY <1>0, <2>2 DEF BeingWritten, At
    <2> QED
      BY <1>0, <1>1, <2>1, <2>2, <2>3
  <1>4. CASE ~Write(p) /\ ~PutBack(p)
    <2>1. docs' = docs
      BY <1>0, <1>4, CommandKeepsDocs
    <2>2. Managed(stateFile, g) \subseteq Managed(stateFile', g) /\ g \notin BeingWritten
      BY <1>4, <2>1, ClaimsStay
    <2> QED
      BY <1>1, <2>1, <2>2 DEF ClaimsWhatReaches
  <1> QED
    BY <1>2, <1>3, <1>4

LEMMA UserClaims ==
    ASSUME FileInv, DOMAIN docs = Files, NEW f \in Files, User(f)
    PROVE  FileInv'
  <1>0. /\ FilesFit /\ WrittenIsClaimed /\ \A p \in Terminals : CopiesFit(term[p], loose)
        /\ UNCHANGED <<stateFile, backups, term, loose>>
    BY UserDoes DEF FileInv
  <1>1. PICK doc : docs' = [docs EXCEPT ![f] = doc] /\ Harmless(f, doc)
    BY <1>0, UserLeaves DEF FilesFit
  <1>2. docs'[f] = doc /\ \A g \in Files \ {f} : docs'[g] = docs[g]
    BY <1>1
  <1>3. FilesFit'
    BY <1>0, <1>1, <1>2 DEF FilesFit, Harmless
  <1>4. WrittenIsClaimed'
    <2> SUFFICES ASSUME NEW g \in Files, g \notin loose', g \notin BeingWritten'
                 PROVE  ClaimsWhatReaches(docs'[g], g, Managed(stateFile', g))
      BY DEF WrittenIsClaimed
    <2>1. BeingWritten' = BeingWritten
      BY <1>0 DEF BeingWritten, At
    <2>2. ClaimsWhatReaches(docs[g], g, Managed(stateFile, g))
      BY <1>0, <2>1 DEF WrittenIsClaimed
    <2> QED
      BY <1>0, <1>1, <1>2, <2>2 DEF Harmless
  <1> QED
    BY <1>0, <1>3, <1>4 DEF FileInv

LEMMA FileInvStep ==
    ASSUME HoldsInv, [Next \/ Rest]_vars
    PROVE  FileInv'
  <1>0. TermShape /\ FileInv /\ DOMAIN docs = Files
    BY DEF HoldsInv, CommandInv, LockInv
  <1>1. CASE \E p \in Terminals : Commanded(p)
    <2>1. PICK p \in Terminals : Commanded(p)
      BY <1>1
    <2>2. \A q \in Terminals \ {p} : term'[q] = term[q]
      BY <1>0, <2>1, CommandsAreOrderly, MovedShape DEF HoldsInv, CommandInv, PlanInv, Orderly
    <2>3. loose \subseteq loose' /\ CopiesFit(term'[p], loose')
      BY <2>1, CommandSettles DEF Settles
    <2>4. \A q \in Terminals \ {p} : CopiesFit(term'[q], loose')
      BY <1>0, <2>2, <2>3, MoreLeft DEF FileInv
    <2> QED
      BY <2>1, <2>3, <2>4, CommandFilesFit, CommandClaims DEF FileInv
  <1>2. CASE \E f \in Files : User(f)
    BY <1>0, <1>2, UserClaims
  <1>3. CASE UNCHANGED vars
    BY <1>0, <1>3 DEF vars, files, FileInv, FilesFit, WrittenIsClaimed, BeingWritten, At
  <1>4. Next \/ Rest \/ UNCHANGED vars
    OBVIOUS
  <1> QED
    BY <1>1, <1>2, <1>3, <1>4 DEF Next, Rest, Commanded

LEMMA FileInvInit == Init => FileInv
  <1> SUFFICES ASSUME Init PROVE FileInv
    OBVIOUS
  <1>1. PICK machine \in Machines : stateFile = machine.state /\ docs = machine.docs
    BY DEF Init
  <1>2. \A f \in Files : Fits(docs[f]) /\ ClaimsWhatReaches(docs[f], f, Managed(stateFile, f))
    BY <1>1, CommandAssumption
  <1>3. \A f \in Files : backups[f] = << >>
    BY DEF Init
  <1>4. \A p \in Terminals : term[p].pc = "idle"
    BY IdleShape DEF Init
  <1>5. \A p \in Terminals : CopiesFit(term[p], loose)
    BY <1>4, SettledOutside DEF Outside
  <1> QED
    BY <1>2, <1>3, <1>5 DEF FileInv, FilesFit, WrittenIsClaimed

LEMMA HoldsInvHolds == Spec => []HoldsInv
  <1>1. HoldsInv /\ [Next \/ Rest]_vars => HoldsInv'
    BY CommandInvStep, BackupInvStep, PlanInvStep, FileInvStep DEF HoldsInv
  <1>2. Init => HoldsInv
    BY CommandInvInit, BackupInvInit, PlanInvInit, FileInvInit DEF HoldsInv
  <1> QED
    BY <1>1, <1>2, PTL DEF Spec

\* What reaches the gateway in a client file, mcpgw knows to be its own: a
\* command that dies, or one of another terminal in between, never leaves a
\* written file without its claims, because the claims are saved before the
\* file is (state.rs, apply_client); only rollbacks, the wizard's stale plans
\* and a crash between the two leave others.
THEOREM WrittenIsClaimedHolds == Spec => []WrittenIsClaimed
  <1>1. HoldsInv => WrittenIsClaimed
    BY DEF HoldsInv, FileInv
  <1> QED
    BY <1>1, HoldsInvHolds, PTL

\* An entry of the user's own stays as it was read, and a switch flipped in
\* the client stays on an entry of mcpgw's, whatever plan is applied and
\* whatever its commands and users did since (sync.rs, carry_over).
THEOREM UserSideSurvivesHolds ==
    ASSUME NothingIsAnObject
    PROVE  Spec => UserSideSurvives
  <1> DEFINE Survives(p, f) == Replaces(p, f)
          => \A n \in Present(docs[f]) :
                LET before == docs[f].entries[n]
                    after  == docs'[f].entries[n]
                    kept   == PreservedFields(Codec(KindOf[f]).entries)
                IN term[p].docs[f].entries[n] = before
                   => /\ n \notin Managed(term[p].seen, f) => after = before
                      /\ after # Absent => \A k \in kept : Has(before, k) => Field(after, k) = Field(before, k)
  <1>1. ASSUME HoldsInv, [Next \/ Rest]_vars, NEW p \in Terminals, NEW f \in Files
        PROVE  Survives(p, f)
    <2> DEFINE t == term[p]
               managed == Managed(t.seen, f)
               desired == Desired(t, f)
               kept == PreservedFields(Codec(KindOf[f]).entries)
    <2> SUFFICES ASSUME Replaces(p, f), NEW n \in Present(docs[f]), t.docs[f].entries[n] = docs[f].entries[n]
                 PROVE  /\ n \notin managed => docs'[f].entries[n] = docs[f].entries[n]
                        /\ docs'[f].entries[n] # Absent
                           => \A k \in kept : Has(docs[f].entries[n], k)
                                 => Field(docs'[f].entries[n], k) = Field(docs[f].entries[n], k)
      BY Zenon
    <2> DEFINE before == docs[f].entries[n]
               after == docs'[f].entries[n]
    <2>1. /\ t.pc = "write" /\ f \in Turn(t.todo) /\ t.plans[f] = PlanFile(f, t.docs[f], desired, managed)
          /\ docs'[f] = ApplyPlanTo(t.docs[f], t.plans[f])
      BY <1>1, ReplacingWrites DEF HoldsInv, PlanOf
    <2>2. n \in Names /\ before # Absent
      BY DEF Present, Entries, NoEntries
    <2>3. Fits(t.docs[f])
      BY <1>1, <2>1, TurnIsDue DEF HoldsInv, FileInv, CopiesFit, Prepared
    <2>4. Entries(t.docs[f])[n] = before
      BY <2>2, <2>3 DEF Fits, Entries, NoEntries
    <2> HIDE DEF t, managed, desired
    <2>5. CASE n \in ManagedAfter(t.plans[f])
      <3>1. n \in managed /\ after = CarryOver(KindOf[f], before, ClientEntry(KindOf[f], desired[n]))
        BY <2>1, <2>2, <2>4, <2>5, WhatIsWritten
      <3>2. \A k \in kept : Has(before, k) => Field(after, k) = Field(before, k)
        BY <2>2, <3>1, SwitchesAreCarried
      <3> QED
        BY <3>1, <3>2
    <2>6. CASE n \notin ManagedAfter(t.plans[f])
      <3>1. after = IF n \in managed THEN Absent ELSE before
        BY <2>1, <2>2, <2>4, <2>6, WhatIsWritten
      <3> QED
        BY <3>1
    <2> QED
      BY <2>5, <2>6
  <1>2. HoldsInv /\ [Next \/ Rest]_vars => \A p \in Terminals : \A f \in Files : Survives(p, f)
    BY <1>1
  <1>3. Spec => [][\A p \in Terminals : \A f \in Files : Survives(p, f)]_vars
    <2> HIDE DEF Survives
    <2> QED
      BY <1>2, HoldsInvHolds, PTL DEF Spec
  <1> QED
    BY <1>3 DEF UserSideSurvives

-----------------------------------------------------------------------------
(* What is written is read back.                                            *)

LEMMA FieldIs ==
    ASSUME NEW obj, NEW k, NEW v, <<k, v>> \in obj, \A pair \in obj : pair[1] = k => pair[2] = v
    PROVE  Has(obj, k) /\ Field(obj, k) = v
  <1>1. <<k, v>>[1] = k
    OBVIOUS
  <1>2. k \in Keys(obj)
    BY <1>1 DEF Keys
  <1>3. (CHOOSE pair \in obj : pair[1] = k) \in obj /\ (CHOOSE pair \in obj : pair[1] = k)[1] = k
    BY <1>1
  <1> QED
    BY <1>2, <1>3 DEF Field, Has

LEMMA FieldIsNot ==
    ASSUME NEW obj, NEW k, \A pair \in obj : pair[1] # k
    PROVE  ~Has(obj, k) /\ Field(obj, k) = Absent
  BY DEF Has, Field, Keys

LEMMA FieldMaybe ==
    ASSUME NEW obj, NEW k, NEW v, \A pair \in obj : pair[1] = k => pair[2] = v
    PROVE  Field(obj, k) \in {v, Absent}
  <1>1. \/ (CHOOSE pair \in obj : pair[1] = k) \in obj /\ (CHOOSE pair \in obj : pair[1] = k)[1] = k
        \/ \A pair \in obj : pair[1] # k
    OBVIOUS
  <1> QED
    BY <1>1, FieldIsNot DEF Field

\* Emitted, and then switched by somebody.
Switches == {"disabled", "autoApprove", "alwaysAllow", "disabledTools"}
Extends(obj, entry) == entry \subseteq obj /\ \A pair \in obj \ entry : pair[1] \in Switches

LEMMA CarriedExtends ==
    ASSUME NEW kind, NEW existing, NEW server
    PROVE  Extends(CarryOver(kind, existing, ClientEntry(kind, server)), ClientEntry(kind, server))
  <1> DEFINE emitted == ClientEntry(kind, server)
             carried == CarryOver(kind, existing, emitted)
  <1>1. \/ carried = emitted
        \/ carried = emitted \cup {pair \in existing : /\ pair[1] \in PreservedFields(Codec(kind).entries)
                                                       /\ ~Has(emitted, pair[1])}
    BY DEF CarryOver
  <1>2. \A k : k \in PreservedFields(Codec(kind).entries) => k \in Switches
    BY DEF PreservedFields, Switches
  <1> HIDE DEF emitted, carried
  <1> QED
    BY <1>1, <1>2 DEF Extends, emitted, carried

UrlKeys == {"url", "httpUrl", "serverUrl"}

LEMMA StdioFields ==
    ASSUME NEW schema, NEW transport, transport.kind = "stdio", NEW obj, Extends(obj, Emit(schema, transport))
    PROVE  /\ Has(obj, "command") /\ Field(obj, "command") = transport.at
           /\ \A k \in UrlKeys : ~Has(obj, k) /\ Field(obj, k) = Absent
           /\ Field(obj, EnvKey(schema)) \in {transport.given, Absent}
           /\ Field(obj, "type") \in {TypeWritten(schema, "stdio"), Absent}
  <1> DEFINE env == EnvKey(schema)
             type == TypeWritten(schema, "stdio")
  <1>1. env \in {"env", "environment"}
    BY DEF EnvKey
  <1>2. \A pair \in obj : \/ pair = <<"command", transport.at>> \/ pair = <<env, transport.given>>
                          \/ pair = <<"source", "custom">> \/ pair = <<"type", type>> \/ pair[1] \in Switches
    BY DEF Extends, Emit, Target, Opt
  <1>3. <<"command", transport.at>> \in obj
    BY DEF Extends, Emit, Target
  <1> HIDE DEF env, type
  <1>4. \A k, v : <<k, v>>[1] = k /\ <<k, v>>[2] = v
    OBVIOUS
  <1>5. \A pair \in obj : /\ pair[1] \in {"command", "env", "environment", "source", "type"} \cup Switches
                          /\ pair[1] = "command" => pair[2] = transport.at
                          /\ pair[1] = env => pair[2] = transport.given
                          /\ pair[1] = "type" => pair[2] = type
    BY <1>1, <1>2, <1>4 DEF Switches
  <1>6. Has(obj, "command") /\ Field(obj, "command") = transport.at
    BY <1>3, <1>5, FieldIs
  <1>7. ASSUME NEW k \in UrlKeys PROVE ~Has(obj, k) /\ Field(obj, k) = Absent
    BY <1>5, FieldIsNot DEF UrlKeys, Switches
  <1> QED
    BY <1>5, <1>6, <1>7, FieldMaybe DEF env, type

LEMMA HttpFields ==
    ASSUME NEW schema, NEW transport, transport.kind # "stdio", NEW obj, Extends(obj, Emit(schema, transport))
    PROVE  /\ Has(obj, UrlKey(schema)) /\ Field(obj, UrlKey(schema)) = transport.at
           /\ \A k \in {"command"} \cup (UrlKeys \ {UrlKey(schema)}) : ~Has(obj, k) /\ Field(obj, k) = Absent
           /\ Field(obj, HeadersKey(schema)) \in {transport.given, Absent}
           /\ Field(obj, "type") \in {TypeWritten(schema, transport.kind), Absent}
  <1> DEFINE url == UrlKey(schema)
             headers == HeadersKey(schema)
             helper == HelperField(schema)
             type == TypeWritten(schema, transport.kind)
             others == {"headers", "http_headers", "headersHelper", "http_headers_helper", "type"}
  <1>1. url \in UrlKeys /\ headers \in {"headers", "http_headers"}
    BY DEF UrlKey, HeadersKey, UrlKeys
  <1>2. helper \in {"headersHelper", "http_headers_helper"} \/ helper = Absent
    BY DEF HelperField
  <1>3. \A pair \in obj : \/ pair = <<url, transport.at>> \/ pair = <<headers, transport.given>>
                          \/ helper # Absent /\ pair = <<helper, Joined(transport.helper)>>
                          \/ pair = <<"type", type>> \/ pair[1] \in Switches
    BY DEF Extends, Emit, Target, Opt
  <1>4. <<url, transport.at>> \in obj
    BY DEF Extends, Emit, Target
  <1> HIDE DEF url, headers, helper, type
  <1>5. \A k, v : <<k, v>>[1] = k /\ <<k, v>>[2] = v
    OBVIOUS
  <1>6. \A pair \in obj : /\ pair[1] \in {url} \cup others \cup Switches
                          /\ pair[1] = url => pair[2] = transport.at
                          /\ pair[1] = headers => pair[2] = transport.given
                          /\ pair[1] = "type" => pair[2] = type
    BY <1>1, <1>2, <1>3, <1>5 DEF Switches, UrlKeys
  <1>7. Has(obj, url) /\ Field(obj, url) = transport.at
    BY <1>4, <1>6, FieldIs
  <1>8. ASSUME NEW k \in {"command"} \cup (UrlKeys \ {url}) PROVE ~Has(obj, k) /\ Field(obj, k) = Absent
    BY <1>1, <1>6, FieldIsNot DEF UrlKeys, Switches
  <1> QED
    BY <1>6, <1>7, <1>8, FieldMaybe DEF url, headers, type

Finds(read, at) == ~read.problem /\ read.transport.at = at

LEMMA ReadFinds ==
    ASSUME NEW kind, NEW obj, NEW target, NEW given, NEW enabled, NEW note,
           Has(obj, target), Field(obj, target) # Wrong, Field(obj, given) # Wrong
    PROVE  Finds(Read(kind, obj, target, given, enabled, note), Field(obj, target))
  <1>1. ~Mistyped(obj, {target, given})
    BY DEF Mistyped
  <1> QED
    BY <1>1 DEF Read, Sound, Finds

LEMMA ReadIsFound ==
    ASSUME NEW kind, NEW obj, NEW target, NEW given, NEW enabled, NEW note, NEW at, NEW read,
           read = Read(kind, obj, target, given, enabled, note),
           Has(obj, target), Field(obj, target) = at, at # Wrong, Field(obj, given) # Wrong
    PROVE  Finds(read, at)
  BY ReadFinds

LEMMA NotingFinds ==
    ASSUME NEW read, NEW note, NEW at, Finds(read, at)
    PROVE  Finds(Noting(read, note), at)
  BY DEF Noting, Finds

LEMMA HelperFinds ==
    ASSUME NEW schema, NEW obj, obj # Wrong, NEW at, Finds(ParseEntry(schema, obj), at)
    PROVE  Finds(Parse(schema, obj), at)
  BY DEF Parse, WithHelper, Finds

\* Whatever switches were flipped in it since, an entry mcpgw wrote is read as
\* leading where it was made to lead.
LEMMA ReadsItsAddress ==
    ASSUME NEW schema \in Schemas, NEW transport, transport.kind \in {"stdio", "http"},
           transport.at # Wrong, transport.given # Wrong,
           NEW obj, obj # Wrong, Extends(obj, Emit(schema, transport))
    PROVE  Finds(Parse(schema, obj), transport.at)
  <1>0. Wrong # Absent /\ Absent \notin {"stdio", "local"}
    BY CommandAssumption DEF EntryWords
  <1>4. schema \in {"mcpServers", "vscode", "gemini", "codex", "opencode", "windsurf", "zed", "cline", "amp", "zoo"}
    BY DEF Schemas, Codec, ClientKind
  <1> DEFINE at == transport.at
  <1> SUFFICES Finds(ParseEntry(schema, obj), at)
    BY HelperFinds
  <1>5. CASE transport.kind = "stdio"
    <2>1. /\ Has(obj, "command") /\ Field(obj, "command") = transport.at
          /\ \A k \in UrlKeys : ~Has(obj, k) /\ Field(obj, k) = Absent
          /\ Field(obj, EnvKey(schema)) # Wrong
          /\ Field(obj, "type") \in {TypeWritten(schema, "stdio"), Absent}
      BY <1>0, <1>5, StdioFields
    <2>2. ~Has(obj, "url") /\ ~Has(obj, "httpUrl") /\ ~Has(obj, "serverUrl")
          /\ Field(obj, "url") = Absent /\ Field(obj, "httpUrl") = Absent
      BY <2>1 DEF UrlKeys
    <2>3. CASE schema = "gemini"
      <3>1. ParseGemini(obj) = Read("stdio", obj, "command", "env", TRUE, {})
        BY <1>0, <2>2 DEF ParseGemini, Mistyped
      <3>7. EnvKey(schema) = "env"
        BY <2>3 DEF EnvKey
      <3>8. Finds(ParseGemini(obj), at)
        <4>1. Has(obj, "command") /\ Field(obj, "command") = at /\ at # Wrong /\ Field(obj, "env") # Wrong
          BY <2>1, <3>7
        <4> HIDE DEF at
        <4> QED
          BY <3>1, <4>1, ReadIsFound
      <3> QED
        BY <2>3, <3>8 DEF ParseEntry
    <2>4. CASE schema = "codex"
      <3>1. ParseCodex(obj) = Read("stdio", obj, "command", "env", Field(obj, "enabled") # FALSE, {})
        BY <1>0, <2>1, <2>2 DEF ParseCodex, Mistyped
      <3>7. EnvKey(schema) = "env"
        BY <2>4 DEF EnvKey
      <3>8. Finds(ParseCodex(obj), at)
        <4>1. Has(obj, "command") /\ Field(obj, "command") = at /\ at # Wrong /\ Field(obj, "env") # Wrong
          BY <2>1, <3>7
        <4> HIDE DEF at
        <4> QED
          BY <3>1, <4>1, ReadIsFound
      <3> QED
        BY <2>4, <3>8 DEF ParseEntry
    <2>5. CASE schema = "opencode"
      <3>1. Field(obj, "type") \in {"local", Absent}
        BY <2>1, <2>5 DEF TypeWritten
      <3>2. ParseOpencode(obj) = Read("stdio", obj, "command", "environment", Field(obj, "enabled") # FALSE, {})
        BY <2>1, <2>2, <3>1 DEF ParseOpencode, OpencodeEntry
      <3>7. EnvKey(schema) = "environment"
        BY <2>5 DEF EnvKey
      <3>8. Finds(ParseOpencode(obj), at)
        <4>1. Has(obj, "command") /\ Field(obj, "command") = at /\ at # Wrong /\ Field(obj, "environment") # Wrong
          BY <2>1, <3>7
        <4> HIDE DEF at
        <4> QED
          BY <3>2, <4>1, ReadIsFound
      <3> QED
        BY <2>5, <3>8 DEF ParseEntry
    <2>6. CASE schema \notin {"gemini", "codex", "opencode"}
      <3>1. Field(obj, "type") \in {"stdio", Absent}
        BY <1>4, <2>1, <2>6 DEF TypeWritten
      <3>2. ParseMcpServers(obj) = Read("stdio", obj, "command", "env", Field(obj, "disabled") # TRUE, {})
        BY <2>1, <2>2, <3>1 DEF ParseMcpServers, McpServersEntry
      <3>3. EnvKey(schema) = "env"
        BY <2>6 DEF EnvKey
      <3>4. Finds(ParseMcpServers(obj), at)
        <4>1. Has(obj, "command") /\ Field(obj, "command") = at /\ at # Wrong /\ Field(obj, "env") # Wrong
          BY <2>1, <3>3
        <4> HIDE DEF at
        <4> QED
          BY <3>2, <4>1, ReadIsFound
      <3>5. Finds(ParseCline(obj), at) /\ Finds(ParseWindsurf(obj), at)
        BY <2>2, <3>4, NotingFinds DEF ParseCline, ParseWindsurf, Renamed
      <3> QED
        BY <1>4, <2>6, <3>4, <3>5 DEF ParseEntry
    <2> QED
      BY <2>3, <2>4, <2>5, <2>6
  <1>6. CASE transport.kind = "http"
    <2>1. /\ Has(obj, UrlKey(schema)) /\ Field(obj, UrlKey(schema)) = transport.at
          /\ \A k \in {"command"} \cup (UrlKeys \ {UrlKey(schema)}) : ~Has(obj, k) /\ Field(obj, k) = Absent
          /\ Field(obj, HeadersKey(schema)) # Wrong
          /\ Field(obj, "type") \in {TypeWritten(schema, "http"), Absent}
      BY <1>0, <1>6, HttpFields
    <2>2. ~Has(obj, "command")
      BY <2>1
    <2>3. CASE schema = "gemini"
      <3>1. UrlKey(schema) = "httpUrl" /\ HeadersKey(schema) = "headers"
        BY <2>3 DEF UrlKey, HeadersKey
      <3>2. Field(obj, "url") = Absent
        BY <2>1, <3>1 DEF UrlKeys
      <3>3. \E note : ParseGemini(obj) = Read("http", obj, "httpUrl", "headers", TRUE, note)
        BY <1>0, <2>1, <3>1, <3>2 DEF ParseGemini, Mistyped
      <3>8. Finds(ParseGemini(obj), at)
        BY <2>1, <3>1, <3>3, ReadFinds
      <3> QED
        BY <2>3, <3>8 DEF ParseEntry
    <2>4. CASE schema = "windsurf"
      <3> DEFINE o == Renamed(obj)
      <3>1. UrlKey(schema) = "serverUrl" /\ HeadersKey(schema) = "headers"
        BY <2>4 DEF UrlKey, HeadersKey
      <3>2. o = {pair \in obj : pair[1] \notin {"url", "serverUrl"}} \cup { <<"url", transport.at>> }
        BY <2>1, <3>1 DEF Renamed
      <3>3. <<"url", transport.at>>[1] = "url" /\ <<"url", transport.at>>[2] = transport.at
        OBVIOUS
      <3> HIDE DEF o
      <3>4. Has(o, "url") /\ Field(o, "url") = transport.at
        <4>1. \A pair \in o : pair[1] = "url" => pair[2] = transport.at
          BY <3>2, <3>3
        <4>2. <<"url", transport.at>> \in o
          BY <3>2
        <4> QED
          BY <4>1, <4>2, FieldIs
      <3>5. ASSUME NEW k, k \notin {"url", "serverUrl"}
            PROVE  (Has(o, k) <=> Has(obj, k)) /\ Field(o, k) = Field(obj, k)
        <4>1. \A pair : (pair \in o /\ pair[1] = k) <=> (pair \in obj /\ pair[1] = k)
          BY <3>2, <3>3, <3>5
        <4> QED
          BY <4>1, FieldOfPairs
      <3>6. /\ ~Has(o, "command") /\ Field(o, "headers") # Wrong
            /\ Field(o, "type") = Absent
        BY <2>1, <2>2, <2>4, <3>1, <3>5 DEF TypeWritten
      <3>7. ParseMcpServers(o) = Read("http", o, "url", "headers", Field(o, "disabled") # TRUE,
                                      IF Field(o, "type") = "sse" THEN LegacySse ELSE {})
        BY <1>0, <3>4, <3>6 DEF ParseMcpServers, McpServersEntry
      <3>8. Finds(ParseMcpServers(o), at)
        BY <3>4, <3>6, <3>7, ReadFinds
      <3> QED
        BY <2>4, <3>8, NotingFinds DEF ParseEntry, ParseWindsurf, o
    <2>5. CASE schema \notin {"gemini", "windsurf"}
      <3>1. UrlKey(schema) = "url"
        BY <2>5 DEF UrlKey
      <3>2. Has(obj, "url") /\ Field(obj, "url") = transport.at
        BY <2>1, <3>1
      <3>3. CASE schema = "codex"
        <4>1. ParseCodex(obj) = Read("http", obj, "url", "http_headers", Field(obj, "enabled") # FALSE, {})
          BY <1>0, <2>1, <2>2, <3>2 DEF ParseCodex, Mistyped
        <4>7. HeadersKey(schema) = "http_headers"
          BY <3>3 DEF HeadersKey
        <4>8. Finds(ParseCodex(obj), at)
          <5>1. Has(obj, "url") /\ Field(obj, "url") = at /\ at # Wrong /\ Field(obj, "http_headers") # Wrong
            BY <2>1, <3>2, <4>7
          <5> HIDE DEF at
          <5> QED
            BY <4>1, <5>1, ReadIsFound
        <4> QED
          BY <3>3, <4>8 DEF ParseEntry
      <3>4. CASE schema = "opencode"
        <4>1. Field(obj, "type") \in {"remote", Absent}
          BY <2>1, <3>4 DEF TypeWritten
        <4>2. ParseOpencode(obj) = Read("http", obj, "url", "headers", Field(obj, "enabled") # FALSE, {})
          BY <1>0, <2>2, <3>2, <4>1 DEF ParseOpencode, OpencodeEntry
        <4>7. HeadersKey(schema) = "headers"
          BY <3>4 DEF HeadersKey
        <4>8. Finds(ParseOpencode(obj), at)
          <5>1. Has(obj, "url") /\ Field(obj, "url") = at /\ at # Wrong /\ Field(obj, "headers") # Wrong
            BY <2>1, <3>2, <4>7
          <5> HIDE DEF at
          <5> QED
            BY <4>2, <5>1, ReadIsFound
        <4> QED
          BY <3>4, <4>8 DEF ParseEntry
      <3>5. CASE schema \notin {"codex", "opencode"}
        <4>1. Field(obj, "type") \in {"http", "streamableHttp", "streamable-http", Absent}
          BY <1>4, <2>1, <2>5, <3>5 DEF TypeWritten
        <4>2. ParseMcpServers(obj) = Read("http", obj, "url", "headers", Field(obj, "disabled") # TRUE,
                                          IF Field(obj, "type") = "sse" THEN LegacySse ELSE {})
          BY <1>0, <2>2, <3>2, <4>1 DEF ParseMcpServers, McpServersEntry, HttpSpellings
        <4>3. HeadersKey(schema) = "headers"
          BY <3>5 DEF HeadersKey
        <4>4. Finds(ParseMcpServers(obj), at)
          <5>1. Has(obj, "url") /\ Field(obj, "url") = at /\ at # Wrong /\ Field(obj, "headers") # Wrong
            BY <2>1, <3>2, <4>3
          <5> HIDE DEF at
          <5> QED
            BY <4>2, <5>1, ReadIsFound
        <4>5. Finds(ParseCline(obj), at)
          BY <4>4, NotingFinds DEF ParseCline
        <4> QED
          BY <1>4, <2>5, <3>5, <4>4, <4>5 DEF ParseEntry
      <3> QED
        BY <3>3, <3>4, <3>5
    <2> QED
      BY <2>3, <2>4, <2>5
  <1> QED
    BY <1>5, <1>6

-----------------------------------------------------------------------------
(* Whose entry is it?                                                       *)

LEMMA LeastOf ==
    ASSUME NEW S, S \subseteq Nat, S # {}
    PROVE  \E m \in S : \A k \in S : m <= k
  <1> DEFINE R == OpToRel(<, Nat)
  <1>1. \A a, b \in Nat : a < b => <<a, b>> \in R
    BY DEF OpToRel
  <1>2. IsWellFoundedOn(R, Nat)
    BY NatLessThanWellFounded
  <1> HIDE DEF R
  <1>3. PICK m \in S : \A k \in S : ~ (<<k, m>> \in R)
    BY <1>2, WFMin
  <1>4. \A k \in S : k \in Nat /\ m \in Nat /\ ~(k < m)
    BY <1>1, <1>3
  <1>5. \A k \in S : m <= k
    BY <1>4
  <1> QED
    BY <1>5

LEMMA LastOf ==
    ASSUME NEW n \in Nat, NEW S, S \subseteq 1 .. n, S # {}
    PROVE  \E m \in S : \A k \in S : k <= m
  <1> DEFINE T == {n - k : k \in S}
  <1>1. \A k \in S : k \in 1 .. n /\ n - k \in Nat
    OBVIOUS
  <1>2. T \subseteq Nat /\ T # {}
    BY <1>1
  <1>3. PICK m \in T : \A k \in T : m <= k
    BY <1>2, LeastOf
  <1>4. PICK k \in S : m = n - k
    OBVIOUS
  <1>5. \A j \in S : n - k <= n - j
    BY <1>3, <1>4
  <1>6. \A j \in S : j <= k
    BY <1>1, <1>5
  <1> QED
    BY <1>6

\* The entry that stands for a server is one that was said to.
LEMMA EntryStandsFor ==
    ASSUME NEW resolved, NEW canonical, NEW n \in Names, EntryFor(resolved, canonical) = n
    PROVE  resolved[n] = canonical
  <1> DEFINE entries == {i \in DOMAIN NameOrder : resolved[NameOrder[i]] = canonical}
             last == CHOOSE i \in entries : \A j \in entries : j <= i
  <1>1. entries # {} /\ n = NameOrder[last]
    <2>1. n # Absent
      BY PlanningAssumption
    <2> QED
      BY <2>1 DEF EntryFor
  <1>2. entries \subseteq 1 .. Len(NameOrder) /\ Len(NameOrder) \in Nat
    BY PlanningAssumption, LenProperties
  <1> HIDE DEF entries
  <1>3. \E i \in entries : \A j \in entries : j <= i
    BY <1>1, <1>2, LastOf
  <1>4. last \in entries
    BY <1>3
  <1> HIDE DEF last
  <1> QED
    BY <1>1, <1>4 DEF entries

\* An entry somebody was asked about holds the server they named, or nothing.
LEMMA NamedByTheAnswer ==
    ASSUME NEW desired, NEW resolved, NEW n \in Names, resolved[n] # Absent,
           UnderClientNames(desired, resolved)[n] # Absent
    PROVE  /\ resolved[n] \in Known(desired)
           /\ UnderClientNames(desired, resolved)[n] = desired[resolved[n]]
  <1> DEFINE renamed == {c \in Known(desired) : EntryFor(resolved, c) = n}
             chosen == CHOOSE c \in renamed : TRUE
  <1>1. renamed # {} /\ UnderClientNames(desired, resolved)[n] = desired[chosen]
    BY Zenon DEF UnderClientNames
  <1>2. chosen \in renamed
    BY <1>1
  <1> HIDE DEF chosen
  <1>3. chosen \in Known(desired) /\ EntryFor(resolved, chosen) = n
    BY <1>2
  <1>4. resolved[n] = chosen
    BY <1>3, EntryStandsFor
  <1> QED
    BY <1>1, <1>3, <1>4

\* Only what is wanted is owned.
LEMMA OwnedIsWanted ==
    ASSUME NEW f, NEW doc, NEW desired, NEW managed, NEW n \in ManagedAfter(PlanFile(f, doc, desired, managed))
    PROVE  desired[n] # Absent
  <1> DEFINE kind == KindOf[f]
             cur == Entries(doc)
             made == PlanSync(kind, cur, desired, managed)
             plan == PlanFile(f, doc, desired, managed)
             own == Mirrored(desired) \ Conflicts(cur, desired, managed)
  <1>0. SyncParts(plan, made, kind, doc)
    BY PlanFileParts
  <1>1. n \in Names /\ plan.desired[n] # Absent
    BY DEF ManagedAfter
  <1>2. plan.desired[n] = IF n \in own THEN CarryOver(kind, cur[n], ClientEntry(kind, desired[n])) ELSE Absent
    BY <1>0, <1>1 DEF SyncParts, PlanSync, Difference, DesiredEntries
  <1>3. n \in own
    BY <1>1, <1>2
  <1> QED
    BY <1>3 DEF Mirrored, Known

\* What the gateway offers a client as the server n leads to n there.
LEMMA GatewayEntryLeads ==
    ASSUME NEW kind \in ClientKind, NEW canonical, NEW token \in {Token, Absent}, NEW scope, NEW n \in Names,
           PerServerGatewayServers(kind, canonical, token, scope)[n] # Absent
    PROVE  LET transport == PerServerGatewayServers(kind, canonical, token, scope)[n].transport
           IN /\ transport.kind \in {"stdio", "http"} /\ transport.at # Wrong /\ transport.given # Wrong
              /\ transport.at[2] = n
  <1> DEFINE scoped == Restricts(scope)
             transport == PerServerGatewayServers(kind, canonical, token, scope)[n].transport
  <1>1. transport = IF SupportsHttpEntries(kind)
                    THEN Http(Endpoint(kind, n, scoped), GatewayHeaders(kind, token), Absent)
                    ELSE Stdio(Bridge(kind, n, scoped), Absent)
    BY DEF PerServerGatewayServers, PerServerGatewayServer
  <1>2. scoped \in BOOLEAN
    BY DEF Restricts
  <1>3. Endpoint(kind, n, scoped)[2] = n /\ Bridge(kind, n, scoped)[2] = n
    BY DEF Endpoint, Bridge
  <1>4. Endpoint(kind, n, scoped) # Wrong /\ Bridge(kind, n, scoped) # Wrong
    BY <1>2, CommandAssumption
  <1>5. GatewayHeaders(kind, token) \in {Token, Absent} /\ Wrong # Token /\ Wrong # Absent
    BY CommandAssumption DEF GatewayHeaders
  <1> HIDE DEF scoped
  <1> QED
    BY <1>1, <1>3, <1>4, <1>5 DEF Http, Stdio

\* What sync writes for a server of the gateway's is read as leading to it.
LEMMA WrittenEntryLeads ==
    ASSUME NothingIsAnObject, NEW kind \in ClientKind, NEW canonical, NEW scope, NEW c \in Names, NEW existing,
           PerServerGatewayServers(kind, canonical, Token, scope)[c] # Absent
    PROVE  LET entry == CarryOver(kind, existing,
                                  ClientEntry(kind, PerServerGatewayServers(kind, canonical, Token, scope)[c]))
           IN entry # Absent /\ Parse(Codec(kind).entries, entry).transport.at[2] = c
  <1> DEFINE server == PerServerGatewayServers(kind, canonical, Token, scope)[c]
             entry == CarryOver(kind, existing, ClientEntry(kind, server))
             schema == Codec(kind).entries
  <1>1. /\ server.transport.kind \in {"stdio", "http"} /\ server.transport.at # Wrong /\ server.transport.given # Wrong
        /\ server.transport.at[2] = c
    BY GatewayEntryLeads
  <1>2. entry \notin {Absent, Wrong}
    BY CarriedOnce
  <1>3. Extends(entry, Emit(schema, server.transport))
    BY CarriedExtends DEF ClientEntry
  <1>4. schema \in Schemas
    BY DEF Schemas
  <1> HIDE DEF server, entry, schema
  <1>5. Finds(Parse(schema, entry), server.transport.at)
    BY <1>1, <1>2, <1>3, <1>4, ReadsItsAddress
  <1> QED
    BY <1>1, <1>2, <1>5 DEF Finds, server, entry, schema

\* An entry somebody was asked about goes on leading to the server they named:
\* whatever sync writes under that name, the client reads from it that it leads
\* there (sync.rs, under_client_names; state.rs:43-57).
THEOREM SyncFollowsAnswersHolds ==
    ASSUME NothingIsAnObject
    PROVE  Spec => SyncFollowsAnswers
  <1>1. ASSUME HoldsInv, [Next \/ Rest]_vars, NEW p \in Terminals,
               term[p].cmd # Absent, term[p].cmd.kind \in {"sync", "add", "remove"}
        PROVE  FollowsTheAnswer(p)
    <2> DEFINE t == term[p]
    <2> SUFFICES ASSUME NEW f \in Files, Replaces(p, f), NEW n \in ManagedAfter(t.plans[f]),
                        Resolved(t.state, f)[n] # Absent
                 PROVE  LeadsTo(f, n, docs'[f]) = Resolved(t.state, f)[n]
      BY DEF FollowsTheAnswer
    <2> DEFINE kind == KindOf[f]
               offered == GatewayServers(t.config, f)
               resolved == Resolved(t.state, f)
               desired == UnderClientNames(offered, resolved)
               managed == Managed(t.seen, f)
    <2>1. /\ t.plans[f] = PlanOf(t, f) /\ docs'[f] = ApplyPlanTo(t.docs[f], t.plans[f])
          /\ t.state.resolved = t.seen.resolved
      BY <1>1, ReplacingWrites DEF HoldsInv
    <2>2. Desired(t, f) = desired
      BY <1>1, <2>1 DEF Desired, Resolved
    <2>3. t.plans[f] = PlanFile(f, t.docs[f], desired, managed)
      BY <2>1, <2>2 DEF PlanOf
    <2>4. n \in Names
      BY DEF ManagedAfter
    <2>5. kind \in ClientKind
      BY PlanningAssumption
    <2>6. \E existing : docs'[f].entries[n] = CarryOver(kind, existing, ClientEntry(kind, desired[n]))
      <3> HIDE DEF desired, managed, t
      <3> QED
        BY <2>1, <2>3, <2>4, WhatIsWritten
    <2>7. desired[n] # Absent
      <3> HIDE DEF desired, managed, t
      <3> QED
        BY <2>3, OwnedIsWanted
    <2>8. resolved[n] \in Known(offered) /\ desired[n] = offered[resolved[n]]
      <3>1. resolved[n] # Absent
        OBVIOUS
      <3> HIDE DEF offered, resolved
      <3> QED
        BY <2>4, <2>7, <3>1, NamedByTheAnswer
    <2>9. resolved[n] \in Names /\ offered[resolved[n]] # Absent
      BY <2>8 DEF Known
    <2>10. PICK existing : docs'[f].entries[n] = CarryOver(kind, existing, ClientEntry(kind, offered[resolved[n]]))
      BY <2>6, <2>8
    <2>11. /\ docs'[f].entries[n] # Absent
           /\ Parse(Codec(kind).entries, docs'[f].entries[n]).transport.at[2] = resolved[n]
      <3> DEFINE scope == Scoped(t.config, f)
                 canonical == t.config.servers
      <3>1. offered = PerServerGatewayServers(kind, canonical, Token, scope)
        BY DEF GatewayServers
      <3> HIDE DEF scope, canonical, offered, resolved, kind
      <3> QED
        BY <2>5, <2>9, <2>10, <3>1, WrittenEntryLeads
    <2> QED
      BY <2>11 DEF LeadsTo
  <1>2. HoldsInv /\ [Next \/ Rest]_vars
        => \A p \in Terminals : term[p].cmd # Absent /\ term[p].cmd.kind \in {"sync", "add", "remove"}
                                => FollowsTheAnswer(p)
    BY <1>1
  <1> QED
    BY <1>2, HoldsInvHolds, PTL DEF Spec, SyncFollowsAnswers

-----------------------------------------------------------------------------
(* All that is written is read back.                                        *)

LEMMA FieldOpt ==
    ASSUME NEW obj, NEW k, NEW v, v # Absent => <<k, v>> \in obj,
           \A pair \in obj : pair[1] = k => pair[2] = v /\ v # Absent
    PROVE  Field(obj, k) = v /\ (Has(obj, k) <=> v # Absent)
  <1>1. CASE v = Absent
    BY <1>1, FieldIsNot
  <1>2. CASE v # Absent
    BY <1>2, FieldIs
  <1> QED
    BY <1>1, <1>2

LEMMA EmittedStdio ==
    ASSUME NEW schema, NEW transport, TransportFits(transport), transport.kind = "stdio", NEW obj,
           obj = Emit(schema, transport)
    PROVE  /\ Has(obj, "command") /\ Field(obj, "command") = transport.at
           /\ Field(obj, EnvKey(schema)) = transport.given
           /\ Field(obj, "type") = TypeWritten(schema, "stdio")
           /\ \A k : k \notin {"command", EnvKey(schema), "source", "type"} => ~Has(obj, k) /\ Field(obj, k) = Absent
  <1> DEFINE env == EnvKey(schema)
             type == TypeWritten(schema, "stdio")
             at == transport.at
             given == transport.given
  <1>1. env \in {"env", "environment"} /\ env # Absent /\ "type" # Absent
    BY CommandAssumption DEF EnvKey, EntryWords
  <1>2. \A pair : pair \in obj <=> \/ pair = <<"command", at>>
                                  \/ (given # Absent /\ pair = <<env, given>>)
                                  \/ (schema = "zed" /\ pair = <<"source", "custom">>)
                                  \/ (type # Absent /\ pair = <<"type", type>>)
    BY <1>1 DEF Emit, Target, Opt
  <1> HIDE DEF env, type, at, given
  <1>3. \A k, v : <<k, v>>[1] = k /\ <<k, v>>[2] = v
    OBVIOUS
  <1>4. \A pair \in obj : /\ pair[1] \in {"command", env, "source", "type"}
                          /\ pair[1] = "command" => pair[2] = at
                          /\ pair[1] = env => pair[2] = given /\ given # Absent
                          /\ pair[1] = "type" => pair[2] = type /\ type # Absent
    BY <1>1, <1>2, <1>3
  <1>5. /\ <<"command", at>> \in obj
        /\ given # Absent => <<env, given>> \in obj
        /\ type # Absent => <<"type", type>> \in obj
    BY <1>2
  <1>6. Has(obj, "command") /\ Field(obj, "command") = at
    BY <1>4, <1>5, FieldIs
  <1>7. Field(obj, env) = given /\ Field(obj, "type") = type
    BY <1>4, <1>5, FieldOpt
  <1>8. \A k : k \notin {"command", env, "source", "type"} => ~Has(obj, k) /\ Field(obj, k) = Absent
    BY <1>4, FieldIsNot
  <1> QED
    BY <1>6, <1>7, <1>8 DEF env, type, at, given

\* What a remote entry may hold.
RemoteKeys(schema) ==
    {UrlKey(schema), HeadersKey(schema), "type"} \cup ({HelperField(schema)} \ {Absent})

LEMMA EmittedHttp ==
    ASSUME NEW schema, NEW transport, TransportFits(transport), transport.kind = "http", NEW obj,
           obj = Emit(schema, transport)
    PROVE  /\ Has(obj, UrlKey(schema)) /\ Field(obj, UrlKey(schema)) = transport.at
           /\ Field(obj, HeadersKey(schema)) = transport.given
           /\ Field(obj, "type") = TypeWritten(schema, "http")
           /\ (Has(obj, "type") <=> TypeWritten(schema, "http") # Absent)
           /\ Field(obj, HelperField(schema)) = IF HelperField(schema) = Absent THEN Absent ELSE Joined(transport.helper)
           /\ \A k : k \notin RemoteKeys(schema) => ~Has(obj, k) /\ Field(obj, k) = Absent
  <1> DEFINE url == UrlKey(schema)
             headers == HeadersKey(schema)
             helper == HelperField(schema)
             type == TypeWritten(schema, "http")
             at == transport.at
             given == transport.given
             line == Joined(transport.helper)
  <1>1. url \in {"url", "httpUrl", "serverUrl"} /\ headers \in {"headers", "http_headers"}
    BY DEF UrlKey, HeadersKey
  <1>2. helper \in {"headersHelper", "http_headers_helper"} \/ helper = Absent
    BY DEF HelperField
  <1>3. Absent \notin {"url", "httpUrl", "serverUrl", "headers", "http_headers", "type"}
    BY CommandAssumption DEF EntryWords
  <1>4. \A pair : pair \in obj <=> \/ pair = <<url, at>>
                                  \/ (given # Absent /\ pair = <<headers, given>>)
                                  \/ (helper # Absent /\ line # Absent /\ pair = <<helper, line>>)
                                  \/ (type # Absent /\ pair = <<"type", type>>)
    BY <1>1, <1>3 DEF Emit, Target, Opt
  <1> HIDE DEF url, headers, helper, type, at, given, line
  <1>5. \A k, v : <<k, v>>[1] = k /\ <<k, v>>[2] = v
    OBVIOUS
  <1>6. \A pair \in obj : /\ pair[1] \in {url, headers, helper, "type"}
                          /\ pair[1] = url => pair[2] = at
                          /\ pair[1] = headers => pair[2] = given /\ given # Absent
                          /\ pair[1] = "type" => pair[2] = type /\ type # Absent
                          /\ pair[1] = helper => pair[2] = line /\ line # Absent
                          /\ pair[1] # Absent
    BY <1>1, <1>2, <1>3, <1>4, <1>5, CommandAssumption DEF EntryWords
  <1>7. /\ <<url, at>> \in obj
        /\ given # Absent => <<headers, given>> \in obj
        /\ type # Absent => <<"type", type>> \in obj
        /\ helper # Absent /\ line # Absent => <<helper, line>> \in obj
    BY <1>4
  <1>8. Has(obj, url) /\ Field(obj, url) = at
    BY <1>6, <1>7, FieldIs
  <1>9. Field(obj, headers) = given /\ Field(obj, "type") = type /\ (Has(obj, "type") <=> type # Absent)
    BY <1>6, <1>7, FieldOpt
  <1>10. Field(obj, helper) = IF helper = Absent THEN Absent ELSE line
    <2>1. CASE helper = Absent
      BY <1>6, <2>1, FieldIsNot
    <2>2. CASE helper # Absent
      BY <1>6, <1>7, <2>2, FieldOpt
    <2> QED
      BY <2>1, <2>2
  <1>11. \A k : k \notin {url, headers, "type"} \cup ({helper} \ {Absent}) => ~Has(obj, k) /\ Field(obj, k) = Absent
    BY <1>6, FieldIsNot
  <1> QED
    BY <1>8, <1>9, <1>10, <1>11 DEF RemoteKeys, url, headers, helper, type, at, given, line

\* An entry of one shape, with what is there to read.
Whole(kind, at, given) == Sound([kind |-> kind, at |-> at, given |-> given, helper |-> Absent], TRUE, {})

LEMMA ReadIsWhole ==
    ASSUME NEW kind, NEW obj, NEW target, NEW env, NEW enabled, NEW at, NEW given, NEW read,
           read = Read(kind, obj, target, env, enabled, {}), enabled = TRUE,
           Has(obj, target), Field(obj, target) = at, at # Wrong, Field(obj, env) = given, given # Wrong
    PROVE  read = Whole(kind, at, given)
  <1>1. ~Mistyped(obj, {target, env})
    BY DEF Mistyped
  <1> QED
    BY <1>1 DEF Read, Whole

LEMMA NotingNothing ==
    ASSUME NEW kind, NEW at, NEW given
    PROVE  Noting(Whole(kind, at, given), {}) = Whole(kind, at, given)
  BY DEF Noting, Whole, Sound

\* What is emitted for a server is read as that server.
LEMMA StdioReadsBack ==
    ASSUME NEW schema \in Schemas, NEW transport, TransportFits(transport), transport.kind = "stdio"
    PROVE  ParseEntry(schema, Emit(schema, transport)) = Whole("stdio", transport.at, transport.given)
  <1> DEFINE obj == Emit(schema, transport)
             at == transport.at
             given == transport.given
             whole == Whole("stdio", at, given)
  <1>0. Wrong # Absent /\ Absent \notin {"stdio", "local"} /\ Absent # TRUE /\ Absent # FALSE
    BY CommandAssumption DEF EntryWords
  <1>1. schema \in {"mcpServers", "vscode", "gemini", "codex", "opencode", "windsurf", "zed", "cline", "amp", "zoo"}
    BY DEF Schemas, Codec, ClientKind
  <1>2. at # Wrong /\ given # Wrong
    BY DEF TransportFits
  <1>3. /\ Has(obj, "command") /\ Field(obj, "command") = at
        /\ Field(obj, EnvKey(schema)) = given
        /\ Field(obj, "type") = TypeWritten(schema, "stdio")
        /\ \A k : k \notin {"command", EnvKey(schema), "source", "type"} => ~Has(obj, k) /\ Field(obj, k) = Absent
    BY EmittedStdio
  <1>4. EnvKey(schema) \in {"env", "environment"}
    BY DEF EnvKey
  <1> HIDE DEF obj
  <1>5. /\ ~Has(obj, "url") /\ ~Has(obj, "httpUrl") /\ ~Has(obj, "serverUrl")
        /\ Field(obj, "url") = Absent /\ Field(obj, "httpUrl") = Absent
        /\ Field(obj, "enabled") = Absent /\ Field(obj, "disabled") = Absent
    BY <1>3, <1>4
  <1>6. (Field(obj, "enabled") # FALSE) = TRUE /\ (Field(obj, "disabled") # TRUE) = TRUE
    BY <1>0, <1>5
  <1> HIDE DEF at, given
  <1>7. CASE schema = "gemini"
    <2>1. ParseGemini(obj) = Read("stdio", obj, "command", "env", TRUE, {})
      BY <1>0, <1>5 DEF ParseGemini, Mistyped
    <2>2. EnvKey(schema) = "env"
      BY <1>7 DEF EnvKey
    <2>3. ParseGemini(obj) = whole
      BY <1>2, <1>3, <2>1, <2>2, ReadIsWhole
    <2> QED
      BY <1>7, <2>3 DEF ParseEntry, obj, at, given
  <1>8. CASE schema = "codex"
    <2>1. ParseCodex(obj) = Read("stdio", obj, "command", "env", Field(obj, "enabled") # FALSE, {})
      BY <1>0, <1>2, <1>3, <1>5 DEF ParseCodex, Mistyped
    <2>2. EnvKey(schema) = "env"
      BY <1>8 DEF EnvKey
    <2>3. ParseCodex(obj) = whole
      BY <1>2, <1>3, <1>6, <2>1, <2>2, ReadIsWhole
    <2> QED
      BY <1>8, <2>3 DEF ParseEntry, obj, at, given
  <1>9. CASE schema = "opencode"
    <2>1. Field(obj, "type") = "local"
      BY <1>3, <1>9 DEF TypeWritten
    <2>2. ParseOpencode(obj) = Read("stdio", obj, "command", "environment", Field(obj, "enabled") # FALSE, {})
      BY <1>0, <2>1 DEF ParseOpencode, OpencodeEntry
    <2>3. EnvKey(schema) = "environment"
      BY <1>9 DEF EnvKey
    <2>4. ParseOpencode(obj) = whole
      BY <1>2, <1>3, <1>6, <2>2, <2>3, ReadIsWhole
    <2> QED
      BY <1>9, <2>4 DEF ParseEntry, obj, at, given
  <1>10. CASE schema \notin {"gemini", "codex", "opencode"}
    <2>1. Field(obj, "type") \in {"stdio", Absent}
      BY <1>1, <1>3, <1>10 DEF TypeWritten
    <2>2. ParseMcpServers(obj) = Read("stdio", obj, "command", "env", Field(obj, "disabled") # TRUE, {})
      BY <1>3, <1>5, <2>1 DEF ParseMcpServers, McpServersEntry
    <2>3. EnvKey(schema) = "env"
      BY <1>10 DEF EnvKey
    <2>4. ParseMcpServers(obj) = whole
      BY <1>2, <1>3, <1>6, <2>2, <2>3, ReadIsWhole
    <2>5. ParseCline(obj) = whole /\ ParseWindsurf(obj) = whole
      BY <1>3, <1>5, <2>4, NotingNothing DEF ParseCline, ParseWindsurf, Renamed
    <2> QED
      BY <1>1, <1>10, <2>4, <2>5 DEF ParseEntry, obj, at, given
  <1> QED
    BY <1>7, <1>8, <1>9, <1>10

LEMMA HttpReadsBack ==
    ASSUME NEW schema \in Schemas, NEW transport, TransportFits(transport), transport.kind = "http"
    PROVE  ParseEntry(schema, Emit(schema, transport)) = Whole("http", transport.at, transport.given)
  <1> DEFINE obj == Emit(schema, transport)
             at == transport.at
             given == transport.given
             whole == Whole("http", at, given)
             url == UrlKey(schema)
  <1>0. Wrong # Absent /\ Absent \notin {"http", "streamableHttp", "streamable-http", "remote", "stdio", "sse"}
        /\ Absent # TRUE /\ Absent # FALSE
    BY CommandAssumption DEF EntryWords
  <1>1. schema \in {"mcpServers", "vscode", "gemini", "codex", "opencode", "windsurf", "zed", "cline", "amp", "zoo"}
    BY DEF Schemas, Codec, ClientKind
  <1>2. at # Wrong /\ given # Wrong
    BY DEF TransportFits
  <1>3. /\ Has(obj, url) /\ Field(obj, url) = at
        /\ Field(obj, HeadersKey(schema)) = given
        /\ Field(obj, "type") = TypeWritten(schema, "http")
        /\ (Has(obj, "type") <=> TypeWritten(schema, "http") # Absent)
        /\ \A k : k \notin RemoteKeys(schema) => ~Has(obj, k) /\ Field(obj, k) = Absent
    BY EmittedHttp
  <1>4. url \in {"url", "httpUrl", "serverUrl"}
    BY DEF UrlKey
  <1>5. RemoteKeys(schema) \subseteq {url, "headers", "http_headers", "headersHelper", "http_headers_helper", "type"}
    BY DEF RemoteKeys, UrlKey, HeadersKey, HelperField
  <1> HIDE DEF obj, url
  <1>6. /\ \A k \in {"url", "httpUrl", "serverUrl"} : k # url => ~Has(obj, k) /\ Field(obj, k) = Absent
        /\ ~Has(obj, "command") /\ Field(obj, "command") = Absent
        /\ Field(obj, "enabled") = Absent /\ Field(obj, "disabled") = Absent
    BY <1>3, <1>4, <1>5
  <1>7. (Field(obj, "enabled") # FALSE) = TRUE /\ (Field(obj, "disabled") # TRUE) = TRUE
    BY <1>0, <1>6
  <1> HIDE DEF at, given
  <1>8. CASE schema = "gemini"
    <2>1. url = "httpUrl" /\ HeadersKey(schema) = "headers"
      BY <1>8 DEF UrlKey, HeadersKey, url
    <2>2. ~Has(obj, "url") /\ Field(obj, "url") = Absent
      BY <1>6, <2>1
    <2>3. ParseGemini(obj) = Read("http", obj, "httpUrl", "headers", TRUE, {})
      BY <1>0, <1>2, <1>3, <2>1, <2>2 DEF ParseGemini, Mistyped
    <2>4. ParseGemini(obj) = whole
      <3>1. Has(obj, "httpUrl") /\ Field(obj, "httpUrl") = at /\ Field(obj, "headers") = given
        BY <1>3, <2>1
      <3> QED
        BY <1>2, <2>3, <3>1, ReadIsWhole
    <2> QED
      BY <1>8, <2>4 DEF ParseEntry, obj, at, given
  <1>9. CASE schema = "windsurf"
    <2> DEFINE o == Renamed(obj)
    <2>1. url = "serverUrl" /\ HeadersKey(schema) = "headers"
      BY <1>9 DEF UrlKey, HeadersKey, url
    <2>2. o = {pair \in obj : pair[1] \notin {"url", "serverUrl"}} \cup { <<"url", at>> }
      BY <1>3, <2>1 DEF Renamed
    <2>3. <<"url", at>>[1] = "url" /\ <<"url", at>>[2] = at
      OBVIOUS
    <2> HIDE DEF o
    <2>4. Has(o, "url") /\ Field(o, "url") = at
      <3>1. \A pair \in o : pair[1] = "url" => pair[2] = at
        BY <2>2, <2>3
      <3>2. <<"url", at>> \in o
        BY <2>2
      <3> QED
        BY <3>1, <3>2, FieldIs
    <2>5. ASSUME NEW k, k \notin {"url", "serverUrl"}
          PROVE  (Has(o, k) <=> Has(obj, k)) /\ Field(o, k) = Field(obj, k)
      <3>1. \A pair : (pair \in o /\ pair[1] = k) <=> (pair \in obj /\ pair[1] = k)
        BY <2>2, <2>3, <2>5
      <3> QED
        BY <3>1, FieldOfPairs
    <2>6. /\ ~Has(o, "command") /\ Field(o, "headers") = given /\ Field(o, "type") = Absent
          /\ Field(o, "disabled") = Field(obj, "disabled")
      BY <1>3, <1>6, <1>9, <2>1, <2>5 DEF TypeWritten
    <2>7. ParseMcpServers(o) = Read("http", o, "url", "headers", Field(o, "disabled") # TRUE, {})
      BY <1>0, <2>4, <2>6 DEF ParseMcpServers, McpServersEntry
    <2>8. ParseMcpServers(o) = whole
      <3>1. (Field(o, "disabled") # TRUE) = TRUE
        BY <1>7, <2>6
      <3> QED
        BY <1>2, <2>4, <2>6, <2>7, <3>1, ReadIsWhole
    <2>9. ~Has(obj, "url")
      BY <1>6, <2>1
    <2>10. ParseWindsurf(obj) = whole
      BY <2>8, <2>9, NotingNothing DEF ParseWindsurf, o
    <2> QED
      BY <1>9, <2>10 DEF ParseEntry, obj, at, given
  <1>10. CASE schema \notin {"gemini", "windsurf"}
    <2>1. url = "url"
      BY <1>10 DEF UrlKey, url
    <2>2. Has(obj, "url") /\ Field(obj, "url") = at
      BY <1>3, <2>1
    <2>3. CASE schema = "codex"
      <3>1. ParseCodex(obj) = Read("http", obj, "url", "http_headers", Field(obj, "enabled") # FALSE, {})
        BY <1>0, <1>2, <1>6, <2>2 DEF ParseCodex, Mistyped
      <3>2. HeadersKey(schema) = "http_headers"
        BY <2>3 DEF HeadersKey
      <3>3. ParseCodex(obj) = whole
        <4>1. Field(obj, "http_headers") = given
          BY <1>3, <3>2
        <4> QED
          BY <1>2, <1>7, <2>2, <3>1, <4>1, ReadIsWhole
      <3> QED
        BY <2>3, <3>3 DEF ParseEntry, obj, at, given
    <2>4. CASE schema = "opencode"
      <3>1. Field(obj, "type") = "remote"
        BY <1>3, <2>4 DEF TypeWritten
      <3>2. ParseOpencode(obj) = Read("http", obj, "url", "headers", Field(obj, "enabled") # FALSE, {})
        BY <1>0, <3>1 DEF ParseOpencode, OpencodeEntry
      <3>3. HeadersKey(schema) = "headers"
        BY <2>4 DEF HeadersKey
      <3>4. ParseOpencode(obj) = whole
        <4>1. Field(obj, "headers") = given
          BY <1>3, <3>3
        <4> QED
          BY <1>2, <1>7, <2>2, <3>2, <4>1, ReadIsWhole
      <3> QED
        BY <2>4, <3>4 DEF ParseEntry, obj, at, given
    <2>5. CASE schema \notin {"codex", "opencode"}
      <3>1. Field(obj, "type") \in {"http", "streamableHttp", "streamable-http", Absent}
        BY <1>1, <1>3, <1>10, <2>5 DEF TypeWritten
      <3>2. ParseMcpServers(obj)
            = Read("http", obj, "url", "headers", Field(obj, "disabled") # TRUE,
                   IF Field(obj, "type") = "sse" THEN LegacySse ELSE {})
        BY <1>0, <1>6, <2>2, <3>1 DEF ParseMcpServers, McpServersEntry, HttpSpellings
      <3>3. Field(obj, "type") # "sse"
        BY <1>0, <3>1
      <3>4. HeadersKey(schema) = "headers"
        BY <2>5 DEF HeadersKey
      <3>5. ParseMcpServers(obj) = whole
        <4>1. Field(obj, "headers") = given
          BY <1>3, <3>4
        <4> QED
          BY <1>2, <1>7, <2>2, <3>2, <3>3, <4>1, ReadIsWhole
      <3>6. CASE schema \in {"cline", "zoo"}
        <4>1. Has(obj, "type")
          BY <1>0, <1>3, <3>6 DEF TypeWritten
        <4>2. ParseCline(obj) = whole
          BY <3>5, <4>1, NotingNothing DEF ParseCline
        <4> QED
          BY <3>6, <4>2 DEF ParseEntry, obj, at, given
      <3>7. CASE schema \notin {"cline", "zoo"}
        BY <1>10, <2>5, <3>5, <3>7 DEF ParseEntry, obj, at, given
      <3> QED
        BY <3>6, <3>7
    <2> QED
      BY <2>3, <2>4, <2>5
  <1> QED
    BY <1>8, <1>9, <1>10

\* The line of a helper that fits is one, and what is split from it is the argv
\* again unless a blank stood inside an argument.
LEMMA SplitJoined ==
    ASSUME NEW helper, HelperFits(helper)
    PROVE  /\ Joined(helper) # Wrong
           /\ SplitLine(Joined(helper)) = helper <=> ~BlankInside(helper)
  <1>0. Wrong # Absent
    BY CommandAssumption
  <1>1. CASE helper = Absent
    BY <1>0, <1>1 DEF Joined, SplitLine, BlankInside
  <1>2. CASE helper # Absent
    <2>1. helper = Argv(helper.line, helper.inside) /\ helper.line \notin {Absent, Wrong}
      BY <1>2 DEF HelperFits
    <2>2. Joined(helper) = helper.line /\ SplitLine(helper.line) = Argv(helper.line, {})
      BY <1>2, <2>1 DEF Joined, SplitLine
    <2>3. Argv(helper.line, {}).inside = {}
      BY DEF Argv
    <2> QED
      BY <1>2, <2>1, <2>2, <2>3 DEF BlankInside
  <1> QED
    BY <1>1, <1>2

\* It is enough to know what is told of the helper.
LEMMA ToldReadsBack ==
    ASSUME NEW schema, NEW transport, NEW told,
           transport = [ kind |-> transport.kind, at |-> transport.at, given |-> transport.given,
                         helper |-> transport.helper ],
           Parse(schema, Emit(schema, transport))
               = Sound([ kind |-> transport.kind, at |-> transport.at, given |-> transport.given, helper |-> told ],
                       TRUE, {}),
           IF HelperField(schema) = Absent THEN told = Absent ELSE told = transport.helper <=> ~BlankInside(transport.helper)
    PROVE  ReadsBack(schema, transport)
  <1> DEFINE read == Parse(schema, Emit(schema, transport))
             t == [kind |-> transport.kind, at |-> transport.at, given |-> transport.given, helper |-> told]
  <1>1. t.helper = told /\ [transport EXCEPT !.helper = told] = t
    OBVIOUS
  <1>2. read = Sound(t, TRUE, {})
    OBVIOUS
  <1> HIDE DEF t, read
  <1>3. ~read.problem /\ read.transport = t
    BY <1>2 DEF Sound
  <1> QED
    BY <1>1, <1>2, <1>3 DEF ReadsBack, read

\* Whatever its client does not keep for itself: the line of a helper is lost on
\* a client that runs none, and where its arguments end is lost on the others.
LEMMA FitsReadsBack ==
    ASSUME NothingIsAnObject, NEW schema \in Schemas, NEW transport, TransportFits(transport)
    PROVE  ReadsBack(schema, transport)
  <1> DEFINE obj == Emit(schema, transport)
             given == transport.given
             at == transport.at
             argv == transport.helper
             kind == transport.kind
             read == ParseEntry(schema, obj)
  <1>1. obj # Wrong
    BY EmitsSomething
  <1>2. transport = [kind |-> kind, at |-> at, given |-> given, helper |-> argv] /\ HelperFits(argv)
        /\ kind \in {"stdio", "http"} /\ (kind = "stdio" => argv = Absent)
    BY DEF TransportFits
  <1>3. Parse(schema, obj) = WithHelper(schema, obj, read)
    BY <1>1 DEF Parse
  <1>4. CASE kind = "stdio"
    <2>1. read = Whole(kind, at, given)
      BY <1>4, StdioReadsBack
    <2> HIDE DEF obj, read, at, given, argv, kind
    <2>2. WithHelper(schema, obj, read) = read
      BY <1>4, <2>1 DEF WithHelper, Whole, Sound
    <2>3. Parse(schema, obj) = Sound([kind |-> kind, at |-> at, given |-> given, helper |-> Absent], TRUE, {})
      BY <1>3, <2>1, <2>2 DEF Whole
    <2>4. Absent = argv /\ ~BlankInside(argv)
      BY <1>2, <1>4 DEF BlankInside
    <2> QED
      BY <1>2, <2>3, <2>4, ToldReadsBack DEF obj, kind, at, given, argv
  <1>5. CASE kind = "http"
    <2> DEFINE line == IF HelperField(schema) = Absent THEN Absent ELSE Joined(argv)
               told == SplitLine(line)
    <2>1. read = Whole("http", at, given)
      BY <1>5, HttpReadsBack
    <2>2. /\ Field(obj, HelperField(schema)) = line
          /\ \A k : k \notin RemoteKeys(schema) => ~Has(obj, k) /\ Field(obj, k) = Absent
      BY <1>5, EmittedHttp
    <2>3. RemoteKeys(schema) \subseteq {"url", "httpUrl", "serverUrl", "headers", "http_headers", "headersHelper",
                                       "http_headers_helper", "type"}
      BY DEF RemoteKeys, UrlKey, HeadersKey, HelperField
    <2> HIDE DEF obj, read, at, given, argv, kind
    <2>4. ~ClientManagedAuth(schema, obj)
      BY <2>2, <2>3 DEF ClientManagedAuth
    <2>5. HelperArgv(schema, obj) = told
      BY <2>2 DEF HelperArgv
    <2>6. IF HelperField(schema) = Absent THEN told = Absent ELSE told = argv <=> ~BlankInside(argv)
      BY <1>2, SplitJoined DEF SplitLine
    <2> HIDE DEF told, line
    <2>7. Parse(schema, obj) = [read EXCEPT !.transport.helper = told, !.note = @ \cup {}]
      BY <1>3, <1>5, <2>1, <2>4, <2>5 DEF WithHelper, Whole, Sound
    <2>8. Parse(schema, obj) = Sound([kind |-> "http", at |-> at, given |-> given, helper |-> told], TRUE, {})
      BY <2>1, <2>7, Zenon DEF Whole, Sound
    <2>9. Parse(schema, obj) = Sound([kind |-> kind, at |-> at, given |-> given, helper |-> told], TRUE, {})
      BY <1>5, <2>8
    <2> QED
      BY <1>2, <2>6, <2>9, ToldReadsBack DEF obj, kind, at, given, argv
  <1> QED
    BY <1>2, <1>4, <1>5

\* Of what is saved, and what is written for it, everything fits.
LEMMA EmittedFits ==
    ASSUME NEW server, ServerFits(server), NEW n \in Names, NEW kind \in ClientKind, NEW transport \in Emitted(kind, n, server)
    PROVE  TransportFits(transport)
  <1>0. Wrong \notin {Absent, Token, "helper"}
    BY CommandAssumption
  <1>1. TransportFits(server.transport)
    BY DEF ServerFits
  <1>2. CASE transport = server.transport
    BY <1>1, <1>2
  <1>3. CASE transport = PerServerGatewayServer(kind, n, server, Token, FALSE).transport
    <2>1. Wrong \notin {Endpoint(kind, n, FALSE), Bridge(kind, n, FALSE), GatewayHeaders(kind, Token)}
      BY <1>0, CommandAssumption DEF GatewayHeaders
    <2> DEFINE e == Endpoint(kind, n, FALSE)
               b == Bridge(kind, n, FALSE)
               h == GatewayHeaders(kind, Token)
    <2>2. transport = IF SupportsHttpEntries(kind) THEN Http(e, h, Absent) ELSE Stdio(b, Absent)
      BY <1>3 DEF PerServerGatewayServer
    <2> HIDE DEF e, b, h
    <2>3. Wrong \notin {e, b, h}
      BY <2>1 DEF e, b, h
    <2> QED
      BY <1>0, <2>2, <2>3 DEF Http, Stdio, TransportFits, HelperFits
  <1>4. ASSUME NEW argv \in Helpers, server.transport.kind = "http", transport = [server.transport EXCEPT !.helper = argv]
        PROVE  TransportFits(transport)
    <2> DEFINE t == server.transport
    <2>1. t = [kind |-> t.kind, at |-> t.at, given |-> t.given, helper |-> t.helper]
          /\ t.kind = "http" /\ Wrong \notin {t.at, t.given}
      BY <1>1, <1>4 DEF TransportFits
    <2>2. HelperFits(argv)
      BY <1>0, CommandAssumption DEF Helpers, HelperFits, Argv
    <2> HIDE DEF t
    <2>3. transport = [kind |-> t.kind, at |-> t.at, given |-> t.given, helper |-> argv]
      BY <1>4, <2>1 DEF t
    <2> QED
      BY <2>1, <2>2, <2>3 DEF TransportFits
  <1> QED
    BY <1>2, <1>3, <1>4 DEF Emitted

\* A config that fits reads back.
LEMMA ConfigReadsBack ==
    ASSUME NothingIsAnObject, NEW cfg, ConfigFits(cfg)
    PROVE  \A n \in Known(cfg.servers) : \A kind \in ClientKind :
              \A transport \in Emitted(kind, n, cfg.servers[n]) : ReadsBack(Codec(kind).entries, transport)
  <1> SUFFICES ASSUME NEW n \in Known(cfg.servers), NEW kind \in ClientKind, NEW transport \in Emitted(kind, n, cfg.servers[n])
               PROVE  ReadsBack(Codec(kind).entries, transport)
    OBVIOUS
  <1>1. n \in Names /\ ServerFits(cfg.servers[n])
    BY DEF Known, ConfigFits
  <1>2. TransportFits(transport)
    BY <1>1, EmittedFits
  <1>3. Codec(kind).entries \in Schemas
    BY DEF Schemas
  <1> QED
    BY <1>2, <1>3, FitsReadsBack

-----------------------------------------------------------------------------
(* What is read from a client's file is a server that can be saved.         *)

ReadFits(read) ==
    /\ DOMAIN read = {"problem", "transport", "enabled", "note"}
    /\ read.problem = TRUE \/ (read.problem = FALSE /\ TransportFits(read.transport))

LEMMA ProblemFits == ReadFits(Problem)
  BY DEF ReadFits, Problem

LEMMA EachReadFits ==
    ASSUME NEW kind \in {"stdio", "http"}, NEW obj, NEW target, NEW given, NEW enabled, NEW note
    PROVE  ReadFits(Read(kind, obj, target, given, enabled, note))
  <1> DEFINE at == Field(obj, target)
             with == Field(obj, given)
             t == [kind |-> kind, at |-> at, given |-> with, helper |-> Absent]
  <1>0. Wrong # Absent
    BY CommandAssumption
  <1>1. CASE ~Has(obj, target) \/ Mistyped(obj, {target, given})
    BY <1>1, ProblemFits DEF Read
  <1>2. CASE Has(obj, target) /\ ~Mistyped(obj, {target, given})
    <2>1. at # Wrong /\ with # Wrong
      BY <1>2 DEF Mistyped
    <2>2. Read(kind, obj, target, given, enabled, note) = Sound(t, enabled, note)
      BY <1>2 DEF Read
    <2> HIDE DEF at, with
    <2>3. TransportFits(t)
      BY <1>0, <2>1 DEF TransportFits, HelperFits
    <2> HIDE DEF t
    <2> QED
      BY <2>2, <2>3 DEF Sound, ReadFits
  <1> QED
    BY <1>1, <1>2

LEMMA NotingFits ==
    ASSUME NEW read, ReadFits(read), NEW note
    PROVE  ReadFits(Noting(read, note))
  BY DEF ReadFits, Noting

LEMMA WithHelperFits ==
    ASSUME NEW schema, NEW obj, NEW read, ReadFits(read)
    PROVE  ReadFits(WithHelper(schema, obj, read))
  <1> DEFINE line == HelperArgv(schema, obj)
             more == read.note \cup IF ClientManagedAuth(schema, obj) THEN NotCarried ELSE {}
             led == [read EXCEPT !.transport.helper = line, !.note = more]
             t == read.transport
  <1>1. HelperFits(line)
    BY DEF HelperArgv, SplitLine, HelperFits, Argv
  <1>2. CASE read.problem \/ read.transport.kind = "stdio"
    BY <1>2 DEF WithHelper
  <1>3. CASE ~read.problem /\ read.transport.kind # "stdio"
    <2>1. WithHelper(schema, obj, read) = led
      BY <1>3 DEF WithHelper
    <2>2. TransportFits(t) /\ DOMAIN read = {"problem", "transport", "enabled", "note"} /\ read.problem = FALSE
      BY <1>3 DEF ReadFits
    <2> HIDE DEF line, more
    <2>3. DOMAIN led = {"problem", "transport", "enabled", "note"} /\ led.problem = FALSE
          /\ led.transport = [t EXCEPT !.helper = line]
      BY <2>2
    <2>4. t = [kind |-> t.kind, at |-> t.at, given |-> t.given, helper |-> t.helper]
          /\ t.kind = "http" /\ Wrong \notin {t.at, t.given}
      BY <1>3, <2>2 DEF TransportFits
    <2> HIDE DEF led, t
    <2>5. led.transport = [kind |-> t.kind, at |-> t.at, given |-> t.given, helper |-> line]
      BY <2>3, <2>4
    <2>6. TransportFits(led.transport)
      BY <1>1, <2>4, <2>5 DEF TransportFits
    <2> QED
      BY <2>1, <2>3, <2>6 DEF ReadFits
  <1> QED
    BY <1>2, <1>3

LEMMA ParseFits ==
    ASSUME NEW schema, NEW obj
    PROVE  ReadFits(Parse(schema, obj))
  <1>1. \A o : ReadFits(ParseMcpServers(o))
    BY ProblemFits, EachReadFits DEF ParseMcpServers, McpServersEntry
  <1>2. ReadFits(ParseWindsurf(obj)) /\ ReadFits(ParseCline(obj))
    BY <1>1, NotingFits DEF ParseWindsurf, ParseCline
  <1>3. ReadFits(ParseGemini(obj))
    BY ProblemFits, EachReadFits DEF ParseGemini
  <1>4. ReadFits(ParseCodex(obj))
    BY ProblemFits, EachReadFits DEF ParseCodex
  <1>5. ReadFits(ParseOpencode(obj))
    BY ProblemFits, EachReadFits DEF ParseOpencode, OpencodeEntry
  <1>6. ReadFits(ParseEntry(schema, obj))
    BY <1>1, <1>2, <1>3, <1>4, <1>5 DEF ParseEntry
  <1> QED
    BY <1>6, ProblemFits, WithHelperFits DEF Parse

\* An entry of a client's file that can be imported says the same as its text.
LEMMA SourceReads ==
    ASSUME NEW f \in Files, NEW doc, NEW n \in Names
    PROVE  LET read == Source(f, doc)[n]
           IN /\ ReadFits(read)
              /\ ~read.problem => read.transport = Parse(Codec(KindOf[f]).entries, doc.entries[n]).transport
  <1> DEFINE kind == KindOf[f]
             codec == ScopeCodec(f)
             parsed == Parse(codec.entries, doc.entries[n])
             read == Source(f, doc)[n]
             named == UnlessExcluded(kind, doc.excluded, n, parsed)
  <1>0. Problem.problem = TRUE
    BY DEF Problem
  <1>1. read = Problem \/ read = named
    BY DEF Source, ReadOrProblem, ReadEntries
  <1>2. codec.entries = Codec(kind).entries
    BY DEF ScopeCodec, ProjectCodec, Codec
  <1>3. ReadFits(parsed)
    BY ParseFits
  <1> HIDE DEF parsed, read
  <1>4. ReadFits(named) /\ named.transport = parsed.transport
    BY <1>3 DEF ReadFits, UnlessExcluded
  <1> HIDE DEF named
  <1>5. ReadFits(read) /\ (~read.problem => read.transport = parsed.transport)
    BY <1>0, <1>1, <1>4, ProblemFits
  <1> QED
    BY <1>2, <1>5 DEF read, parsed

-----------------------------------------------------------------------------
(* What an import makes of what it reads.                                   *)

IsSeq(s) == \E S : s \in Seq(S)

LEMMA AppendsOne ==
    ASSUME NEW s, IsSeq(s), NEW e
    PROVE  /\ IsSeq(Append(s, e)) /\ ToSet(Append(s, e)) = ToSet(s) \cup {e}
           /\ DOMAIN s = 1 .. Len(s) /\ Len(s) \in Nat /\ DOMAIN Append(s, e) = 1 .. Len(s) + 1
           /\ \A i \in DOMAIN Append(s, e) : Append(s, e)[i] = IF i \in DOMAIN s THEN s[i] ELSE e
  <1>1. PICK S : s \in Seq(S)
    BY DEF IsSeq
  <1>2. s \in Seq(S \cup {e})
    BY <1>1
  <1>3. Append(s, e) \in Seq(S \cup {e}) /\ Len(Append(s, e)) = Len(s) + 1 /\ Len(s) \in Nat
        /\ \A i \in 1 .. Len(s) : Append(s, e)[i] = s[i]
        /\ Append(s, e)[Len(s) + 1] = e
    BY <1>2, AppendProperties
  <1>4. DOMAIN s = 1 .. Len(s) /\ DOMAIN Append(s, e) = 1 .. Len(s) + 1
    BY <1>2, <1>3
  <1>5. ToSet(Append(s, e)) = ToSet(s) \cup {e}
    BY <1>3, <1>4 DEF ToSet
  <1> QED
    BY <1>3, <1>4, <1>5 DEF IsSeq

LEMMA OneReplaced ==
    ASSUME NEW s, IsSeq(s), NEW i \in DOMAIN s, NEW e
    PROVE  IsSeq([s EXCEPT ![i] = e]) /\ DOMAIN [s EXCEPT ![i] = e] = DOMAIN s
  <1>1. PICK S : s \in Seq(S)
    BY DEF IsSeq
  <1>2. s \in Seq(S \cup {e})
    BY <1>1
  <1>3. [s EXCEPT ![i] = e] \in Seq(S \cup {e})
    BY <1>2
  <1> QED
    BY <1>3 DEF IsSeq

LEMMA NextFreeIsFree ==
    ASSUME NEW base \in Names, NEW taken
    PROVE  /\ NextFree(base, taken) \in Names \cup {Absent}
           /\ NextFree(base, taken) # Absent => NextFree(base, taken) \notin taken
  <1> DEFINE free == {i \in DOMAIN Spelling[base] : Spelling[base][i] \notin taken}
             first == CHOOSE i \in free : \A j \in free : i <= j
  <1>1. CASE free = {}
    BY <1>1 DEF NextFree
  <1>2. CASE free # {}
    <2>1. Spelling[base] \in Seq(Names)
      BY ImportAssumption
    <2>2. free \subseteq Nat
      BY <2>1
    <2> HIDE DEF free
    <2>3. \E i \in free : \A j \in free : i <= j
      BY <1>2, <2>2, LeastOf
    <2>4. first \in free
      BY <2>3
    <2>5. NextFree(base, taken) = Spelling[base][first]
      BY <1>2 DEF NextFree, free
    <2> HIDE DEF first
    <2>6. first \in DOMAIN Spelling[base] /\ Spelling[base][first] \notin taken
      BY <2>4 DEF free
    <2> QED
      BY <2>1, <2>5, <2>6
  <1> QED
    BY <1>1, <1>2

\* A candidate stands for entries that all say the same.
CandidateFits(c, reads) ==
    /\ DOMAIN c = {"name", "transport", "enabled", "origins", "shared", "adoptAs"}
    /\ TransportFits(c.transport) /\ c.name \in Names \cup {Absent}
    /\ \A f \in Files : \A n \in Names :
          <<f, n>> \in c.origins => ~reads[f][n].problem /\ reads[f][n].transport = c.transport
\* No two of them get one name.
CandidatesFit(cs, reads) ==
    /\ IsSeq(cs)
    /\ \A i \in DOMAIN cs : CandidateFits(cs[i], reads)
    /\ \A i, j \in DOMAIN cs : cs[i].name = cs[j].name => i = j \/ cs[i].name = Absent

LEMMA AddEntryFits ==
    ASSUME NEW reads, NEW cs, CandidatesFit(cs, reads), NEW canonical, NEW f \in Files, NEW n \in Names,
           ReadFits(reads[f][n])
    PROVE  CandidatesFit(AddEntry(cs, canonical, f, n, reads[f][n]), reads)
  <1> DEFINE entry == reads[f][n]
             same == {i \in DOMAIN cs : SameTransport(cs[i].transport, entry.transport)}
             next == AddEntry(cs, canonical, f, n, entry)
  <1>1. CASE entry.problem
    BY <1>1 DEF AddEntry
  <1>2. CASE ~entry.problem /\ same # {}
    <2> DEFINE i == CHOOSE i \in same : TRUE
               more == cs[i].origins \cup {<<f, n>>}
               both == cs[i].enabled /\ entry.enabled
               c == [cs[i] EXCEPT !.origins = more, !.enabled = both]
    <2>1. next = [cs EXCEPT ![i].origins = @ \cup {<<f, n>>}, ![i].enabled = @ /\ entry.enabled]
      BY <1>2 DEF AddEntry
    <2>2. i \in DOMAIN cs /\ cs[i].transport = entry.transport
      BY <1>2 DEF SameTransport
    <2> HIDE DEF i
    <2>3. next = [cs EXCEPT ![i] = c]
      BY <2>1
    <2>4. CandidateFits(cs[i], reads)
      BY <2>2 DEF CandidatesFit
    <2>5. /\ DOMAIN c = DOMAIN cs[i] /\ c.transport = cs[i].transport /\ c.name = cs[i].name
          /\ c.origins = cs[i].origins \cup {<<f, n>>}
      <3> HIDE DEF both, more
      <3> QED
        BY <2>4 DEF CandidateFits, more
    <2> HIDE DEF c
    <2>6. CandidateFits(c, reads)
      BY <1>2, <2>2, <2>4, <2>5 DEF CandidateFits
    <2>7. IsSeq(cs)
      BY DEF CandidatesFit
    <2>8. IsSeq([cs EXCEPT ![i] = c]) /\ DOMAIN [cs EXCEPT ![i] = c] = DOMAIN cs
      BY <2>2, <2>7, OneReplaced
    <2>9. \A j \in DOMAIN cs : [cs EXCEPT ![i] = c][j] = IF j = i THEN c ELSE cs[j]
      OBVIOUS
    <2> QED
      BY <2>3, <2>5, <2>6, <2>8, <2>9 DEF CandidatesFit
  <1>3. CASE ~entry.problem /\ same = {}
    <2> DEFINE c == NewCandidate(cs, canonical, f, n, entry)
               claimed == {cs[i].name : i \in DOMAIN cs}
    <2>1. next = Append(cs, c)
      BY <1>3 DEF AddEntry
    <2>2. c.name \in Names \cup {Absent} /\ (c.name # Absent => c.name \notin claimed)
      <3> DEFINE avoided == claimed \cup (Known(canonical) \ {n})
                 free == NextFree(Slug[n], avoided)
      <3>1. Slug[n] \in Names
        BY ImportAssumption
      <3>2. free \in Names \cup {Absent} /\ (free # Absent => free \notin avoided)
        <4> HIDE DEF avoided
        <4> QED
          BY <3>1, NextFreeIsFree
      <3>3. (c.name = n /\ n \notin claimed) \/ c.name = free
        BY DEF NewCandidate
      <3> QED
        BY <3>2, <3>3
    <2>3. TransportFits(entry.transport) /\ ~entry.problem
      BY <1>3 DEF ReadFits
    <2>4. DOMAIN c = {"name", "transport", "enabled", "origins", "shared", "adoptAs"}
          /\ c.transport = entry.transport /\ c.origins = {<<f, n>>}
      BY DEF NewCandidate
    <2> HIDE DEF c, claimed
    <2>5. CandidateFits(c, reads)
      BY <2>2, <2>3, <2>4 DEF CandidateFits
    <2>6. \A i \in DOMAIN cs : cs[i].name \in claimed
      BY DEF claimed
    <2>7. /\ IsSeq(Append(cs, c)) /\ Len(cs) \in Nat /\ DOMAIN cs = 1 .. Len(cs) /\ DOMAIN Append(cs, c) = 1 .. Len(cs) + 1
          /\ \A i \in DOMAIN Append(cs, c) : Append(cs, c)[i] = IF i \in DOMAIN cs THEN cs[i] ELSE c
      BY AppendsOne DEF CandidatesFit
    <2>8. \A i \in DOMAIN Append(cs, c) : CandidateFits(Append(cs, c)[i], reads)
      BY <2>5, <2>7 DEF CandidatesFit
    <2>9. \A i, j \in DOMAIN Append(cs, c) :
             Append(cs, c)[i].name = Append(cs, c)[j].name => i = j \/ Append(cs, c)[i].name = Absent
      <3> SUFFICES ASSUME NEW i \in DOMAIN Append(cs, c), NEW j \in DOMAIN Append(cs, c),
                          Append(cs, c)[i].name = Append(cs, c)[j].name, Append(cs, c)[i].name # Absent
                   PROVE  i = j
        OBVIOUS
      <3>1. CASE i \in DOMAIN cs /\ j \in DOMAIN cs
        BY <2>7, <3>1 DEF CandidatesFit
      <3>2. CASE i \notin DOMAIN cs /\ j \notin DOMAIN cs
        BY <2>7, <3>2
      <3>3. CASE i \in DOMAIN cs /\ j \notin DOMAIN cs
        BY <2>2, <2>6, <2>7, <3>3
      <3>4. CASE i \notin DOMAIN cs /\ j \in DOMAIN cs
        BY <2>2, <2>6, <2>7, <3>4
      <3> QED
        BY <3>1, <3>2, <3>3, <3>4
    <2> QED
      BY <2>1, <2>7, <2>8, <2>9 DEF CandidatesFit
  <1> QED
    BY <1>1, <1>2, <1>3

\* Name by name.
LEMMA AddFileFits ==
    ASSUME NEW reads, NEW cs, CandidatesFit(cs, reads), NEW canonical, NEW f \in Files,
           \A n \in Names : ReadFits(reads[f][n])
    PROVE  CandidatesFit(AddFile(cs, canonical, f, reads[f]), reads)
  <1> DEFINE N == Len(NameOrder)
             Step(x, i) == AddEntry(x, canonical, f, NameOrder[i], reads[f][NameOrder[i]])
             Made(m, g) == g = [i \in 0 .. m |-> IF i = 0 THEN cs ELSE Step(g[i - 1], i)]
             after == CHOOSE g : Made(N, g)
  <1>1. N \in Nat /\ \A i \in 1 .. N : NameOrder[i] \in Names
    BY PlanningAssumption
  <1>2. AddFile(cs, canonical, f, reads[f]) = after[N]
    BY DEF AddFile
  <1>3. ASSUME NEW x, CandidatesFit(x, reads), NEW i \in 1 .. N
        PROVE  CandidatesFit(Step(x, i), reads)
    BY <1>1, <1>3, AddEntryFits
  <1> HIDE DEF N, Step
  <1>4. \E g : Made(N, g)
    <2> DEFINE undone == {m \in 0 .. N : \A g : ~Made(m, g)}
    <2>1. SUFFICES ASSUME undone # {} PROVE FALSE
      BY <1>1
    <2>2. PICK m \in undone : \A k \in undone : m <= k
      <3>1. undone \subseteq Nat
        BY <1>1
      <3> HIDE DEF undone
      <3> QED
        BY <2>1, <3>1, LeastOf
    <2>3. m \in 0 .. N /\ \A g : ~Made(m, g)
      BY <2>2
    <2>4. CASE m = 0
      <3>1. Made(0, [i \in 0 .. 0 |-> cs])
        OBVIOUS
      <3> QED
        BY <2>3, <2>4, <3>1
    <2>5. CASE m # 0
      <3>1. m - 1 \in 0 .. N /\ m - 1 \notin undone
        <4>1. m \in Nat /\ m - 1 \in 0 .. N /\ ~(m <= m - 1)
          BY <1>1, <2>3, <2>5
        <4> HIDE DEF undone
        <4> QED
          BY <2>2, <4>1
      <3>2. PICK g : Made(m - 1, g)
        BY <3>1
      <3> DEFINE h == [i \in 0 .. m |-> IF i = 0 THEN cs ELSE Step(g[i - 1], i)]
      <3>3. \A i \in 0 .. m - 1 : h[i] = g[i]
        BY <1>1, <2>3, <2>5, <3>2
      <3>4. Made(m, h)
        <4>1. \A i \in 0 .. m : i # 0 => i - 1 \in 0 .. m - 1
          BY <2>3
        <4>2. \A i \in 0 .. m : h[i] = IF i = 0 THEN cs ELSE Step(h[i - 1], i)
          BY <3>3, <4>1
        <4>3. h = [i \in 0 .. m |-> h[i]]
          OBVIOUS
        <4> HIDE DEF h
        <4> QED
          BY <4>2, <4>3
      <3> QED
        BY <2>3, <3>4
    <2> QED
      BY <2>4, <2>5
  <1>5. Made(N, after)
    BY <1>4
  <1> HIDE DEF after
  <1>6. after[0] = cs /\ \A i \in 1 .. N : after[i] = Step(after[i - 1], i)
    BY <1>1, <1>5
  <1> HIDE DEF Made
  <1>7. \A i \in 0 .. N : CandidatesFit(after[i], reads)
    <2> DEFINE wrong == {i \in 0 .. N : ~CandidatesFit(after[i], reads)}
    <2>1. SUFFICES ASSUME wrong # {} PROVE FALSE
      OBVIOUS
    <2>2. PICK m \in wrong : \A k \in wrong : m <= k
      <3>1. wrong \subseteq Nat
        BY <1>1
      <3> HIDE DEF wrong
      <3> QED
        BY <2>1, <3>1, LeastOf
    <2>3. m # 0
      BY <1>6, <2>2
    <2>4. m \in 1 .. N /\ m - 1 \in 0 .. N /\ m - 1 \notin wrong
      BY <1>1, <2>2, <2>3
    <2>5. CandidatesFit(after[m - 1], reads)
      BY <2>4
    <2>6. CandidatesFit(after[m], reads)
      BY <1>3, <1>6, <2>4, <2>5
    <2> QED
      BY <2>2, <2>6
  <1> QED
    BY <1>1, <1>2, <1>7

\* File by file.
LEMMA CandidatesMade ==
    ASSUME NEW reads, \A f \in Files : \A n \in Names : ReadFits(reads[f][n]), NEW canonical
    PROVE  CandidatesFit(Candidates(reads, canonical), reads)
  <1> DEFINE N == Len(FileOrder)
             cs == << >>
             Step(x, i) == AddFile(x, canonical, FileOrder[i], reads[FileOrder[i]])
             Made(m, g) == g = [i \in 0 .. m |-> IF i = 0 THEN cs ELSE Step(g[i - 1], i)]
             after == CHOOSE g : Made(N, g)
  <1>1. N \in Nat /\ \A i \in 1 .. N : FileOrder[i] \in Files
    BY ImportAssumption
  <1>2. Candidates(reads, canonical) = after[N]
    BY DEF Candidates
  <1>3. ASSUME NEW x, CandidatesFit(x, reads), NEW i \in 1 .. N
        PROVE  CandidatesFit(Step(x, i), reads)
    BY <1>1, <1>3, AddFileFits
  <1>0. CandidatesFit(cs, reads)
    BY DEF CandidatesFit, IsSeq
  <1> HIDE DEF N, Step, cs
  <1>4. \E g : Made(N, g)
    <2> DEFINE undone == {m \in 0 .. N : \A g : ~Made(m, g)}
    <2>1. SUFFICES ASSUME undone # {} PROVE FALSE
      BY <1>1
    <2>2. PICK m \in undone : \A k \in undone : m <= k
      <3>1. undone \subseteq Nat
        BY <1>1
      <3> HIDE DEF undone
      <3> QED
        BY <2>1, <3>1, LeastOf
    <2>3. m \in 0 .. N /\ \A g : ~Made(m, g)
      BY <2>2
    <2>4. CASE m = 0
      <3>1. Made(0, [i \in 0 .. 0 |-> cs])
        OBVIOUS
      <3> QED
        BY <2>3, <2>4, <3>1
    <2>5. CASE m # 0
      <3>1. m - 1 \in 0 .. N /\ m - 1 \notin undone
        <4>1. m \in Nat /\ m - 1 \in 0 .. N /\ ~(m <= m - 1)
          BY <1>1, <2>3, <2>5
        <4> HIDE DEF undone
        <4> QED
          BY <2>2, <4>1
      <3>2. PICK g : Made(m - 1, g)
        BY <3>1
      <3> DEFINE h == [i \in 0 .. m |-> IF i = 0 THEN cs ELSE Step(g[i - 1], i)]
      <3>3. \A i \in 0 .. m - 1 : h[i] = g[i]
        BY <1>1, <2>3, <2>5, <3>2
      <3>4. Made(m, h)
        <4>1. \A i \in 0 .. m : i # 0 => i - 1 \in 0 .. m - 1
          BY <2>3
        <4>2. \A i \in 0 .. m : h[i] = IF i = 0 THEN cs ELSE Step(h[i - 1], i)
          BY <3>3, <4>1
        <4>3. h = [i \in 0 .. m |-> h[i]]
          OBVIOUS
        <4> HIDE DEF h
        <4> QED
          BY <4>2, <4>3
      <3> QED
        BY <2>3, <3>4
    <2> QED
      BY <2>4, <2>5
  <1>5. Made(N, after)
    BY <1>4
  <1> HIDE DEF after
  <1>6. after[0] = cs /\ \A i \in 1 .. N : after[i] = Step(after[i - 1], i)
    BY <1>1, <1>5
  <1> HIDE DEF Made
  <1>7. \A i \in 0 .. N : CandidatesFit(after[i], reads)
    <2> DEFINE wrong == {i \in 0 .. N : ~CandidatesFit(after[i], reads)}
    <2>1. SUFFICES ASSUME wrong # {} PROVE FALSE
      OBVIOUS
    <2>2. PICK m \in wrong : \A k \in wrong : m <= k
      <3>1. wrong \subseteq Nat
        BY <1>1
      <3> HIDE DEF wrong
      <3> QED
        BY <2>1, <3>1, LeastOf
    <2>3. m # 0
      BY <1>0, <1>6, <2>2
    <2>4. m \in 1 .. N /\ m - 1 \in 0 .. N /\ m - 1 \notin wrong
      BY <1>1, <2>2, <2>3
    <2>5. CandidatesFit(after[m - 1], reads)
      BY <2>4
    <2>6. CandidatesFit(after[m], reads)
      BY <1>3, <1>6, <2>4, <2>5
    <2> QED
      BY <2>2, <2>6
  <1> QED
    BY <1>1, <1>2, <1>7

\* What a plan lists are candidates, each with the name it is offered.
Lists(c, cs) ==
    \E i \in DOMAIN cs : c.name = cs[i].name /\ c.transport = cs[i].transport /\ c.origins = cs[i].origins
Spoken(cs, canonical) == Known(canonical) \cup {cs[i].name : i \in DOMAIN cs}
PlanFits(plan, cs, canonical) ==
    /\ DOMAIN plan = {"new", "already", "conflicts", "taken"}
    /\ IsSeq(plan.new) /\ IsSeq(plan.already) /\ IsSeq(plan.conflicts)
    /\ Spoken(cs, canonical) \subseteq plan.taken
    /\ \A c \in ToSet(plan.new) : Lists(c, cs)
    /\ \A c \in ToSet(plan.already) :
          /\ Lists(c, cs) /\ c.name \in Names /\ canonical[c.name] # Absent
          /\ canonical[c.name].transport = c.transport
    /\ \A c \in ToSet(plan.conflicts) :
          /\ Lists(c, cs) /\ c.name \in Names /\ c.adoptAs \in Names \cup {Absent}
          /\ c.adoptAs # Absent => c.adoptAs \in plan.taken \ Spoken(cs, canonical)
    /\ \A c, d \in ToSet(plan.conflicts) : c.adoptAs = d.adoptAs => c.adoptAs = Absent \/ c = d

LEMMA ClassifyFits ==
    ASSUME NEW reads, NEW cs, CandidatesFit(cs, reads), NEW canonical, NEW plan, PlanFits(plan, cs, canonical),
           NEW i \in DOMAIN cs
    PROVE  PlanFits(Classify(plan, cs[i], canonical), cs, canonical)
  <1> DEFINE c == cs[i]
             mine == IF c.name = Absent THEN Absent ELSE canonical[c.name]
  <1>1. Lists(c, cs) /\ CandidateFits(c, reads)
    BY DEF Lists, CandidatesFit
  <1>2. /\ DOMAIN plan = {"new", "already", "conflicts", "taken"}
        /\ IsSeq(plan.new) /\ IsSeq(plan.already) /\ IsSeq(plan.conflicts)
    BY DEF PlanFits
  <1>3. CASE mine = Absent
    <2> DEFINE more == Append(plan.new, c)
    <2>1. Classify(plan, c, canonical) = [plan EXCEPT !.new = more]
      BY <1>3 DEF Classify
    <2>2. IsSeq(more) /\ ToSet(more) = ToSet(plan.new) \cup {c}
      BY <1>2, AppendsOne
    <2> HIDE DEF more, c
    <2> QED
      BY <1>1, <1>2, <2>1, <2>2 DEF PlanFits, c
  <1>4. CASE mine # Absent /\ SameTransport(mine.transport, c.transport)
    <2> DEFINE more == Append(plan.already, c)
    <2>1. Classify(plan, c, canonical) = [plan EXCEPT !.already = more]
      BY <1>4 DEF Classify
    <2>2. IsSeq(more) /\ ToSet(more) = ToSet(plan.already) \cup {c}
      BY <1>2, AppendsOne
    <2>3. c.name \in Names /\ canonical[c.name] # Absent /\ canonical[c.name].transport = c.transport
      BY <1>1, <1>4 DEF SameTransport, CandidateFits
    <2> HIDE DEF more, c
    <2> QED
      BY <1>1, <1>2, <2>1, <2>2, <2>3 DEF PlanFits, c
  <1>5. CASE mine # Absent /\ ~SameTransport(mine.transport, c.transport)
    <2> DEFINE second == NextFree(c.name, plan.taken)
               offered == [c EXCEPT !.adoptAs = second]
               more == Append(plan.conflicts, offered)
    <2>1. Classify(plan, c, canonical) = [plan EXCEPT !.taken = @ \cup {second}, !.conflicts = more]
      BY <1>5 DEF Classify, OfferName
    <2>2. IsSeq(more) /\ ToSet(more) = ToSet(plan.conflicts) \cup {offered}
      BY <1>2, AppendsOne
    <2>3. c.name \in Names
      BY <1>1, <1>5 DEF CandidateFits
    <2>4. second \in Names \cup {Absent} /\ (second # Absent => second \notin plan.taken)
      BY <2>3, NextFreeIsFree
    <2> HIDE DEF second
    <2>5. offered.name = c.name /\ offered.transport = c.transport /\ offered.origins = c.origins /\ offered.adoptAs = second
      BY <1>1 DEF CandidateFits
    <2>6. Lists(offered, cs)
      BY <1>1, <2>5 DEF Lists
    <2> HIDE DEF more, offered, c
    <2> DEFINE next == [plan EXCEPT !.taken = @ \cup {second}, !.conflicts = more]
    <2>7. DOMAIN next = DOMAIN plan /\ next.new = plan.new /\ next.already = plan.already
          /\ next.conflicts = more /\ next.taken = plan.taken \cup {second}
      BY <1>2
    <2> HIDE DEF next
    <2>8. PlanFits(next, cs, canonical)
      <3>1. \A d \in ToSet(plan.conflicts) : d.adoptAs # Absent => d.adoptAs \in plan.taken
        BY DEF PlanFits
      <3>2. \A d, e \in ToSet(more) : d.adoptAs = e.adoptAs => d.adoptAs = Absent \/ d = e
        BY <2>2, <2>4, <2>5, <3>1 DEF PlanFits
      <3>3. \A d \in ToSet(more) :
              /\ Lists(d, cs) /\ d.name \in Names /\ d.adoptAs \in Names \cup {Absent}
              /\ d.adoptAs # Absent => d.adoptAs \in next.taken \ Spoken(cs, canonical)
        BY <2>2, <2>3, <2>4, <2>5, <2>6, <2>7 DEF PlanFits
      <3> QED
        BY <1>2, <2>2, <2>7, <3>2, <3>3 DEF PlanFits
    <2> QED
      BY <2>1, <2>8 DEF next, c
  <1> QED
    BY <1>3, <1>4, <1>5

\* Candidate by candidate.
LEMMA PlanMade ==
    ASSUME NEW reads, \A f \in Files : \A n \in Names : ReadFits(reads[f][n]), NEW canonical
    PROVE  PlanFits(PlanImport(reads, canonical), Candidates(reads, canonical), canonical)
  <1> DEFINE candidates == Candidates(reads, canonical)
             N == Len(candidates)
             cs == [ new |-> << >>, already |-> << >>, conflicts |-> << >>,
                     taken |-> Known(canonical) \cup {candidates[i].name : i \in DOMAIN candidates} ]
             Step(x, i) == Classify(x, candidates[i], canonical)
             Made(m, g) == g = [i \in 0 .. m |-> IF i = 0 THEN cs ELSE Step(g[i - 1], i)]
             after == CHOOSE g : Made(N, g)
  <1>2. PlanImport(reads, canonical) = after[N]
    BY DEF PlanImport
  <1> HIDE DEF candidates
  <1>1. N \in Nat /\ DOMAIN candidates = 1 .. N /\ CandidatesFit(candidates, reads)
    BY CandidatesMade, AppendsOne DEF CandidatesFit, candidates
  <1>3. ASSUME NEW x, PlanFits(x, candidates, canonical), NEW i \in 1 .. N
        PROVE  PlanFits(Step(x, i), candidates, canonical)
    BY <1>1, <1>3, ClassifyFits
  <1>0. PlanFits(cs, candidates, canonical)
    <2>1. IsSeq(<< >>) /\ ToSet(<< >>) = {}
      BY DEF IsSeq, ToSet
    <2> QED
      BY <2>1 DEF PlanFits, Spoken
  <1> HIDE DEF N, Step, cs
  <1>4. \E g : Made(N, g)
    <2> DEFINE undone == {m \in 0 .. N : \A g : ~Made(m, g)}
    <2>1. SUFFICES ASSUME undone # {} PROVE FALSE
      BY <1>1
    <2>2. PICK m \in undone : \A k \in undone : m <= k
      <3>1. undone \subseteq Nat
        BY <1>1
      <3> HIDE DEF undone
      <3> QED
        BY <2>1, <3>1, LeastOf
    <2>3. m \in 0 .. N /\ \A g : ~Made(m, g)
      BY <2>2
    <2>4. CASE m = 0
      <3>1. Made(0, [i \in 0 .. 0 |-> cs])
        OBVIOUS
      <3> QED
        BY <2>3, <2>4, <3>1
    <2>5. CASE m # 0
      <3>1. m - 1 \in 0 .. N /\ m - 1 \notin undone
        <4>1. m \in Nat /\ m - 1 \in 0 .. N /\ ~(m <= m - 1)
          BY <1>1, <2>3, <2>5
        <4> HIDE DEF undone
        <4> QED
          BY <2>2, <4>1
      <3>2. PICK g : Made(m - 1, g)
        BY <3>1
      <3> DEFINE h == [i \in 0 .. m |-> IF i = 0 THEN cs ELSE Step(g[i - 1], i)]
      <3>3. \A i \in 0 .. m - 1 : h[i] = g[i]
        BY <1>1, <2>3, <2>5, <3>2
      <3>4. Made(m, h)
        <4>1. \A i \in 0 .. m : i # 0 => i - 1 \in 0 .. m - 1
          BY <2>3
        <4>2. \A i \in 0 .. m : h[i] = IF i = 0 THEN cs ELSE Step(h[i - 1], i)
          BY <3>3, <4>1
        <4>3. h = [i \in 0 .. m |-> h[i]]
          OBVIOUS
        <4> HIDE DEF h
        <4> QED
          BY <4>2, <4>3
      <3> QED
        BY <2>3, <3>4
    <2> QED
      BY <2>4, <2>5
  <1>5. Made(N, after)
    BY <1>4
  <1> HIDE DEF after
  <1>6. after[0] = cs /\ \A i \in 1 .. N : after[i] = Step(after[i - 1], i)
    BY <1>1, <1>5
  <1> HIDE DEF Made
  <1>7. \A i \in 0 .. N : PlanFits(after[i], candidates, canonical)
    <2> DEFINE wrong == {i \in 0 .. N : ~PlanFits(after[i], candidates, canonical)}
    <2>1. SUFFICES ASSUME wrong # {} PROVE FALSE
      OBVIOUS
    <2>2. PICK m \in wrong : \A k \in wrong : m <= k
      <3>1. wrong \subseteq Nat
        BY <1>1
      <3> HIDE DEF wrong
      <3> QED
        BY <2>1, <3>1, LeastOf
    <2>3. m # 0
      BY <1>0, <1>6, <2>2
    <2>4. m \in 1 .. N /\ m - 1 \in 0 .. N /\ m - 1 \notin wrong
      BY <1>1, <2>2, <2>3
    <2>5. PlanFits(after[m - 1], candidates, canonical)
      BY <2>4
    <2>6. PlanFits(after[m], candidates, canonical)
      BY <1>3, <1>6, <2>4, <2>5
    <2> QED
      BY <2>2, <2>6
  <1> QED
    BY <1>1, <1>2, <1>7 DEF candidates

\* One name, one server.
LEMMA ListedOnce ==
    ASSUME NEW reads, NEW cs, CandidatesFit(cs, reads), NEW c, Lists(c, cs)
    PROVE  /\ TransportFits(c.transport) /\ c.name \in Names \cup {Absent}
           /\ \A f \in Files : \A n \in Names :
                 <<f, n>> \in c.origins => ~reads[f][n].problem /\ reads[f][n].transport = c.transport
           /\ \A d : Lists(d, cs) /\ d.name = c.name => c.name = Absent \/ d.transport = c.transport
  <1>1. PICK i \in DOMAIN cs : c.name = cs[i].name /\ c.transport = cs[i].transport /\ c.origins = cs[i].origins
    BY DEF Lists
  <1>2. CandidateFits(cs[i], reads)
    BY DEF CandidatesFit
  <1>3. ASSUME NEW d, Lists(d, cs), d.name = c.name, c.name # Absent
        PROVE  d.transport = c.transport
    <2>1. PICK j \in DOMAIN cs : d.name = cs[j].name /\ d.transport = cs[j].transport
      BY <1>3 DEF Lists
    <2>2. i = j
      BY <1>1, <1>3, <2>1 DEF CandidatesFit
    <2> QED
      BY <1>1, <2>1, <2>2
  <1> QED
    BY <1>1, <1>2, <1>3 DEF CandidateFits

\* What is brought, and under which name.
LEMMA BroughtParts ==
    ASSUME NEW plan, NEW answers, NEW skip, NEW b \in Brought(plan, answers, skip)
    PROVE  \/ b.from \in ToSet(plan.new) /\ b.as = b.from.name
           \/ b.from \in ToSet(plan.conflicts) /\ (b.as = b.from.name \/ b.as = b.from.adoptAs)
  <1> DEFINE named == {c \in ToSet(plan.new) : ~c.shared \/ c.name \notin skip} \cup Chose(plan, answers, "overwrite")
             both == Chose(plan, answers, "keep both")
  <1>1. b \in {[as |-> c.name, from |-> c] : c \in named} \cup {[as |-> c.adoptAs, from |-> c] : c \in both}
    BY DEF Brought
  <1>2. (\A c \in named : c \in ToSet(plan.new) \cup ToSet(plan.conflicts)) /\ \A c \in both : c \in ToSet(plan.conflicts)
    BY DEF Chose
  <1> HIDE DEF named, both
  <1>3. CASE b \in {[as |-> c.name, from |-> c] : c \in named}
    <2>1. PICK c \in named : b = [as |-> c.name, from |-> c]
      BY <1>3
    <2>2. b.as = c.name /\ b.from = c
      BY <2>1
    <2> QED
      BY <1>2, <2>2
  <1>4. CASE b \in {[as |-> c.adoptAs, from |-> c] : c \in both}
    <2>1. PICK c \in both : b = [as |-> c.adoptAs, from |-> c]
      BY <1>4
    <2>2. b.as = c.adoptAs /\ b.from = c
      BY <2>1
    <2> QED
      BY <1>2, <2>2
  <1> QED
    BY <1>1, <1>3, <1>4

LEMMA BroughtFits ==
    ASSUME NEW reads, NEW cs, CandidatesFit(cs, reads), NEW canonical, NEW plan, PlanFits(plan, cs, canonical),
           NamesSuffice(plan), NEW answers, NEW skip, NEW b \in Brought(plan, answers, skip)
    PROVE  /\ b.as \in Names /\ Lists(b.from, cs)
           /\ b.as = b.from.name \/ (b.as = b.from.adoptAs /\ b.as \notin Spoken(cs, canonical) /\ b.from \in ToSet(plan.conflicts))
  <1>1. /\ \A c \in ToSet(plan.new) : c.name # Absent
        /\ \A c \in ToSet(plan.conflicts) : c.adoptAs # Absent
    BY DEF NamesSuffice, ToSet
  <1>2. CASE b.from \in ToSet(plan.new) /\ b.as = b.from.name
    <2>1. Lists(b.from, cs)
      BY <1>2 DEF PlanFits
    <2> QED
      BY <1>1, <1>2, <2>1, ListedOnce
  <1>3. CASE b.from \in ToSet(plan.conflicts) /\ (b.as = b.from.name \/ b.as = b.from.adoptAs)
    BY <1>1, <1>3 DEF PlanFits
  <1> QED
    BY <1>2, <1>3, BroughtParts

LEMMA BroughtOnce ==
    ASSUME NEW reads, NEW cs, CandidatesFit(cs, reads), NEW canonical, NEW plan, PlanFits(plan, cs, canonical),
           NamesSuffice(plan), NEW answers, NEW skip,
           NEW b \in Brought(plan, answers, skip), NEW d \in Brought(plan, answers, skip), d.as = b.as
    PROVE  d.from.transport = b.from.transport
  <1>1. /\ b.as \in Names /\ Lists(b.from, cs)
        /\ b.as = b.from.name \/ (b.as = b.from.adoptAs /\ b.as \notin Spoken(cs, canonical) /\ b.from \in ToSet(plan.conflicts))
    BY BroughtFits
  <1>2. /\ Lists(d.from, cs)
        /\ d.as = d.from.name \/ (d.as = d.from.adoptAs /\ d.as \notin Spoken(cs, canonical) /\ d.from \in ToSet(plan.conflicts))
    BY BroughtFits
  <1>3. b.as # Absent
    BY <1>1, PlanningAssumption
  <1>4. b.from.name \in Spoken(cs, canonical) /\ d.from.name \in Spoken(cs, canonical)
    BY <1>1, <1>2 DEF Lists, Spoken
  <1>5. CASE b.as = b.from.name
    <2>1. d.as = d.from.name
      BY <1>2, <1>4, <1>5
    <2> QED
      BY <1>1, <1>2, <1>3, <1>5, <2>1, ListedOnce
  <1>6. CASE b.as # b.from.name
    <2>1. b.from.adoptAs = d.from.adoptAs /\ b.from.adoptAs # Absent /\ {b.from, d.from} \subseteq ToSet(plan.conflicts)
      BY <1>1, <1>2, <1>3, <1>4, <1>6
    <2>2. b.from = d.from
      BY <2>1 DEF PlanFits
    <2> QED
      BY <2>2
  <1> QED
    BY <1>5, <1>6

\* A server is something.
NothingIsAServer == DOMAIN Absent # {"transport", "enabled", "rules"}

\* What is left in memory: a config and a state that can be saved...
LEMMA ImportedFits ==
    ASSUME NothingIsAServer, NEW reads, NEW cs, CandidatesFit(cs, reads), NEW plan, NEW held, ConfigFits(held.config), held.state \in States,
           PlanFits(plan, cs, held.config.servers), NamesSuffice(plan), NEW answers, NEW skip
    PROVE  LET left == Imported(plan, held, answers, skip)
               brought == Brought(plan, answers, skip)
           IN /\ ConfigFits(left.config) /\ left.state \in States
              /\ \A n \in Names : \/ left.config.servers[n] = held.config.servers[n] /\ ~\E b \in brought : b.as = n
                                  \/ \E b \in brought : /\ b.as = n /\ left.config.servers[n] # Absent
                                                        /\ left.config.servers[n].transport = b.from.transport
              /\ \A f \in Files : left.state.managed[f] = held.state.managed[f] \cup AdoptOrigins(plan, brought, f)
  <1> DEFINE brought == Brought(plan, answers, skip)
             under(n) == {b.from : b \in {x \in brought : x.as = n}}
             servers == held.config.servers
             given(n) == CHOOSE c \in under(n) : TRUE
             written == [n \in Names |-> IF under(n) = {} THEN servers[n]
                                         ELSE Upsert(servers, n, ServerOf(given(n)))[n]]
             exists == held.config.exists \/ brought # {}
             config1 == [held.config EXCEPT !.exists = exists, !.servers = written]
             managed == [f \in Files |-> held.state.managed[f] \cup AdoptOrigins(plan, brought, f)]
             standing(f, n) == ResolveOrigins(plan, answers, f, n)
             resolved == [f \in Files |-> [n \in Names |->
                            IF standing(f, n) = {} THEN held.state.resolved[f][n] ELSE CHOOSE c \in standing(f, n) : TRUE]]
             left == Imported(plan, held, answers, skip)
  <1>1. /\ left.config = config1
        /\ left.state = [held.state EXCEPT !.managed = managed, !.resolved = resolved]
    BY DEF Imported
  <1>2. DOMAIN servers = Names /\ DOMAIN held.config = {"exists", "servers", "scopes"}
        /\ \A n \in Known(servers) : ServerFits(servers[n])
    BY DEF ConfigFits
  <1>3. ASSUME NEW n \in Names, under(n) # {}
        PROVE  /\ written[n] # Absent /\ ServerFits(written[n])
               /\ \E b \in brought : b.as = n /\ written[n].transport = b.from.transport
    <2>1. given(n) \in under(n)
      BY <1>3
    <2> DEFINE c == given(n)
    <2>2. PICK b \in brought : b.as = n /\ b.from = c
      BY <2>1
    <2>3. TransportFits(c.transport)
      BY <2>2, BroughtFits, ListedOnce
    <2>4. written[n] = Upsert(servers, n, ServerOf(c))[n]
      BY <1>3
    <2> HIDE DEF c, written, servers
    <2> DEFINE s == ServerOf(c)
               rules == IF s.rules = Absent /\ servers[n] # Absent THEN servers[n].rules ELSE s.rules
    <2>5. written[n] = [s EXCEPT !.rules = rules]
      BY <1>2, <2>4 DEF Upsert
    <2>6. DOMAIN s = {"transport", "enabled", "rules"} /\ s.transport = c.transport
      BY DEF ServerOf
    <2> HIDE DEF s, rules
    <2>7. DOMAIN written[n] = {"transport", "enabled", "rules"} /\ written[n].transport = c.transport
      BY <2>5, <2>6
    <2> QED
      BY <2>2, <2>3, <2>7 DEF ServerFits, NothingIsAServer
  <1>4. ASSUME NEW n \in Names, under(n) = {}
        PROVE  written[n] = servers[n] /\ ~\E b \in brought : b.as = n
    BY <1>4
  <1>5. ConfigFits(config1) /\ config1.servers = written
    <2>1. DOMAIN written = Names
      OBVIOUS
    <2>2. \A n \in Known(written) : ServerFits(written[n])
      <3> SUFFICES ASSUME NEW n \in Names, written[n] # Absent PROVE ServerFits(written[n])
        BY DEF Known
      <3>1. CASE under(n) = {}
        BY <1>2, <1>4, <3>1 DEF Known
      <3>2. CASE under(n) # {}
        BY <1>3, <3>2
      <3> QED
        BY <3>1, <3>2
    <2> HIDE DEF written, exists
    <2>3. DOMAIN config1 = DOMAIN held.config /\ config1.servers = written
      BY <1>2
    <2> QED
      BY <1>2, <2>1, <2>2, <2>3 DEF ConfigFits
  <1>6. left.state \in States /\ left.state.managed = managed
    <2>1. managed \in [Files -> SUBSET Names]
      BY DEF States, AdoptOrigins
    <2>2. resolved \in [Files -> [Names -> Names \cup {Absent}]]
      <3> SUFFICES ASSUME NEW f \in Files, NEW n \in Names
                   PROVE  (IF standing(f, n) = {} THEN held.state.resolved[f][n] ELSE CHOOSE c \in standing(f, n) : TRUE)
                             \in Names \cup {Absent}
        OBVIOUS
      <3>1. standing(f, n) \subseteq Names
        BY DEF ResolveOrigins
      <3>2. held.state.resolved[f][n] \in Names \cup {Absent}
        BY DEF States
      <3> HIDE DEF standing
      <3> QED
        BY <3>1, <3>2
    <2> HIDE DEF managed, resolved
    <2> QED
      BY <1>1, <2>1, <2>2 DEF States
  <1>7. \A n \in Names : \/ written[n] = servers[n] /\ ~\E b \in brought : b.as = n
                         \/ \E b \in brought : b.as = n /\ written[n] # Absent /\ written[n].transport = b.from.transport
    <2> SUFFICES ASSUME NEW n \in Names
                 PROVE  \/ written[n] = servers[n] /\ ~\E b \in brought : b.as = n
                        \/ \E b \in brought : b.as = n /\ written[n] # Absent /\ written[n].transport = b.from.transport
      OBVIOUS
    <2>1. CASE under(n) = {}
      BY <1>4, <2>1
    <2>2. CASE under(n) # {}
      <3> HIDE DEF under, written
      <3> QED
        BY <1>3, <2>2
    <2> QED
      BY <2>1, <2>2
  <1>8. \A f \in Files : managed[f] = held.state.managed[f] \cup AdoptOrigins(plan, brought, f)
    OBVIOUS
  <1> HIDE DEF written, managed, config1, left, brought
  <1> QED
    BY <1>1, <1>5, <1>6, <1>7, <1>8 DEF left, brought

\* ...in which every entry that is adopted finds its server.
LEMMA AdoptedIsBacked ==
    ASSUME NothingIsAServer, NEW reads, NEW cs, CandidatesFit(cs, reads), NEW plan, NEW held, ConfigFits(held.config), held.state \in States,
           PlanFits(plan, cs, held.config.servers), NamesSuffice(plan), NEW answers, NEW skip,
           NEW f \in Files, NEW n,
           n \in Imported(plan, held, answers, skip).state.managed[f] \ held.state.managed[f]
    PROVE  /\ n \in Names /\ ~reads[f][n].problem
           /\ LET servers == Imported(plan, held, answers, skip).config.servers
              IN \E c \in Known(servers) : servers[c].transport = reads[f][n].transport
  <1> DEFINE left == Imported(plan, held, answers, skip)
             brought == Brought(plan, answers, skip)
             canonical == held.config.servers
  <1>1. \A m \in Names : \/ left.config.servers[m] = canonical[m] /\ ~\E b \in brought : b.as = m
                         \/ \E b \in brought : /\ b.as = m /\ left.config.servers[m] # Absent
                                               /\ left.config.servers[m].transport = b.from.transport
    BY ImportedFits
  <1>2. n \in AdoptOrigins(plan, brought, f)
    BY ImportedFits
  <1> HIDE DEF left, brought
  <1>3. n \in Names /\ (\/ \E b \in brought : <<f, n>> \in b.from.origins
                        \/ \E c \in ToSet(plan.already) : <<f, n>> \in c.origins)
    BY <1>2 DEF AdoptOrigins
  <1>4. CASE \E b \in brought : <<f, n>> \in b.from.origins
    <2>1. PICK b \in brought : <<f, n>> \in b.from.origins
      BY <1>4
    <2>2. b.as \in Names /\ Lists(b.from, cs)
      BY BroughtFits DEF brought
    <2>3. ~reads[f][n].problem /\ reads[f][n].transport = b.from.transport
      BY <1>3, <2>1, <2>2, ListedOnce
    <2>4. PICK d \in brought : d.as = b.as /\ left.config.servers[b.as] # Absent
                               /\ left.config.servers[b.as].transport = d.from.transport
      BY <1>1, <2>2
    <2>5. d.from.transport = b.from.transport
      BY <2>4, BroughtOnce DEF brought
    <2> QED
      BY <1>3, <2>2, <2>3, <2>4, <2>5 DEF Known, left
  <1>5. CASE \E c \in ToSet(plan.already) : <<f, n>> \in c.origins
    <2>1. PICK c \in ToSet(plan.already) : <<f, n>> \in c.origins
      BY <1>5
    <2>2. Lists(c, cs) /\ c.name \in Names /\ canonical[c.name] # Absent /\ canonical[c.name].transport = c.transport
      BY DEF PlanFits
    <2>3. ~reads[f][n].problem /\ reads[f][n].transport = c.transport
      BY <1>3, <2>1, <2>2, ListedOnce
    <2>4. left.config.servers[c.name] # Absent /\ left.config.servers[c.name].transport = c.transport
      <3>1. CASE left.config.servers[c.name] = canonical[c.name]
        BY <2>2, <3>1
      <3>2. CASE left.config.servers[c.name] # canonical[c.name]
        <4>1. PICK b \in brought : b.as = c.name /\ left.config.servers[c.name] # Absent
                                   /\ left.config.servers[c.name].transport = b.from.transport
          BY <1>1, <2>2, <3>2
        <4>2. /\ Lists(b.from, cs)
              /\ b.as = b.from.name \/ b.as \notin Spoken(cs, canonical)
          BY BroughtFits DEF brought
        <4>3. c.name \in Spoken(cs, canonical) /\ c.name # Absent
          BY <2>2, PlanningAssumption DEF Lists, Spoken
        <4>4. b.from.transport = c.transport
          BY <2>2, <4>1, <4>2, <4>3, ListedOnce
        <4> QED
          BY <4>1, <4>4
      <3> QED
        BY <3>1, <3>2
    <2> QED
      BY <1>3, <2>2, <2>3, <2>4 DEF Known, left
  <1> QED
    BY <1>3, <1>4, <1>5

-----------------------------------------------------------------------------
(* What is saved can be read again, and what is claimed has its server.     *)

\* What is about to be changed is there, and what an import has in memory can be
\* saved: a server stands behind every claim it adds.
Backed(claims, t, f) ==
    \A n \in claims : \E c \in Known(t.imported.config.servers) :
        t.imported.config.servers[c].transport = Parse(Codec(KindOf[f]).entries, t.docs[f].entries[n]).transport
EditFits(t) ==
    t.pc = "save edit" /\ t.cmd.kind \in {"enable", "disable", "rules"} => t.cmd.name \in Known(t.config.servers)
ImportFits(t) ==
    t.pc \in {"save config", "save adoptions"}
    => /\ ConfigFits(t.imported.config) /\ t.imported.state \in States
       /\ \A f \in Files : Backed(Managed(t.imported.state, f) \ Managed(t.state, f), t, f)

SavedInv ==
    /\ ConfigFits(config) /\ stateFile \in States
    /\ \A f \in Files : Len(backups[f]) <= Keep
    /\ configLock \in Terminals \cup {Nobody} /\ stateLock \in Terminals \cup {Nobody}
    /\ \A p \in Terminals :
          /\ EditFits(term[p]) /\ ImportFits(term[p])
          /\ term[p].pc = "save adoptions" => config = term[p].imported.config

\* What a command leaves to be saved, and what it saves.
Saves(p) ==
    /\ ConfigFits(config') /\ stateFile' \in States
    /\ EditFits(term'[p]) /\ ImportFits(term'[p])
    /\ term'[p].pc = "save adoptions" => config' = term'[p].imported.config

LEMMA EditedFits ==
    ASSUME NEW cfg, ConfigFits(cfg), NEW cmd \in Commands, cmd.kind \in EditKinds,
           cmd.kind \in {"enable", "disable", "rules"} => cmd.name \in Known(cfg.servers)
    PROVE  ConfigFits(Edited(cfg, cmd))
  <1> DEFINE servers == cfg.servers
  <1>0. /\ DOMAIN cfg = {"exists", "servers", "scopes"} /\ DOMAIN servers = Names
        /\ \A n \in Names : servers[n] # Absent => ServerFits(servers[n])
    BY DEF ConfigFits, Known
  <1>1. ASSUME NEW changed, DOMAIN changed = Names, \A n \in Names : changed[n] # Absent => ServerFits(changed[n])
        PROVE  ConfigFits([cfg EXCEPT !.exists = TRUE, !.servers = changed])
    <2> DEFINE saved == [cfg EXCEPT !.exists = TRUE, !.servers = changed]
    <2>1. DOMAIN saved = DOMAIN cfg /\ saved.servers = changed
      BY <1>0
    <2> HIDE DEF saved
    <2> QED
      BY <1>0, <1>1, <2>1 DEF ConfigFits, Known, saved
  <1>2. ASSUME NEW n \in Names, servers[n] # Absent, NEW made, DOMAIN made = {"transport", "enabled", "rules"},
               made.transport = servers[n].transport
        PROVE  ServerFits(made)
    BY <1>0, <1>2 DEF ServerFits
  <1>3. CASE cmd.kind = "add"
    <2> DEFINE rules == IF cmd.server.rules = Absent /\ servers[cmd.name] # Absent THEN servers[cmd.name].rules
                        ELSE cmd.server.rules
               server == [cmd.server EXCEPT !.rules = rules]
               changed == [servers EXCEPT ![cmd.name] = server]
    <2>1. Edited(cfg, cmd) = [cfg EXCEPT !.exists = TRUE, !.servers = changed]
      BY <1>3 DEF Edited, Upsert
    <2>2. ServerFits(cmd.server)
      BY <1>3, CommandAssumption
    <2> HIDE DEF rules
    <2>3. ServerFits(server)
      BY <2>2 DEF ServerFits
    <2> HIDE DEF server
    <2>4. DOMAIN changed = Names /\ \A n \in Names : changed[n] # Absent => ServerFits(changed[n])
      BY <1>0, <2>3
    <2> QED
      BY <1>1, <2>1, <2>4
  <1>4. CASE cmd.kind = "remove"
    <2> DEFINE changed == [servers EXCEPT ![cmd.name] = Absent]
    <2>1. Edited(cfg, cmd) = [cfg EXCEPT !.exists = TRUE, !.servers = changed]
      BY <1>4 DEF Edited, RemoveServer
    <2>2. DOMAIN changed = Names /\ \A n \in Names : changed[n] # Absent => ServerFits(changed[n])
      BY <1>0
    <2> QED
      BY <1>1, <2>1, <2>2
  <1>5. CASE cmd.kind \in {"enable", "disable"}
    <2> DEFINE on == cmd.kind = "enable"
               server == [servers[cmd.name] EXCEPT !.enabled = on]
               changed == [servers EXCEPT ![cmd.name] = server]
    <2>1. Edited(cfg, cmd) = [cfg EXCEPT !.exists = TRUE, !.servers = changed]
      <3>1. CASE cmd.kind = "enable"
        BY <3>1 DEF Edited, SetEnabled
      <3>2. CASE cmd.kind = "disable"
        BY <3>2 DEF Edited, SetEnabled
      <3> QED
        BY <1>5, <3>1, <3>2
    <2>2. cmd.name \in Names /\ servers[cmd.name] # Absent
      BY <1>5 DEF Known
    <2> HIDE DEF on
    <2>3. ServerFits(server)
      BY <1>0, <2>2 DEF ServerFits
    <2> HIDE DEF server
    <2>4. DOMAIN changed = Names /\ \A n \in Names : changed[n] # Absent => ServerFits(changed[n])
      BY <1>0, <2>3
    <2> QED
      BY <1>1, <2>1, <2>4
  <1>6. CASE cmd.kind = "rules"
    <2> DEFINE server == [servers[cmd.name] EXCEPT !.rules = cmd.rules]
               changed == [servers EXCEPT ![cmd.name] = server]
    <2>1. Edited(cfg, cmd) = [cfg EXCEPT !.exists = TRUE, !.servers = changed]
      BY <1>6 DEF Edited, SetRules
    <2>2. cmd.name \in Names /\ servers[cmd.name] # Absent
      BY <1>6 DEF Known
    <2>3. ServerFits(server)
      BY <1>0, <2>2 DEF ServerFits
    <2> HIDE DEF server
    <2>4. DOMAIN changed = Names /\ \A n \in Names : changed[n] # Absent => ServerFits(changed[n])
      BY <1>0, <2>3
    <2> QED
      BY <1>1, <2>1, <2>4
  <1>7. CASE cmd.kind = "scope"
    <2> DEFINE scopes == [cfg.scopes EXCEPT ![cmd.client] = IF cmd.names = {} THEN Absent ELSE cmd.names]
               saved == [cfg EXCEPT !.scopes = scopes]
    <2>1. Edited(cfg, cmd) = saved
      BY <1>7 DEF Edited, SetClientScope
    <2> HIDE DEF scopes
    <2>2. DOMAIN saved = DOMAIN cfg /\ saved.servers = servers
      BY <1>0
    <2> HIDE DEF saved
    <2> QED
      BY <1>0, <2>1, <2>2 DEF ConfigFits, Known
  <1> QED
    BY <1>3, <1>4, <1>5, <1>6, <1>7 DEF EditKinds

\* Old backups are pruned.
LEMMA PushedIsShort ==
    ASSUME NEW s, Stack(s), Len(s) <= Keep, NEW doc
    PROVE  Len(Pushed(s, doc)) <= Keep
  <1>1. PICK S : s \in Seq(S)
    BY DEF Stack
  <1> DEFINE T == S \cup {doc}
             all == Append(s, doc)
  <1>2. s \in Seq(T)
    BY <1>1
  <1>3. all \in Seq(T) /\ Len(all) = Len(s) + 1 /\ Len(s) \in Nat /\ Keep \in Nat
    BY <1>2, CommandAssumption
  <1>4. CASE Len(all) > Keep
    <2>1. Len(Tail(all)) = Len(all) - 1
      BY <1>3
    <2> QED
      BY <1>3, <1>4, <2>1 DEF Pushed
  <1>5. CASE ~(Len(all) > Keep)
    BY <1>3, <1>5 DEF Pushed
  <1> QED
    BY <1>4, <1>5

\* An import offers what its files say.
LEMMA OfferedReads ==
    ASSUME NEW t, NEW f \in Files, NEW n \in Names
    PROVE  LET read == Offered(t)[f][n]
           IN /\ ReadFits(read)
              /\ ~read.problem
                 => read.transport = Parse(Codec(KindOf[f]).entries, t.docs[f].entries[n]).transport
  <1> DEFINE source == Source(f, t.docs[f])[n]
             read == Offered(t)[f][n]
  <1>1. ReadFits(source) /\ (~source.problem
           => source.transport = Parse(Codec(KindOf[f]).entries, t.docs[f].entries[n]).transport)
    BY SourceReads
  <1>2. read = source \/ read = Problem
    BY DEF Offered, Reads, Undecided
  <1>3. ReadFits(Problem) /\ Problem.problem = TRUE
    BY ProblemFits DEF Problem
  <1> HIDE DEF source, read
  <1> QED
    BY <1>1, <1>2, <1>3 DEF source, read

-----------------------------------------------------------------------------
(* Which steps save anything.                                               *)

Passes(p) ==
    /\ UNCHANGED <<config, stateFile>>
    /\ term'[p].pc \notin {"save edit", "save config", "save adoptions"}

LEMMA WhoSaves ==
    ASSUME CommandInv, NEW p \in Terminals, Commanded(p)
    PROVE  \/ Passes(p)
           \/ (LockForEdit(p) \/ LockToAdopt(p)) /\ ~StandsBack(p)
           \/ SaveEdit(p) \/ SaveImported(p) \/ SaveAdoptions(p) \/ FinishSync(p) \/ ClaimNames(p)
  <1>0. TermShape /\ DOMAIN docs = Files /\ KindFits(term[p])
    BY DEF CommandInv, LockInv
  <1>1. CASE StandsBack(p)
    BY <1>1 DEF StandsBack, Outside, Passes, files
  <1>2. CASE Sync(p) /\ ~StandsBack(p)
    <2>1. PlanNext(p) => Passes(p)
      BY <1>0, PlanNextDoes DEF PlansNext, Passes, files
    <2> QED
      BY <1>0, <1>2, <2>1, StartsStandBack, LockForSyncDoes DEF Sync, Passes, files
  <1>3. CASE Apply(p) /\ ~StandsBack(p)
    <2>1. Write(p) => Passes(p)
      BY <1>0, WriteDoes DEF Writes, Passes
    <2> QED
      BY <1>0, <1>3, <2>1, BackUpDoes DEF Apply, Passes, Resumes
  <1>4. CASE EditConfig(p) /\ ~StandsBack(p)
    BY <1>0, <1>4, StartsStandBack DEF EditConfig
  <1>5. CASE Import(p) /\ ~StandsBack(p)
    <2>1. Adopts(p) => Passes(p)
      BY DEF Adopts, Passes, files
    <2> QED
      BY <1>0, <1>5, <2>1, StartsStandBack, LockForImportDoes, AnswerDoes DEF Import
  <1>6. CASE Eject(p) /\ ~StandsBack(p)
    <2>1. Ejects(p) => Passes(p)
      BY DEF Ejects, Passes, files
    <2> QED
      BY <1>0, <1>6, <2>1, StartsStandBack, LockForEjectDoes, ConfirmDoes DEF Eject
  <1>7. CASE Rollback(p) /\ ~StandsBack(p)
    <2>1. RollBackNext(p) \/ PutBack(p) => Passes(p)
      BY <1>0, <1>7, RollBackNextDoes, PutBackDoes DEF Passes
    <2> QED
      BY <1>0, <1>7, <2>1, StartsStandBack, RestStandsBack DEF Rollback
  <1>8. CASE Wizard(p) /\ ~StandsBack(p)
    <2>1. Foresees(p) => Passes(p)
      BY DEF Foresees, Passes, files
    <2> QED
      BY <1>0, <1>8, <2>1, StartsStandBack, RestStandsBack, SyncStepDoes, LockToApplyDoes DEF Wizard, Resumes, Passes, files
  <1>9. CASE Crash(p)
    BY <1>0, <1>1, <1>9, RestStandsBack
  <1> QED
    BY <1>1, <1>2, <1>3, <1>4, <1>5, <1>6, <1>7, <1>8, <1>9 DEF Commanded

LEMMA AdoptingSaves ==
    ASSUME NothingIsAServer, CommandInv, SavedInv, NEW p \in Terminals, LockToAdopt(p), ~StandsBack(p)
    PROVE  Saves(p)
  <1>0. TermShape
    BY DEF CommandInv, LockInv
  <1>1. /\ term[p].pc = "adopt" /\ term'[p].pc = "save config" /\ UNCHANGED <<config, stateFile>>
        /\ term'[p].state = stateFile /\ term'[p].docs = term[p].docs
        /\ \E plan, answers, skip :
              /\ plan = PlanImport(Offered(term[p]), term[p].config.servers) /\ NamesSuffice(plan)
              /\ term'[p].imported = Imported(plan, [config |-> term[p].config, state |-> stateFile], answers, skip)
    BY <1>0, LockToAdoptDoes DEF files
  <1>2. PICK plan, answers, skip :
              /\ plan = PlanImport(Offered(term[p]), term[p].config.servers) /\ NamesSuffice(plan)
              /\ term'[p].imported = Imported(plan, [config |-> term[p].config, state |-> stateFile], answers, skip)
    BY <1>1
  <1>3. term[p].config = config /\ ConfigFits(config) /\ stateFile \in States
    BY <1>1 DEF CommandInv, LockInv, CopiesAreCurrent, Editing, SavedInv
  <1> DEFINE t == term[p]
             reads == Offered(t)
             held == [config |-> t.config, state |-> stateFile]
             cs == Candidates(reads, held.config.servers)
             left == Imported(plan, held, answers, skip)
  <1>4. \A f \in Files : \A n \in Names : ReadFits(reads[f][n])
    BY OfferedReads
  <1>5. CandidatesFit(cs, reads) /\ PlanFits(plan, cs, held.config.servers)
    BY <1>2, <1>4, CandidatesMade, PlanMade
  <1>6. ConfigFits(held.config) /\ held.state \in States /\ held.state = stateFile
    BY <1>3
  <1>7. ConfigFits(left.config) /\ left.state \in States
    <2> HIDE DEF cs, reads, held
    <2> QED
      BY <1>2, <1>5, <1>6, ImportedFits
  <1>8. ASSUME NEW f \in Files, NEW n \in Managed(left.state, f) \ Managed(stateFile, f)
        PROVE  \E c \in Known(left.config.servers) :
                  left.config.servers[c].transport = Parse(Codec(KindOf[f]).entries, t.docs[f].entries[n]).transport
    <2>1. n \in left.state.managed[f] \ held.state.managed[f]
      BY <1>6, <1>8 DEF Managed
    <2>2. /\ n \in Names /\ ~reads[f][n].problem
          /\ \E c \in Known(left.config.servers) : left.config.servers[c].transport = reads[f][n].transport
      <3>1. \A m : m \in left.state.managed[f] \ held.state.managed[f]
               => /\ m \in Names /\ ~reads[f][m].problem
                  /\ \E c \in Known(left.config.servers) : left.config.servers[c].transport = reads[f][m].transport
        <4> HIDE DEF cs, reads, held
        <4> QED
          BY <1>2, <1>5, <1>6, AdoptedIsBacked
      <3> QED
        BY <2>1, <3>1
    <2>3. reads[f][n].transport = Parse(Codec(KindOf[f]).entries, t.docs[f].entries[n]).transport
      BY <2>2, OfferedReads
    <2> HIDE DEF reads, left, t
    <2> QED
      BY <2>2, <2>3
  <1>9. term'[p].imported = left
    BY <1>2
  <1> HIDE DEF left
  <1> QED
    BY <1>1, <1>3, <1>7, <1>8, <1>9 DEF Saves, EditFits, ImportFits, Backed

LEMMA CommandSaves ==
    ASSUME NothingIsAServer, CommandInv, SavedInv, NEW p \in Terminals, Commanded(p)
    PROVE  Saves(p)
  <1>0. /\ TermShape /\ KindFits(term[p]) /\ ConfigFits(config) /\ stateFile \in States
        /\ EditFits(term[p]) /\ ImportFits(term[p])
        /\ term[p].pc = "save adoptions" => config = term[p].imported.config
        /\ term[p].pc \in Editing \ {"save adoptions"} => term[p].config = config
        /\ term[p].pc \in Running => term[p].state = stateFile
    BY DEF CommandInv, LockInv, CopiesAreCurrent, SavedInv
  <1>1. ASSUME ConfigFits(config'), stateFile' \in States,
               term'[p].pc \notin {"save edit", "save config", "save adoptions"}
        PROVE  Saves(p)
    BY <1>1 DEF Saves, EditFits, ImportFits
  <1>2. CASE Passes(p)
    BY <1>0, <1>1, <1>2 DEF Passes
  <1>3. CASE LockForEdit(p) /\ ~StandsBack(p)
    <2>1. /\ term[p].pc = "lock for edit" /\ term'[p].pc = "save edit"
          /\ term'[p].cmd = term[p].cmd /\ term'[p].config = config
          /\ term[p].cmd.kind # "scope" => MustKnow(term[p].cmd) \subseteq Known(config.servers)
          /\ UNCHANGED <<config, stateFile>>
      BY <1>0, <1>3, LockForEditDoes DEF files
    <2>2. EditFits(term'[p])
      BY <2>1 DEF EditFits, MustKnow
    <2> QED
      BY <1>0, <2>1, <2>2 DEF Saves, ImportFits
  <1>4. CASE SaveEdit(p)
    <2>1. /\ term[p].pc = "save edit" /\ term'[p].pc \in {"idle", "lock for sync"}
          /\ config' = Edited(term[p].config, term[p].cmd) /\ stateFile' = stateFile
      BY <1>0, <1>4, SaveEditDoes
    <2>2. /\ term[p].config = config /\ term[p].cmd \in Commands /\ term[p].cmd.kind \in EditKinds
          /\ term[p].cmd.kind \in {"enable", "disable", "rules"} => term[p].cmd.name \in Known(config.servers)
      BY <1>0, <2>1 DEF KindFits, EditFits, Editing
    <2>3. ConfigFits(config')
      BY <1>0, <2>1, <2>2, EditedFits
    <2> QED
      BY <1>0, <1>1, <2>1, <2>3
  <1>5. CASE LockToAdopt(p) /\ ~StandsBack(p)
    BY <1>5, AdoptingSaves
  <1>6. CASE SaveImported(p)
    <2>1. /\ term[p].pc = "save config" /\ term'[p].pc = "save adoptions" /\ term'[p].docs = term[p].docs
          /\ term'[p].state = term[p].state /\ term'[p].imported = term[p].imported
          /\ config' = term[p].imported.config /\ stateFile' = stateFile
      BY <1>0, <1>6, SaveImportedDoes DEF Resumes
    <2>2. /\ ConfigFits(term[p].imported.config) /\ term[p].imported.state \in States
          /\ \A f \in Files : Backed(Managed(term[p].imported.state, f) \ Managed(term[p].state, f), term[p], f)
      BY <1>0, <2>1 DEF ImportFits
    <2>3. ImportFits(term'[p])
      BY <2>1, <2>2 DEF ImportFits, Backed
    <2> QED
      BY <1>0, <2>1, <2>2, <2>3 DEF Saves, EditFits
  <1>7. CASE SaveAdoptions(p)
    <2>1. /\ term[p].pc = "save adoptions" /\ term'[p].pc \in {"idle", "refresh"}
          /\ stateFile' = term[p].imported.state /\ config' = config
      BY <1>0, <1>7, SaveAdoptionsDoes
    <2> QED
      BY <1>0, <1>1, <2>1 DEF ImportFits
  <1>8. CASE FinishSync(p)
    <2>1. /\ term[p].pc = "plan" /\ term'[p].pc = "idle" /\ config' = config
          /\ stateFile' \in {stateFile, [term[p].state EXCEPT !.migrated = TRUE]}
      BY <1>0, <1>8, FinishSyncDoes
    <2>2. [stateFile EXCEPT !.migrated = TRUE] \in States
      BY <1>0 DEF States
    <2> QED
      BY <1>0, <1>1, <2>1, <2>2 DEF Running
  <1>9. CASE ClaimNames(p)
    <2>1. /\ term[p].pc = "claim" /\ term'[p].pc = "write" /\ config' = config
          /\ \E f \in Turn(term[p].todo) : stateFile' = Claim(term[p].state, f, ManagedAfter(term[p].plans[f]))
      BY <1>0, <1>9, ClaimNamesDoes DEF Resumes
    <2>2. ASSUME NEW f, NEW claims \in SUBSET Names PROVE Claim(stateFile, f, claims) \in States
      BY <1>0 DEF States, Claim
    <2>3. \A f : ManagedAfter(term[p].plans[f]) \in SUBSET Names
      BY DEF ManagedAfter
    <2> QED
      BY <1>0, <1>1, <2>1, <2>2, <2>3 DEF Running
  <1> QED
    BY <1>2, <1>3, <1>4, <1>5, <1>6, <1>7, <1>8, <1>9, WhoSaves

LEMMA SavedInvStep ==
    ASSUME NothingIsAServer, CommandInv, BackupInv, SavedInv, [Next \/ Rest]_vars
    PROVE  SavedInv'
  <1>1. \A f \in Files : Len(backups'[f]) <= Keep
    <2>1. CASE backups' = backups
      BY <2>1 DEF SavedInv
    <2>2. CASE backups' # backups
      <3>1. PICK f \in Files : backups' = [backups EXCEPT ![f] = Pushed(backups[f], docs[f])]
        BY <2>2, StepOnFiles DEF Kept, Copied, Written, Copies
      <3>2. Len(Pushed(backups[f], docs[f])) <= Keep
        BY PushedIsShort DEF BackupInv, SavedInv
      <3> QED
        BY <3>1, <3>2 DEF BackupInv, SavedInv
    <2> QED
      BY <2>1, <2>2
  <1>2. CASE \E p \in Terminals : Commanded(p)
    <2>1. PICK p \in Terminals : Commanded(p)
      BY <1>2
    <2>2. Orderly(p) /\ Saves(p)
      BY <2>1, CommandsAreOrderly, CommandSaves
    <2>3. \A q \in Terminals \ {p} : term'[q] = term[q]
      BY <2>2, MovedShape DEF CommandInv, LockInv, Orderly
    <2>4. configLock' \in Terminals \cup {Nobody} /\ stateLock' \in Terminals \cup {Nobody}
      BY <2>2 DEF Orderly, Held, SavedInv
    <2>5. ASSUME NEW q \in Terminals
          PROVE  /\ EditFits(term'[q]) /\ ImportFits(term'[q])
                 /\ term'[q].pc = "save adoptions" => config' = term'[q].imported.config
      <3>1. CASE q = p
        BY <2>2, <3>1 DEF Saves
      <3>2. CASE q # p
        <4>1. term[q].pc = "save adoptions" => config' = config
          BY <2>2, <3>2 DEF Orderly, CommandInv, LockInv, LocksAreHeld, Editing
        <4> QED
          BY <2>3, <3>2, <4>1 DEF SavedInv
      <3> QED
        BY <3>1, <3>2
    <2> QED
      BY <1>1, <2>2, <2>4, <2>5 DEF SavedInv, Saves
  <1>3. CASE \E f \in Files : User(f)
    <2>1. UNCHANGED <<config, stateFile, term, configLock, stateLock>>
      BY <1>3, UserDoes
    <2> QED
      BY <1>1, <2>1 DEF SavedInv
  <1>4. CASE UNCHANGED vars
    BY <1>1, <1>4 DEF vars, files, SavedInv
  <1>5. Next \/ Rest \/ UNCHANGED vars
    OBVIOUS
  <1> QED
    BY <1>2, <1>3, <1>4, <1>5 DEF Next, Rest, Commanded

LEMMA SavedInvInit == Init => SavedInv
  <1> SUFFICES ASSUME Init PROVE SavedInv
    OBVIOUS
  <1>1. ConfigFits(config) /\ stateFile \in States
    BY CommandAssumption DEF Init
  <1>2. \A p \in Terminals : term[p].pc = "idle"
    BY IdleShape DEF Init
  <1>3. \A f \in Files : Len(backups[f]) <= Keep
    BY CommandAssumption DEF Init
  <1>4. configLock = Nobody /\ stateLock = Nobody
    BY DEF Init
  <1> QED
    BY <1>1, <1>2, <1>3, <1>4 DEF SavedInv, EditFits, ImportFits

LEMMA SavedInvHolds ==
    ASSUME NothingIsAServer
    PROVE  Spec => []SavedInv
  <1>1. CommandInv /\ BackupInv /\ SavedInv /\ [Next \/ Rest]_vars => SavedInv'
    BY SavedInvStep
  <1>2. HoldsInv => CommandInv /\ BackupInv
    BY DEF HoldsInv
  <1> QED
    BY <1>1, <1>2, SavedInvInit, HoldsInvHolds, PTL DEF Spec

\* Whatever commands ran, died or interleaved, the config holds servers, the
\* state file claims and answers of known names, a client file is a document,
\* no file has more backups than are kept, and a command in the middle of its
\* work has the lock of what it is about to write (store.rs, state.rs, backup.rs).
THEOREM CommandTypeCorrect ==
    ASSUME NothingIsAServer
    PROVE  Spec => []TypeOK
  <1>1. ASSUME HoldsInv, SavedInv PROVE TypeOK
    <2>1. \A n \in Known(config.servers) :
             /\ DOMAIN config.servers[n] = {"transport", "enabled", "rules"}
             /\ config.servers[n].transport.kind \in {"stdio", "http"}
      BY <1>1 DEF SavedInv, ConfigFits, ServerFits, TransportFits
    <2>2. /\ stateFile.managed \in [Files -> SUBSET Names]
          /\ stateFile.resolved \in [Files -> [Names -> Names \cup {Absent}]]
      BY <1>1 DEF SavedInv, States
    <2>3. \A f \in Files : docs[f].shape \in Shapes /\ Len(backups[f]) <= Keep
      BY <1>1 DEF SavedInv, HoldsInv, FileInv, FilesFit, Fits
    <2>4. \A p \in Terminals :
             /\ term[p].pc \in {"save edit", "adopt", "save config", "save adoptions"} => configLock = p
             /\ term[p].pc \in {"plan", "back up", "claim", "write", "save config", "save adoptions"} => stateLock = p
      BY <1>1 DEF HoldsInv, CommandInv, LockInv, LocksAreHeld, Editing, Running
    <2>5. configLock \in Terminals \cup {Nobody} /\ stateLock \in Terminals \cup {Nobody}
      BY <1>1 DEF SavedInv
    <2> QED
      BY <2>1, <2>2, <2>3, <2>4, <2>5 DEF TypeOK
  <1>2. HoldsInv /\ SavedInv => TypeOK
    BY <1>1
  <1> QED
    BY <1>2, HoldsInvHolds, SavedInvHolds, PTL

\* Every claim that an import adds has its server in the config by then: the
\* config is saved before the claims are, and what was planned is made again
\* from the config as it is under the lock.  A crash in between leaves servers
\* without claims, never claims without a server, which the next sync would
\* take for removals (import.rs, adopt).
THEOREM ClaimsAreBackedHolds ==
    ASSUME NothingIsAServer
    PROVE  Spec => ClaimsAreBacked
  <1> DEFINE Adopted(p, f) ==
          term[p].pc \in {"save config", "save adoptions"} /\ term'[p] # term[p]
          => \A n \in Managed(stateFile', f) \ Managed(stateFile, f) :
                LET read == Parse(Codec(KindOf[f]).entries, term[p].docs[f].entries[n])
                IN \E c \in Known(config.servers) : config.servers[c].transport = read.transport
  <1>1. ASSUME HoldsInv, SavedInv, [Next \/ Rest]_vars, NEW p \in Terminals, NEW f \in Files
        PROVE  Adopted(p, f)
    <2> SUFFICES ASSUME term[p].pc \in {"save config", "save adoptions"}, term'[p] # term[p], stateFile' # stateFile,
                        NEW n \in Managed(stateFile', f) \ Managed(stateFile, f)
                 PROVE  \E c \in Known(config.servers) :
                           config.servers[c].transport = Parse(Codec(KindOf[f]).entries, term[p].docs[f].entries[n]).transport
      OBVIOUS
    <2>0. CommandInv /\ TermShape
      BY <1>1 DEF HoldsInv, CommandInv, LockInv
    <2>1. PICK q \in Terminals : Commanded(q)
      <3>1. ~UNCHANGED vars
        BY DEF vars
      <3>2. \A g \in Files : ~User(g)
        BY UserDoes
      <3> QED
        BY <1>1, <3>1, <3>2 DEF Next, Rest, Commanded
    <2>2. p = q
      <3>1. \A r \in Terminals \ {q} : term'[r] = term[r]
        BY <2>0, <2>1, CommandsAreOrderly, MovedShape DEF Orderly
      <3> QED
        BY <3>1
    <2>3. SaveAdoptions(p)
      <3>1. ~Passes(p)
        BY DEF Passes
      <3>2. ~LockForEdit(p) /\ ~LockToAdopt(p) /\ ~SaveEdit(p) /\ ~FinishSync(p) /\ ~ClaimNames(p)
        BY DEF LockForEdit, LockToAdopt, SaveEdit, FinishSync, ClaimNames, At
      <3>3. ~SaveImported(p)
        BY DEF SaveImported
      <3> QED
        BY <2>0, <2>1, <2>2, <3>1, <3>2, <3>3, WhoSaves
    <2>4. term[p].pc = "save adoptions" /\ stateFile' = term[p].imported.state
      BY <2>0, <2>3, SaveAdoptionsDoes
    <2>5. term[p].state = stateFile /\ config = term[p].imported.config
      BY <1>1, <2>0, <2>4 DEF CommandInv, LockInv, CopiesAreCurrent, Running, SavedInv
    <2>6. Backed(Managed(term[p].imported.state, f) \ Managed(term[p].state, f), term[p], f)
      BY <1>1, <2>4 DEF SavedInv, ImportFits
    <2> QED
      BY <2>4, <2>5, <2>6 DEF Backed
  <1>2. HoldsInv /\ SavedInv /\ [Next \/ Rest]_vars => \A p \in Terminals : \A f \in Files : Adopted(p, f)
    BY <1>1
  <1>3. Spec => [][\A p \in Terminals : \A f \in Files : Adopted(p, f)]_vars
    <2> HIDE DEF Adopted
    <2> QED
      BY <1>2, HoldsInvHolds, SavedInvHolds, PTL DEF Spec
  <1> QED
    BY <1>3 DEF ClaimsAreBacked

\* Whatever a command saves, every client can be given and gives back: the entry
\* that is emitted for a server, or for its gateway address, reads as that again
\* in each of the schemas, and the headers helper does so where the client has
\* one if and only if no argument of it has a blank (codec.rs, per client).
THEOREM SavedReadsBackHolds ==
    ASSUME NothingIsAnObject, NothingIsAServer
    PROVE  Spec => SavedReadsBack
  <1> DEFINE Back == config' # config
       => \A n \in Known(config'.servers) : \A kind \in ClientKind :
             \A transport \in Emitted(kind, n, config'.servers[n]) : ReadsBack(Codec(kind).entries, transport)
  <1>1. ASSUME SavedInv' PROVE Back
    <2>1. ConfigFits(config')
      BY <1>1 DEF SavedInv
    <2> QED
      BY <2>1, ConfigReadsBack
  <1>2. SavedInv' => [Back]_vars
    BY <1>1
  <1>3. Spec => [][Back]_vars
    <2> HIDE DEF Back
    <2> QED
      BY <1>2, SavedInvHolds, PTL
  <1> QED
    BY <1>3 DEF SavedReadsBack
===============================================================================
