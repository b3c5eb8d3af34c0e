------------------------ MODULE UpstreamManagerProofs ------------------------
(* What the upstream manager guarantees for any number of servers, demands  *)
(* and reloads: proofs about UpstreamManager.                               *)
EXTENDS UpstreamManager, TLAPS

Started == {"register", "inspect", "parking", "parked", "ladder", "landing", "settle",
            "calling", "release", "demote"}
BeforeClaim == {"new", "register", "inspect", "parking", "parked"}
Running == {"ladder", "landing"}

\* The map holds entries made for their own name, each with its Server.
MapIsServed ==
    \A n \in Names : upstreams[n] # NoEntry =>
        NameOf(upstreams[n]) = n /\ server[upstreams[n]] \in Servers

\* A demand that got past the lookup has an entry.
EntryKnown == \A d \in Demands : pc[d] \in Started => at[d] \in Entries

\* The witness of a claim is true exactly while its ladder is being polled.
WitnessIsLadder == \A d \in Demands : d \in live <=> pc[d] \in Running

\* A slot only names demands that claimed it, a ready one those that landed.
SlotNamesClaimant ==
    \A e \in Entries :
        /\ slot[e].state = "connecting" =>
              /\ slot[e].by \in Demands /\ at[slot[e].by] = e
              /\ pc[slot[e].by] \notin BeforeClaim
        /\ slot[e].state = "ready" =>
              /\ slot[e].by \in Demands
              /\ pc[slot[e].by] \notin BeforeClaim \cup Running

\* A ladder still has its slot until somebody takes it away...
LadderOwnsSlot ==
    \A d \in Demands \ disowned : pc[d] \in Running => slot[at[d]] = Connecting(d)

\* ... and once it was taken away no slot names that ladder again.
DisownedIsForgotten ==
    \A d \in disowned :
        /\ pc[d] \notin BeforeClaim
        /\ \A e \in Entries : slot[e] # Connecting(d) /\ slot[e] # Ready(d)

\* The entry whose slot retire is about to take has its flag set.
RetiringIsFlagged == reload.step = "slot" => reload.entry \in retired

IInv == /\ TypeOK /\ MapIsServed /\ EntryKnown /\ WitnessIsLadder /\ SlotNamesClaimant
        /\ LadderOwnsSlot /\ DisownedIsForgotten
        /\ NoStrandedWaiter /\ RetiredHoldsNothing /\ RetiringIsFlagged

-----------------------------------------------------------------------------
(* Types.                                                                   *)

\* The values a slot is given are slots.
LEMMA SlotValues ==
    /\ Idle \in Slots /\ Failed \in Slots /\ AuthRequired \in Slots
    /\ \A d \in Demands : Connecting(d) \in Slots /\ Ready(d) \in Slots
  BY DEF Slots, SlotStates, Idle, Failed, AuthRequired, Connecting, Ready

\* The name of an entry is a name of the config.
LEMMA EntryNames == \A e \in Entries : NameOf(e) \in Names
  BY DEF Entries, NameOf

LEMMA InitTypeOK == Init => TypeOK
  <1> SUFFICES ASSUME Init PROVE TypeOK
    OBVIOUS
  <1>1. PICK cfg \in Configs :
          /\ upstreams = [n \in Names |-> IF cfg[n] = NoServer THEN NoEntry ELSE << n, 0 >>]
          /\ server = [e \in Entries |-> IF e[2] = 0 THEN cfg[NameOf(e)] ELSE NoServer]
    BY DEF Init
  <1>2. \A n \in Names : cfg[n] \in Servers \cup {NoServer} /\ << n, 0 >> \in Entries
    BY UpstreamAssumption DEF Configs, Entries
  <1>3. upstreams \in [Names -> Entries \cup {NoEntry}]
    BY <1>1, <1>2
  <1>4. server \in [Entries -> Servers \cup {NoServer}]
    BY <1>1, <1>2, EntryNames
  <1>5. slot \in [Entries -> Slots]
    BY SlotValues DEF Init
  <1>6. QED
    BY <1>3, <1>4, <1>5, UpstreamAssumption
    DEF Init, TypeOK, PCs, Outcomes

LEMMA NextTypeOK ==
    TypeOK /\ MapIsServed /\ EntryKnown /\ SlotNamesClaimant /\ [Next]_vars => TypeOK'
  <1> SUFFICES ASSUME TypeOK, MapIsServed, EntryKnown, SlotNamesClaimant, [Next]_vars
               PROVE  TypeOK'
    OBVIOUS
  <1> USE DEF TypeOK, manager, demand, Goto, PCs, Outcomes
  <1>1. ASSUME NEW d \in Demands, NEW n \in Names, Lookup(d, n) PROVE TypeOK'
    BY <1>1 DEF Lookup, Servers, MapIsServed
  <1>2. ASSUME NEW d \in Demands, Register(d) PROVE TypeOK'
    BY <1>2 DEF Register
  <1>3. ASSUME NEW d \in Demands, FindRetired(d) PROVE TypeOK'
    BY <1>3 DEF FindRetired
  <1>4. ASSUME NEW d \in Demands, FindLive(d) PROVE TypeOK'
    BY <1>4 DEF FindLive, Started, EntryKnown, Slots
  <1>5. ASSUME NEW d \in Demands, FindClaimed(d) PROVE TypeOK'
    BY <1>5 DEF FindClaimed
  <1>6. ASSUME NEW d \in Demands, Claim(d) PROVE TypeOK'
    <2>1. slot' \in [Entries -> Slots]
      BY <1>6, SlotValues DEF Claim
    <2>2. left' \in [Demands -> 0 .. Attempts]
      BY <1>6, UpstreamAssumption DEF Claim, Rungs
    <2>3. QED
      BY <1>6, <2>1, <2>2 DEF Claim
  <1>7. ASSUME NEW d \in Demands, Park(d) \/ Wake(d) PROVE TypeOK'
    BY <1>7 DEF Park, Wake
  <1>8. ASSUME NEW d \in Demands, Dial(d) PROVE TypeOK'
    BY <1>8, UpstreamAssumption DEF Dial, DialReturns
  <1>9. ASSUME NEW d \in Demands, Land(d) PROVE TypeOK'
    BY <1>9, SlotValues DEF Land
  <1>10. ASSUME NEW d \in Demands, Settle(d) PROVE TypeOK'
    BY <1>10 DEF Settle, Wakes, Registered
  <1>11. ASSUME NEW d \in Demands, Answer(d) PROVE TypeOK'
    BY <1>11 DEF Answer
  <1>12. ASSUME NEW d \in Demands, CallFails(d) PROVE TypeOK'
    BY <1>12 DEF CallFails
  <1>13. ASSUME NEW d \in Demands, Report(d) PROVE TypeOK'
    BY <1>13, SlotValues DEF Report, Holds
  <1>14. ASSUME NEW d \in Demands, HangUp(d) PROVE TypeOK'
    BY <1>14 DEF HangUp
  <1>15. ASSUME NEW d \in Demands, HangUpOnLadder(d) PROVE TypeOK'
    BY <1>15 DEF HangUpOnLadder, Revoke
  <1>16. ASSUME NEW d \in Demands, ChildDies(d) PROVE TypeOK'
    BY <1>16 DEF ChildDies
  <1>17. ASSUME NEW cfg \in Configs, Apply(cfg) PROVE TypeOK'
    <2>1. \A n \in Names : NextEntry(cfg, n) \in Entries \cup {NoEntry}
      BY <1>17, UpstreamAssumption DEF Apply, NextEntry, Entries
    <2>2. upstreams' \in [Names -> Entries \cup {NoEntry}]
      BY <1>17, <2>1 DEF Apply
    <2>3. server' \in [Entries -> Servers \cup {NoServer}]
      BY <1>17, EntryNames DEF Apply, Configs
    <2>4. reload' \in [step : {"next", "slot", "notify"},
                       entry : Entries \cup {NoEntry}, todo : SUBSET Entries]
      BY <1>17 DEF Apply, Stopped, Replaced, Removed
    <2>5. reloads' \in 0 .. MaxReloads
      BY <1>17, UpstreamAssumption DEF Apply
    <2>6. QED
      BY <1>17, <2>2, <2>3, <2>4, <2>5 DEF Apply
  <1>18. ASSUME NEW e \in Entries, RetireFlag(e) PROVE TypeOK'
    BY <1>18 DEF RetireFlag
  <1>19. ASSUME RetireSlot PROVE TypeOK'
    BY <1>19, SlotValues DEF RetireSlot, Climbing
  <1>20. ASSUME RetireNotify PROVE TypeOK'
    BY <1>20 DEF RetireNotify, Wakes, Registered
  <1>21. ASSUME ShutDown PROVE TypeOK'
    BY <1>21 DEF ShutDown, Entered
  <1>22. ASSUME NEW e \in Entries, ShutDownSlot(e) PROVE TypeOK'
    <2>1. dead' \subseteq Demands
      BY <1>22 DEF ShutDownSlot, SlotNamesClaimant
    <2>2. QED
      BY <1>22, <2>1, SlotValues DEF ShutDownSlot, Climbing
  <1>23. ASSUME ShutDownNotify PROVE TypeOK'
    BY <1>23 DEF ShutDownNotify, Wakes, Registered
  <1>24. CASE UNCHANGED vars
    BY <1>24 DEF vars
  <1>25. QED
    BY <1>1, <1>2, <1>3, <1>4, <1>5, <1>6, <1>7, <1>8, <1>9, <1>10, <1>11, <1>12,
       <1>13, <1>14, <1>15, <1>16, <1>17, <1>18, <1>19, <1>20, <1>21, <1>22, <1>23, <1>24
    DEF Next, Task, Retire, Sweep

-----------------------------------------------------------------------------
(* The parts of the inductive invariant.                                    *)

\* Only an apply writes the map or an entry's Server.
LEMMA NextMapIsServed == TypeOK /\ MapIsServed /\ [Next]_vars => MapIsServed'
  <1> SUFFICES ASSUME TypeOK, MapIsServed, [Next]_vars PROVE MapIsServed'
    OBVIOUS
  <1>1. ASSUME NEW cfg \in Configs, Apply(cfg) PROVE MapIsServed'
    <2> SUFFICES ASSUME NEW n \in Names, upstreams'[n] # NoEntry
                 PROVE  NameOf(upstreams'[n]) = n /\ server'[upstreams'[n]] \in Servers
      BY DEF MapIsServed
    <2> DEFINE e == NextEntry(cfg, n)
    <2>1. upstreams'[n] = e /\ e # NoEntry
      BY <1>1 DEF Apply
    <2>2. cfg[n] \in Servers
      BY <2>1 DEF Configs, NextEntry
    <2>3. NameOf(e) = n
      BY <2>1 DEF NextEntry, NameOf, MapIsServed
    <2>4. e \in Entries
      BY <1>1, <2>1, UpstreamAssumption DEF Apply, NextEntry, Entries, TypeOK
    <2>5. server'[e] = cfg[n]
      BY <1>1, <2>2, <2>3, <2>4, NoServerIsNone DEF Apply
    <2>6. QED
      BY <2>1, <2>2, <2>3, <2>5
  <1>2. CASE UNCHANGED << upstreams, server >>
    BY <1>2 DEF MapIsServed
  <1>3. QED
    BY <1>1, <1>2
    DEF Next, Task, Retire, Sweep, vars, manager, Lookup, Register, FindRetired,
        FindLive, FindClaimed, Claim, Park, Wake, Dial, Land, Settle, Answer, CallFails,
        Report, HangUp, HangUpOnLadder, ChildDies, RetireFlag, RetireSlot,
        RetireNotify, ShutDown, ShutDownSlot, ShutDownNotify
\* A demand gets its entry at the lookup and keeps it.
LEMMA NextEntryKnown ==
    TypeOK /\ EntryKnown /\ [Next]_vars => EntryKnown'
  <1> SUFFICES ASSUME TypeOK, EntryKnown, [Next]_vars PROVE EntryKnown'
    OBVIOUS
  <1> USE DEF TypeOK, EntryKnown, Started, PCs, manager, demand, Goto
  <1>1. ASSUME NEW d \in Demands, NEW n \in Names, Lookup(d, n) PROVE EntryKnown'
    BY <1>1 DEF Lookup
  <1>2. ASSUME NEW d \in Demands, Register(d) PROVE EntryKnown'
    BY <1>2 DEF Register
  <1>3. ASSUME NEW d \in Demands, FindRetired(d) PROVE EntryKnown'
    BY <1>3 DEF FindRetired
  <1>4. ASSUME NEW d \in Demands, FindLive(d) PROVE EntryKnown'
    BY <1>4 DEF FindLive
  <1>5. ASSUME NEW d \in Demands, FindClaimed(d) PROVE EntryKnown'
    BY <1>5 DEF FindClaimed
  <1>6. ASSUME NEW d \in Demands, Claim(d) PROVE EntryKnown'
    BY <1>6 DEF Claim
  <1>7. ASSUME NEW d \in Demands, Park(d) \/ Wake(d) PROVE EntryKnown'
    BY <1>7 DEF Park, Wake
  <1>8. ASSUME NEW d \in Demands, Dial(d) PROVE EntryKnown'
    BY <1>8 DEF Dial, DialReturns
  <1>9. ASSUME NEW d \in Demands, Land(d) PROVE EntryKnown'
    BY <1>9 DEF Land
  <1>10. ASSUME NEW d \in Demands, Settle(d) PROVE EntryKnown'
    BY <1>10 DEF Settle
  <1>11. ASSUME NEW d \in Demands, Answer(d) PROVE EntryKnown'
    BY <1>11 DEF Answer
  <1>12. ASSUME NEW d \in Demands, CallFails(d) PROVE EntryKnown'
    BY <1>12 DEF CallFails
  <1>13. ASSUME NEW d \in Demands, Report(d) PROVE EntryKnown'
    BY <1>13 DEF Report, Holds
  <1>14. ASSUME NEW d \in Demands, HangUp(d) PROVE EntryKnown'
    BY <1>14 DEF HangUp
  <1>15. ASSUME NEW d \in Demands, HangUpOnLadder(d) PROVE EntryKnown'
    BY <1>15 DEF HangUpOnLadder, Revoke
  <1>16. ASSUME NEW d \in Demands, ChildDies(d) PROVE EntryKnown'
    BY <1>16 DEF ChildDies
  <1>17. ASSUME NEW cfg \in Configs, Apply(cfg) PROVE EntryKnown'
    BY <1>17 DEF Apply
  <1>18. ASSUME NEW e \in Entries, RetireFlag(e) PROVE EntryKnown'
    BY <1>18 DEF RetireFlag
  <1>19. ASSUME RetireSlot PROVE EntryKnown'
    BY <1>19 DEF RetireSlot
  <1>20. ASSUME RetireNotify PROVE EntryKnown'
    BY <1>20 DEF RetireNotify
  <1>21. ASSUME ShutDown PROVE EntryKnown'
    BY <1>21 DEF ShutDown
  <1>22. ASSUME NEW e \in Entries, ShutDownSlot(e) PROVE EntryKnown'
    BY <1>22 DEF ShutDownSlot
  <1>23. ASSUME ShutDownNotify PROVE EntryKnown'
    BY <1>23 DEF ShutDownNotify
  <1>24. CASE UNCHANGED vars
    BY <1>24 DEF vars
  <1>25. QED
    BY <1>1, <1>2, <1>3, <1>4, <1>5, <1>6, <1>7, <1>8, <1>9, <1>10, <1>11, <1>12,
       <1>13, <1>14, <1>15, <1>16, <1>17, <1>18, <1>19, <1>20, <1>21, <1>22, <1>23, <1>24
    DEF Next, Task, Retire, Sweep

\* Claims set the witness, landings and hang-ups clear it.
LEMMA NextWitnessIsLadder ==
    TypeOK /\ WitnessIsLadder /\ [Next]_vars => WitnessIsLadder'
  <1> SUFFICES ASSUME TypeOK, WitnessIsLadder, [Next]_vars PROVE WitnessIsLadder'
    OBVIOUS
  <1> USE DEF TypeOK, WitnessIsLadder, Running, PCs, manager, demand, Goto
  <1>1. ASSUME NEW d \in Demands, NEW n \in Names, Lookup(d, n) PROVE WitnessIsLadder'
    BY <1>1 DEF Lookup
  <1>2. ASSUME NEW d \in Demands, Register(d) PROVE WitnessIsLadder'
    BY <1>2 DEF Register
  <1>3. ASSUME NEW d \in Demands, FindRetired(d) PROVE WitnessIsLadder'
    BY <1>3 DEF FindRetired
  <1>4. ASSUME NEW d \in Demands, FindLive(d) PROVE WitnessIsLadder'
    BY <1>4 DEF FindLive
  <1>5. ASSUME NEW d \in Demands, FindClaimed(d) PROVE WitnessIsLadder'
    BY <1>5 DEF FindClaimed
  <1>6. ASSUME NEW d \in Demands, Claim(d) PROVE WitnessIsLadder'
    BY <1>6 DEF Claim
  <1>7. ASSUME NEW d \in Demands, Park(d) \/ Wake(d) PROVE WitnessIsLadder'
    BY <1>7 DEF Park, Wake
  <1>8. ASSUME NEW d \in Demands, Dial(d) PROVE WitnessIsLadder'
    BY <1>8 DEF Dial, DialReturns
  <1>9. ASSUME NEW d \in Demands, Land(d) PROVE WitnessIsLadder'
    BY <1>9 DEF Land
  <1>10. ASSUME NEW d \in Demands, Settle(d) PROVE WitnessIsLadder'
    BY <1>10 DEF Settle
  <1>11. ASSUME NEW d \in Demands, Answer(d) PROVE WitnessIsLadder'
    BY <1>11 DEF Answer
  <1>12. ASSUME NEW d \in Demands, CallFails(d) PROVE WitnessIsLadder'
    BY <1>12 DEF CallFails
  <1>13. ASSUME NEW d \in Demands, Report(d) PROVE WitnessIsLadder'
    BY <1>13 DEF Report, Holds
  <1>14. ASSUME NEW d \in Demands, HangUp(d) PROVE WitnessIsLadder'
    BY <1>14 DEF HangUp
  <1>15. ASSUME NEW d \in Demands, HangUpOnLadder(d) PROVE WitnessIsLadder'
    BY <1>15 DEF HangUpOnLadder, Revoke
  <1>16. ASSUME NEW d \in Demands, ChildDies(d) PROVE WitnessIsLadder'
    BY <1>16 DEF ChildDies
  <1>17. ASSUME NEW cfg \in Configs, Apply(cfg) PROVE WitnessIsLadder'
    BY <1>17 DEF Apply
  <1>18. ASSUME NEW e \in Entries, RetireFlag(e) PROVE WitnessIsLadder'
    BY <1>18 DEF RetireFlag
  <1>19. ASSUME RetireSlot PROVE WitnessIsLadder'
    BY <1>19 DEF RetireSlot
  <1>20. ASSUME RetireNotify PROVE WitnessIsLadder'
    BY <1>20 DEF RetireNotify
  <1>21. ASSUME ShutDown PROVE WitnessIsLadder'
    BY <1>21 DEF ShutDown
  <1>22. ASSUME NEW e \in Entries, ShutDownSlot(e) PROVE WitnessIsLadder'
    BY <1>22 DEF ShutDownSlot
  <1>23. ASSUME ShutDownNotify PROVE WitnessIsLadder'
    BY <1>23 DEF ShutDownNotify
  <1>24. CASE UNCHANGED vars
    BY <1>24 DEF vars
  <1>25. QED
    BY <1>1, <1>2, <1>3, <1>4, <1>5, <1>6, <1>7, <1>8, <1>9, <1>10, <1>11, <1>12,
       <1>13, <1>14, <1>15, <1>16, <1>17, <1>18, <1>19, <1>20, <1>21, <1>22, <1>23, <1>24
    DEF Next, Task, Retire, Sweep

\* Slots are only ever given to the demand that claims or lands.
LEMMA NextSlotNamesClaimant ==
    TypeOK /\ EntryKnown /\ SlotNamesClaimant /\ [Next]_vars => SlotNamesClaimant'
  <1> SUFFICES ASSUME TypeOK, EntryKnown, SlotNamesClaimant, [Next]_vars PROVE SlotNamesClaimant'
    OBVIOUS
  <1> USE DEF TypeOK, EntryKnown, SlotNamesClaimant, Started, BeforeClaim, Running, PCs, manager, demand, Goto,
             Idle, Failed, AuthRequired, Connecting, Ready
  <1>1. ASSUME NEW d \in Demands, NEW n \in Names, Lookup(d, n) PROVE SlotNamesClaimant'
    BY <1>1 DEF Lookup
  <1>2. ASSUME NEW d \in Demands, Register(d) PROVE SlotNamesClaimant'
    BY <1>2 DEF Register
  <1>3. ASSUME NEW d \in Demands, FindRetired(d) PROVE SlotNamesClaimant'
    BY <1>3 DEF FindRetired
  <1>4. ASSUME NEW d \in Demands, FindLive(d) PROVE SlotNamesClaimant'
    BY <1>4 DEF FindLive
  <1>5. ASSUME NEW d \in Demands, FindClaimed(d) PROVE SlotNamesClaimant'
    BY <1>5 DEF FindClaimed
  <1>6. ASSUME NEW d \in Demands, Claim(d) PROVE SlotNamesClaimant'
    BY <1>6 DEF Claim
  <1>7. ASSUME NEW d \in Demands, Park(d) \/ Wake(d) PROVE SlotNamesClaimant'
    BY <1>7 DEF Park, Wake
  <1>8. ASSUME NEW d \in Demands, Dial(d) PROVE SlotNamesClaimant'
    BY <1>8 DEF Dial, DialReturns
  <1>9. ASSUME NEW d \in Demands, Land(d) PROVE SlotNamesClaimant'
    BY <1>9 DEF Land
  <1>10. ASSUME NEW d \in Demands, Settle(d) PROVE SlotNamesClaimant'
    BY <1>10 DEF Settle
  <1>11. ASSUME NEW d \in Demands, Answer(d) PROVE SlotNamesClaimant'
    BY <1>11 DEF Answer
  <1>12. ASSUME NEW d \in Demands, CallFails(d) PROVE SlotNamesClaimant'
    BY <1>12 DEF CallFails
  <1>13. ASSUME NEW d \in Demands, Report(d) PROVE SlotNamesClaimant'
    BY <1>13 DEF Report, Holds
  <1>14. ASSUME NEW d \in Demands, HangUp(d) PROVE SlotNamesClaimant'
    BY <1>14 DEF HangUp
  <1>15. ASSUME NEW d \in Demands, HangUpOnLadder(d) PROVE SlotNamesClaimant'
    BY <1>15 DEF HangUpOnLadder, Revoke
  <1>16. ASSUME NEW d \in Demands, ChildDies(d) PROVE SlotNamesClaimant'
    BY <1>16 DEF ChildDies
  <1>17. ASSUME NEW cfg \in Configs, Apply(cfg) PROVE SlotNamesClaimant'
    BY <1>17 DEF Apply
  <1>18. ASSUME NEW e \in Entries, RetireFlag(e) PROVE SlotNamesClaimant'
    BY <1>18 DEF RetireFlag
  <1>19. ASSUME RetireSlot PROVE SlotNamesClaimant'
    BY <1>19 DEF RetireSlot
  <1>20. ASSUME RetireNotify PROVE SlotNamesClaimant'
    BY <1>20 DEF RetireNotify
  <1>21. ASSUME ShutDown PROVE SlotNamesClaimant'
    BY <1>21 DEF ShutDown
  <1>22. ASSUME NEW e \in Entries, ShutDownSlot(e) PROVE SlotNamesClaimant'
    BY <1>22 DEF ShutDownSlot
  <1>23. ASSUME ShutDownNotify PROVE SlotNamesClaimant'
    BY <1>23 DEF ShutDownNotify
  <1>24. CASE UNCHANGED vars
    BY <1>24 DEF vars
  <1>25. QED
    BY <1>1, <1>2, <1>3, <1>4, <1>5, <1>6, <1>7, <1>8, <1>9, <1>10, <1>11, <1>12,
       <1>13, <1>14, <1>15, <1>16, <1>17, <1>18, <1>19, <1>20, <1>21, <1>22, <1>23, <1>24
    DEF Next, Task, Retire, Sweep
\* A claim is only overwritten when its witness is false, and landings and
\* reports leave the claims of others alone.
LEMMA NextLadderOwnsSlot ==
    TypeOK /\ EntryKnown /\ WitnessIsLadder /\ SlotNamesClaimant /\ LadderOwnsSlot /\ [Next]_vars
        => LadderOwnsSlot'
  <1> SUFFICES ASSUME TypeOK, EntryKnown, WitnessIsLadder, SlotNamesClaimant, LadderOwnsSlot, [Next]_vars
               PROVE  LadderOwnsSlot'
    OBVIOUS
  <1> USE DEF TypeOK, EntryKnown, WitnessIsLadder, SlotNamesClaimant, LadderOwnsSlot,
             Started, BeforeClaim, Running, PCs, manager, demand, Goto,
             Idle, Failed, AuthRequired, Connecting, Ready
  <1>1. ASSUME NEW d \in Demands, NEW n \in Names, Lookup(d, n) PROVE LadderOwnsSlot'
    BY <1>1 DEF Lookup
  <1>2. ASSUME NEW d \in Demands, Register(d) PROVE LadderOwnsSlot'
    BY <1>2 DEF Register
  <1>3. ASSUME NEW d \in Demands, FindRetired(d) PROVE LadderOwnsSlot'
    BY <1>3 DEF FindRetired
  <1>4. ASSUME NEW d \in Demands, FindLive(d) PROVE LadderOwnsSlot'
    BY <1>4 DEF FindLive
  <1>5. ASSUME NEW d \in Demands, FindClaimed(d) PROVE LadderOwnsSlot'
    BY <1>5 DEF FindClaimed
  <1>6. ASSUME NEW d \in Demands, Claim(d) PROVE LadderOwnsSlot'
    BY <1>6 DEF Claim, Claimed, Serving, Retired, Rungs
  <1>7. ASSUME NEW d \in Demands, Park(d) \/ Wake(d) PROVE LadderOwnsSlot'
    BY <1>7 DEF Park, Wake
  <1>8. ASSUME NEW d \in Demands, Dial(d) PROVE LadderOwnsSlot'
    BY <1>8 DEF Dial, DialReturns
  <1>9. ASSUME NEW d \in Demands, Land(d) PROVE LadderOwnsSlot'
    BY <1>9 DEF Land, Abandoned, Retired
  <1>10. ASSUME NEW d \in Demands, Settle(d) PROVE LadderOwnsSlot'
    BY <1>10 DEF Settle
  <1>11. ASSUME NEW d \in Demands, Answer(d) PROVE LadderOwnsSlot'
    BY <1>11 DEF Answer
  <1>12. ASSUME NEW d \in Demands, CallFails(d) PROVE LadderOwnsSlot'
    BY <1>12 DEF CallFails
  <1>13. ASSUME NEW d \in Demands, Report(d) PROVE LadderOwnsSlot'
    BY <1>13 DEF Report, Holds
  <1>14. ASSUME NEW d \in Demands, HangUp(d) PROVE LadderOwnsSlot'
    BY <1>14 DEF HangUp
  <1>15. ASSUME NEW d \in Demands, HangUpOnLadder(d) PROVE LadderOwnsSlot'
    BY <1>15 DEF HangUpOnLadder, Revoke
  <1>16. ASSUME NEW d \in Demands, ChildDies(d) PROVE LadderOwnsSlot'
    BY <1>16 DEF ChildDies
  <1>17. ASSUME NEW cfg \in Configs, Apply(cfg) PROVE LadderOwnsSlot'
    BY <1>17 DEF Apply
  <1>18. ASSUME NEW e \in Entries, RetireFlag(e) PROVE LadderOwnsSlot'
    BY <1>18 DEF RetireFlag
  <1>19. ASSUME RetireSlot PROVE LadderOwnsSlot'
    BY <1>19 DEF RetireSlot, Climbing
  <1>20. ASSUME RetireNotify PROVE LadderOwnsSlot'
    BY <1>20 DEF RetireNotify
  <1>21. ASSUME ShutDown PROVE LadderOwnsSlot'
    BY <1>21 DEF ShutDown
  <1>22. ASSUME NEW e \in Entries, ShutDownSlot(e) PROVE LadderOwnsSlot'
    BY <1>22 DEF ShutDownSlot, Climbing
  <1>23. ASSUME ShutDownNotify PROVE LadderOwnsSlot'
    BY <1>23 DEF ShutDownNotify
  <1>24. CASE UNCHANGED vars
    BY <1>24 DEF vars
  <1>25. QED
    BY <1>1, <1>2, <1>3, <1>4, <1>5, <1>6, <1>7, <1>8, <1>9, <1>10, <1>11, <1>12,
       <1>13, <1>14, <1>15, <1>16, <1>17, <1>18, <1>19, <1>20, <1>21, <1>22, <1>23, <1>24
    DEF Next, Task, Retire, Sweep

\* A demand claims once, so a claim that was taken away never comes back.
LEMMA NextDisownedIsForgotten ==
    TypeOK /\ EntryKnown /\ SlotNamesClaimant /\ DisownedIsForgotten /\ [Next]_vars
        => DisownedIsForgotten'
  <1> SUFFICES ASSUME TypeOK, EntryKnown, SlotNamesClaimant, DisownedIsForgotten, [Next]_vars
               PROVE  DisownedIsForgotten'
    OBVIOUS
  <1> USE DEF TypeOK, EntryKnown, SlotNamesClaimant, DisownedIsForgotten,
             Started, BeforeClaim, Running, PCs, manager, demand, Goto,
             Idle, Failed, AuthRequired, Connecting, Ready
  <1>1. ASSUME NEW d \in Demands, NEW n \in Names, Lookup(d, n) PROVE DisownedIsForgotten'
    BY <1>1 DEF Lookup
  <1>2. ASSUME NEW d \in Demands, Register(d) PROVE DisownedIsForgotten'
    BY <1>2 DEF Register
  <1>3. ASSUME NEW d \in Demands, FindRetired(d) PROVE DisownedIsForgotten'
    BY <1>3 DEF FindRetired
  <1>4. ASSUME NEW d \in Demands, FindLive(d) PROVE DisownedIsForgotten'
    BY <1>4 DEF FindLive
  <1>5. ASSUME NEW d \in Demands, FindClaimed(d) PROVE DisownedIsForgotten'
    BY <1>5 DEF FindClaimed
  <1>6. ASSUME NEW d \in Demands, Claim(d) PROVE DisownedIsForgotten'
    BY <1>6 DEF Claim, Claimed, Serving, Retired, Rungs
  <1>7. ASSUME NEW d \in Demands, Park(d) \/ Wake(d) PROVE DisownedIsForgotten'
    BY <1>7 DEF Park, Wake
  <1>8. ASSUME NEW d \in Demands, Dial(d) PROVE DisownedIsForgotten'
    BY <1>8 DEF Dial, DialReturns
  <1>9. ASSUME NEW d \in Demands, Land(d) PROVE DisownedIsForgotten'
    BY <1>9 DEF Land, Abandoned, Retired
  <1>10. ASSUME NEW d \in Demands, Settle(d) PROVE DisownedIsForgotten'
    BY <1>10 DEF Settle
  <1>11. ASSUME NEW d \in Demands, Answer(d) PROVE DisownedIsForgotten'
    BY <1>11 DEF Answer
  <1>12. ASSUME NEW d \in Demands, CallFails(d) PROVE DisownedIsForgotten'
    BY <1>12 DEF CallFails
  <1>13. ASSUME NEW d \in Demands, Report(d) PROVE DisownedIsForgotten'
    BY <1>13 DEF Report, Holds
  <1>14. ASSUME NEW d \in Demands, HangUp(d) PROVE DisownedIsForgotten'
    BY <1>14 DEF HangUp
  <1>15. ASSUME NEW d \in Demands, HangUpOnLadder(d) PROVE DisownedIsForgotten'
    BY <1>15 DEF HangUpOnLadder, Revoke
  <1>16. ASSUME NEW d \in Demands, ChildDies(d) PROVE DisownedIsForgotten'
    BY <1>16 DEF ChildDies
  <1>17. ASSUME NEW cfg \in Configs, Apply(cfg) PROVE DisownedIsForgotten'
    BY <1>17 DEF Apply
  <1>18. ASSUME NEW e \in Entries, RetireFlag(e) PROVE DisownedIsForgotten'
    BY <1>18 DEF RetireFlag
  <1>19. ASSUME RetireSlot PROVE DisownedIsForgotten'
    BY <1>19 DEF RetireSlot, Climbing
  <1>20. ASSUME RetireNotify PROVE DisownedIsForgotten'
    BY <1>20 DEF RetireNotify
  <1>21. ASSUME ShutDown PROVE DisownedIsForgotten'
    BY <1>21 DEF ShutDown
  <1>22. ASSUME NEW e \in Entries, ShutDownSlot(e) PROVE DisownedIsForgotten'
    BY <1>22 DEF ShutDownSlot, Climbing
  <1>23. ASSUME ShutDownNotify PROVE DisownedIsForgotten'
    BY <1>23 DEF ShutDownNotify
  <1>24. CASE UNCHANGED vars
    BY <1>24 DEF vars
  <1>25. QED
    BY <1>1, <1>2, <1>3, <1>4, <1>5, <1>6, <1>7, <1>8, <1>9, <1>10, <1>11, <1>12,
       <1>13, <1>14, <1>15, <1>16, <1>17, <1>18, <1>19, <1>20, <1>21, <1>22, <1>23, <1>24
    DEF Next, Task, Retire, Sweep

\* Claims and landings look at the retired flag under the slot lock.
LEMMA NextRetiredHoldsNothing ==
    TypeOK /\ EntryKnown /\ RetiredHoldsNothing /\ [Next]_vars
        => RetiredHoldsNothing'
  <1> SUFFICES ASSUME TypeOK, EntryKnown, RetiredHoldsNothing, [Next]_vars
               PROVE  RetiredHoldsNothing'
    OBVIOUS
  <1> USE DEF TypeOK, EntryKnown, RetiredHoldsNothing,
             Started, PCs, manager, demand, Goto,
             Idle, Failed, AuthRequired, Connecting, Ready
  <1>1. ASSUME NEW d \in Demands, NEW n \in Names, Lookup(d, n) PROVE RetiredHoldsNothing'
    BY <1>1 DEF Lookup
  <1>2. ASSUME NEW d \in Demands, Register(d) PROVE RetiredHoldsNothing'
    BY <1>2 DEF Register
  <1>3. ASSUME NEW d \in Demands, FindRetired(d) PROVE RetiredHoldsNothing'
    BY <1>3 DEF FindRetired
  <1>4. ASSUME NEW d \in Demands, FindLive(d) PROVE RetiredHoldsNothing'
    BY <1>4 DEF FindLive
  <1>5. ASSUME NEW d \in Demands, FindClaimed(d) PROVE RetiredHoldsNothing'
    BY <1>5 DEF FindClaimed
  <1>6. ASSUME NEW d \in Demands, Claim(d) PROVE RetiredHoldsNothing'
    BY <1>6 DEF Claim, Claimed, Serving, Retired, Rungs
  <1>7. ASSUME NEW d \in Demands, Park(d) \/ Wake(d) PROVE RetiredHoldsNothing'
    BY <1>7 DEF Park, Wake
  <1>8. ASSUME NEW d \in Demands, Dial(d) PROVE RetiredHoldsNothing'
    BY <1>8 DEF Dial, DialReturns
  <1>9. ASSUME NEW d \in Demands, Land(d) PROVE RetiredHoldsNothing'
    BY <1>9 DEF Land, Abandoned, Retired
  <1>10. ASSUME NEW d \in Demands, Settle(d) PROVE RetiredHoldsNothing'
    BY <1>10 DEF Settle
  <1>11. ASSUME NEW d \in Demands, Answer(d) PROVE RetiredHoldsNothing'
    BY <1>11 DEF Answer
  <1>12. ASSUME NEW d \in Demands, CallFails(d) PROVE RetiredHoldsNothing'
    BY <1>12 DEF CallFails
  <1>13. ASSUME NEW d \in Demands, Report(d) PROVE RetiredHoldsNothing'
    BY <1>13 DEF Report, Holds
  <1>14. ASSUME NEW d \in Demands, HangUp(d) PROVE RetiredHoldsNothing'
    BY <1>14 DEF HangUp
  <1>15. ASSUME NEW d \in Demands, HangUpOnLadder(d) PROVE RetiredHoldsNothing'
    BY <1>15 DEF HangUpOnLadder, Revoke
  <1>16. ASSUME NEW d \in Demands, ChildDies(d) PROVE RetiredHoldsNothing'
    BY <1>16 DEF ChildDies
  <1>17. ASSUME NEW cfg \in Configs, Apply(cfg) PROVE RetiredHoldsNothing'
    BY <1>17 DEF Apply
  <1>18. ASSUME NEW e \in Entries, RetireFlag(e) PROVE RetiredHoldsNothing'
    BY <1>18 DEF RetireFlag
  <1>19. ASSUME RetireSlot PROVE RetiredHoldsNothing'
    BY <1>19 DEF RetireSlot, Climbing
  <1>20. ASSUME RetireNotify PROVE RetiredHoldsNothing'
    BY <1>20 DEF RetireNotify
  <1>21. ASSUME ShutDown PROVE RetiredHoldsNothing'
    BY <1>21 DEF ShutDown
  <1>22. ASSUME NEW e \in Entries, ShutDownSlot(e) PROVE RetiredHoldsNothing'
    BY <1>22 DEF ShutDownSlot, Climbing
  <1>23. ASSUME ShutDownNotify PROVE RetiredHoldsNothing'
    BY <1>23 DEF ShutDownNotify
  <1>24. CASE UNCHANGED vars
    BY <1>24 DEF vars
  <1>25. QED
    BY <1>1, <1>2, <1>3, <1>4, <1>5, <1>6, <1>7, <1>8, <1>9, <1>10, <1>11, <1>12,
       <1>13, <1>14, <1>15, <1>16, <1>17, <1>18, <1>19, <1>20, <1>21, <1>22, <1>23, <1>24
    DEF Next, Task, Retire, Sweep

\* Whatever ends a claim leaves a notify pending on its entry, and the notify
\* reaches every demand parked there.
LEMMA NextNoStrandedWaiter ==
    TypeOK /\ EntryKnown /\ WitnessIsLadder /\ SlotNamesClaimant /\ NoStrandedWaiter /\ [Next]_vars
        => NoStrandedWaiter'
  <1> SUFFICES ASSUME TypeOK, EntryKnown, WitnessIsLadder, SlotNamesClaimant, NoStrandedWaiter, [Next]_vars
               PROVE  NoStrandedWaiter'
    OBVIOUS
  <1> USE DEF TypeOK, EntryKnown, WitnessIsLadder, SlotNamesClaimant, NoStrandedWaiter,
             WakePending, Claimed, Started, BeforeClaim, Running, PCs, manager, demand, Goto,
             Idle, Failed, AuthRequired, Connecting, Ready
  <1>1. ASSUME NEW d \in Demands, NEW n \in Names, Lookup(d, n) PROVE NoStrandedWaiter'
    BY <1>1 DEF Lookup
  <1>2. ASSUME NEW d \in Demands, Register(d) PROVE NoStrandedWaiter'
    BY <1>2 DEF Register
  <1>3. ASSUME NEW d \in Demands, FindRetired(d) PROVE NoStrandedWaiter'
    BY <1>3 DEF FindRetired
  <1>4. ASSUME NEW d \in Demands, FindLive(d) PROVE NoStrandedWaiter'
    BY <1>4 DEF FindLive
  <1>5. ASSUME NEW d \in Demands, FindClaimed(d) PROVE NoStrandedWaiter'
    BY <1>5 DEF FindClaimed
  <1>6. ASSUME NEW d \in Demands, Claim(d) PROVE NoStrandedWaiter'
    BY <1>6 DEF Claim, Claimed, Serving, Retired, Rungs
  <1>7. ASSUME NEW d \in Demands, Park(d) \/ Wake(d) PROVE NoStrandedWaiter'
    BY <1>7 DEF Park, Wake
  <1>8. ASSUME NEW d \in Demands, Dial(d) PROVE NoStrandedWaiter'
    BY <1>8 DEF Dial, DialReturns
  <1>9. ASSUME NEW d \in Demands, Land(d) PROVE NoStrandedWaiter'
    BY <1>9 DEF Land, Abandoned, Retired
  <1>10. ASSUME NEW d \in Demands, Settle(d) PROVE NoStrandedWaiter'
    BY <1>10 DEF Settle, Wakes, Registered
  <1>11. ASSUME NEW d \in Demands, Answer(d) PROVE NoStrandedWaiter'
    BY <1>11 DEF Answer
  <1>12. ASSUME NEW d \in Demands, CallFails(d) PROVE NoStrandedWaiter'
    BY <1>12 DEF CallFails
  <1>13. ASSUME NEW d \in Demands, Report(d) PROVE NoStrandedWaiter'
    BY <1>13 DEF Report, Holds
  <1>14. ASSUME NEW d \in Demands, HangUp(d) PROVE NoStrandedWaiter'
    BY <1>14 DEF HangUp
  <1>15. ASSUME NEW d \in Demands, HangUpOnLadder(d) PROVE NoStrandedWaiter'
    BY <1>15 DEF HangUpOnLadder, Revoke
  <1>16. ASSUME NEW d \in Demands, ChildDies(d) PROVE NoStrandedWaiter'
    BY <1>16 DEF ChildDies
  <1>17. ASSUME NEW cfg \in Configs, Apply(cfg) PROVE NoStrandedWaiter'
    BY <1>17 DEF Apply
  <1>18. ASSUME NEW e \in Entries, RetireFlag(e) PROVE NoStrandedWaiter'
    BY <1>18 DEF RetireFlag
  <1>19. ASSUME RetireSlot PROVE NoStrandedWaiter'
    BY <1>19 DEF RetireSlot, Climbing
  <1>20. ASSUME RetireNotify PROVE NoStrandedWaiter'
    BY <1>20 DEF RetireNotify, Wakes, Registered
  <1>21. ASSUME ShutDown PROVE NoStrandedWaiter'
    BY <1>21 DEF ShutDown
  <1>22. ASSUME NEW e \in Entries, ShutDownSlot(e) PROVE NoStrandedWaiter'
    BY <1>22 DEF ShutDownSlot, Climbing
  <1>23. ASSUME ShutDownNotify PROVE NoStrandedWaiter'
    BY <1>23 DEF ShutDownNotify, Wakes, Registered
  <1>24. CASE UNCHANGED vars
    BY <1>24 DEF vars
  <1>25. QED
    BY <1>1, <1>2, <1>3, <1>4, <1>5, <1>6, <1>7, <1>8, <1>9, <1>10, <1>11, <1>12,
       <1>13, <1>14, <1>15, <1>16, <1>17, <1>18, <1>19, <1>20, <1>21, <1>22, <1>23, <1>24
    DEF Next, Task, Retire, Sweep

\* retire sets the flag before it goes for the slot, and nothing clears it.
LEMMA NextRetiringIsFlagged ==
    TypeOK /\ RetiringIsFlagged /\ [Next]_vars => RetiringIsFlagged'
  <1> SUFFICES ASSUME TypeOK, RetiringIsFlagged, [Next]_vars
               PROVE  RetiringIsFlagged'
    OBVIOUS
  <1> USE DEF RetiringIsFlagged
  <1>1. ASSUME NEW cfg \in Configs, Apply(cfg) PROVE RetiringIsFlagged'
    BY <1>1 DEF Apply, TypeOK
  <1>2. ASSUME NEW e \in Entries, RetireFlag(e) PROVE RetiringIsFlagged'
    BY <1>2 DEF RetireFlag
  <1>3. ASSUME RetireSlot \/ RetireNotify PROVE RetiringIsFlagged'
    BY <1>3 DEF RetireSlot, RetireNotify, manager, TypeOK
  <1>4. CASE UNCHANGED << retired, reload >>
    BY <1>4
  <1>5. QED
    BY <1>1, <1>2, <1>3, <1>4
    DEF Next, Task, Retire, Sweep, vars, manager, Lookup, Register, FindRetired,
        FindLive, FindClaimed, Claim, Park, Wake, Dial, Land, Settle, Answer, CallFails,
        Report, HangUp, HangUpOnLadder, ChildDies, ShutDown, ShutDownSlot, ShutDownNotify

-----------------------------------------------------------------------------
(* The theorems.                                                            *)

LEMMA InitIInv == Init => IInv
  <1> SUFFICES ASSUME Init PROVE IInv
    OBVIOUS
  <1>1. TypeOK
    BY InitTypeOK
  <1>2. MapIsServed
    <2>1. PICK cfg \in Configs :
            /\ upstreams = [n \in Names |-> IF cfg[n] = NoServer THEN NoEntry ELSE << n, 0 >>]
            /\ server = [e \in Entries |-> IF e[2] = 0 THEN cfg[NameOf(e)] ELSE NoServer]
      BY DEF Init
    <2>2. \A n \in Names : << n, 0 >> \in Entries
      BY UpstreamAssumption DEF Entries
    <2>3. QED
      BY <2>1, <2>2 DEF MapIsServed, NameOf, Configs
  <1>3. /\ EntryKnown /\ WitnessIsLadder /\ SlotNamesClaimant
        /\ LadderOwnsSlot /\ DisownedIsForgotten
        /\ NoStrandedWaiter /\ RetiredHoldsNothing /\ RetiringIsFlagged
    BY DEF Init, RetiringIsFlagged, EntryKnown, WitnessIsLadder, SlotNamesClaimant, LadderOwnsSlot,
           DisownedIsForgotten, NoStrandedWaiter, RetiredHoldsNothing,
           Started, Running, Idle
  <1>4. QED
    BY <1>1, <1>2, <1>3 DEF IInv

LEMMA NextIInv == IInv /\ [Next]_vars => IInv'
  BY NextTypeOK, NextMapIsServed, NextEntryKnown, NextWitnessIsLadder,
     NextSlotNamesClaimant, NextLadderOwnsSlot, NextDisownedIsForgotten,
     NextNoStrandedWaiter, NextRetiredHoldsNothing, NextRetiringIsFlagged
  DEF IInv

LEMMA Inductive == Spec => []IInv
  <1>1. Init => IInv
    BY InitIInv
  <1>2. IInv /\ [Next]_vars => IInv'
    BY NextIInv
  <1>3. QED
    BY <1>1, <1>2, PTL DEF Spec

\* Every variable keeps its type, for any servers, demands and reloads.
THEOREM TypeCorrect == Spec => []TypeOK
  <1>1. IInv => TypeOK
    BY DEF IInv
  <1>2. QED
    BY <1>1, Inductive, PTL

\* No demand of upstream.rs's ready() is ever parked with nobody left to wake
\* it, whatever hangs up, fails, is retired or shut down around it.
THEOREM NoLostWakeup == Spec => []NoStrandedWaiter
  <1>1. IInv => NoStrandedWaiter
    BY DEF IInv
  <1>2. QED
    BY <1>1, Inductive, PTL

\* A claim that reads as live in status() and ready() is a ladder somebody is
\* polling: ConnectGuard leaves none behind.
THEOREM ClaimsAreRunning == Spec => []NoOrphanedClaim
  <1>1. IInv => NoOrphanedClaim
    BY DEF IInv, WitnessIsLadder, SlotNamesClaimant, NoOrphanedClaim, Claimed,
           Climbing, Running
  <1>2. QED
    BY <1>1, Inductive, PTL

\* Two ladders on one entry run at once only where a retirement or a shutdown
\* took a claim away.
THEOREM OneLadder == Spec => []SingleFlight
  <1>1. IInv => SingleFlight
    <2> SUFFICES ASSUME IInv, NEW e \in Entries,
                        NEW c \in Climbing(e) \ disowned, NEW d \in Climbing(e) \ disowned
                 PROVE  c = d
      BY DEF SingleFlight
    <2>1. slot[e] = Connecting(c) /\ slot[e] = Connecting(d)
      BY DEF IInv, LadderOwnsSlot, Climbing, Running
    <2>2. QED
      BY <2>1 DEF Connecting
  <1>2. QED
    BY <1>1, Inductive, PTL

\* What a shutdown or a retirement took away is never installed afterwards.
THEOREM DisownedDiscarded == Spec => []DisownedNeverServes
  <1>1. IInv => DisownedNeverServes
    <2> SUFFICES ASSUME IInv, NEW e \in Entries, slot[e].state = "ready"
                 PROVE  slot[e].by \notin disowned
      BY DEF DisownedNeverServes
    <2>1. slot[e] \in Slots
      BY DEF IInv, TypeOK
    <2>2. slot[e] = Ready(slot[e].by)
      BY <2>1 DEF Slots, Ready
    <2>3. QED
      BY <2>2 DEF IInv, DisownedIsForgotten
  <1>2. QED
    BY <1>1, Inductive, PTL

\* No connection is ever opened into an entry retire has emptied.
THEOREM RetiredStaysEmpty == Spec => []RetiredHoldsNothing
  <1>1. IInv => RetiredHoldsNothing
    BY DEF IInv
  <1>2. QED
    BY <1>1, Inductive, PTL

\* A connection that is not dead leaves its slot only by a retirement, by the
\* shutdown, or by the report of a request that failed through it.
THEOREM ConnectionsAreKept == Spec => HealthyConnectionKept
  <1> DEFINE Kept(e) ==
        \/ e \in retired
        \/ shutdown.step = "next" /\ e \in shutdown.todo
        \/ \E d \in Demands : /\ pc[d] \in {"release", "demote"} /\ pc'[d] = "done"
                              /\ conn[d] = slot[e].by
  <1>1. ASSUME IInv, [Next]_vars, NEW e \in Entries, Serving(e), slot'[e] # slot[e]
        PROVE  Kept(e)
    <2> USE <1>1 DEF IInv, TypeOK, Serving
    <2>1. ASSUME NEW d \in Demands, Claim(d) PROVE Kept(e)
      <3>1. at[d] = e
        BY <2>1 DEF Claim
      <3>2. QED
        BY <2>1, <3>1 DEF Claim, Serving
    <2>2. ASSUME NEW d \in Demands, Land(d) PROVE Kept(e)
      BY <2>2 DEF Land, Abandoned, Retired, Connecting
    <2>3. ASSUME NEW d \in Demands, Report(d) PROVE Kept(e)
      BY <2>3 DEF Report, Goto, Holds, Ready
    <2>4. ASSUME RetireSlot PROVE Kept(e)
      BY <2>4 DEF RetireSlot, RetiringIsFlagged
    <2>5. ASSUME NEW f \in Entries, ShutDownSlot(f) PROVE Kept(e)
      BY <2>5 DEF ShutDownSlot
    <2>6. CASE UNCHANGED slot
      BY <2>6
    <2>7. QED
      BY <2>1, <2>2, <2>3, <2>4, <2>5, <2>6
      DEF Next, Task, Retire, Sweep, vars, manager, Lookup, Register, FindRetired,
          FindLive, FindClaimed, Park, Wake, Dial, Settle, Answer, CallFails, HangUp,
          HangUpOnLadder, ChildDies, Apply, RetireFlag, RetireNotify, ShutDown,
          ShutDownNotify
  <1>2. IInv /\ [Next]_vars =>
          [\A e \in Entries : Serving(e) /\ slot'[e] # slot[e] => Kept(e)]_vars
    BY <1>1
  <1>3. QED
    BY <1>2, Inductive, PTL DEF Spec, HealthyConnectionKept
=============================================================================
