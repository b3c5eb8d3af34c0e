------------------------- MODULE UpstreamReloadProofs -------------------------
(* What a config reload does to the connections of the upstream manager:    *)
(* nothing it takes out of the map is left running, nothing it leaves there  *)
(* goes over an old transport, and no request in flight is cut off.  Built  *)
(* on the inductive invariant IInv of UpstreamManagerProofs.                 *)
EXTENDS UpstreamManagerProofs

\* An entry is under retirement from its flag to its notify.
RetiringIsKnown ==
    /\ reload.step = "next" <=> reload.entry = NoEntry
    /\ reload.entry # NoEntry => reload.entry \in retired

\* Entries are made by the reloads so far.
EntriesAreMade ==
    /\ \A n \in Names : upstreams[n] # NoEntry => upstreams[n][2] <= reloads
    /\ \A d \in Demands : at[d] # NoEntry => at[d] \in Entries /\ at[d][2] <= reloads

\* Who looked an entry up finds it in the map, about to be retired, or retired.
LookedUpIsAccounted ==
    \A d \in Demands : at[d] # NoEntry => at[d] \in Entered \cup reload.todo \cup retired

\* So does a slot that holds anything.
HeldIsAccounted ==
    \A e \in Entries : slot[e] # Idle => e \in Entered \cup reload.todo \cup {reload.entry}

\* A demand dialled, or will, what its entry still says.
DialledAsConfigured ==
    \A d \in Demands :
        at[d] # NoEntry => server[at[d]] \in Servers /\ dialled[d] = server[at[d]].transport

\* The claimant of a slot looked that slot's entry up.
SlotIsClaimants ==
    \A e \in Entries : slot[e].state \in {"connecting", "ready"} => at[slot[e].by] = e

\* The connection a request goes through was landed by whoever bears its name.
ConnIsLanded ==
    \A d \in Demands :
        /\ conn[d] # NoDemand => pc[conn[d]] \notin BeforeClaim \cup Running
        /\ pc[d] = "calling" => conn[d] # NoDemand

\* Until a shutdown, what is dead is a child that exited or a connection that
\* was thrown away before anybody could see it.
DeadIsUnseen ==
    \A c \in dead :
        /\ pc[c] \notin BeforeClaim
        /\ dialled[c] \in Stdio \/ shutdown.step # "off"
           \/ /\ pc[c] \notin Running
              /\ \A e \in Entries : slot[e] # Ready(c)
              /\ \A d \in Demands : conn[d] # c

RInv == /\ RetiringIsKnown /\ EntriesAreMade /\ LookedUpIsAccounted /\ HeldIsAccounted
        /\ DialledAsConfigured /\ SlotIsClaimants /\ ConnIsLanded /\ DeadIsUnseen

-----------------------------------------------------------------------------
(* Frames: what the steps that are not named leave alone.                   *)

\* Only the reload's own steps write the map, the entries and the retirement.
LEMMA ReloadFrame ==
    [Next]_vars =>
        \/ \E cfg \in Configs : Apply(cfg)
        \/ \E e \in Entries : RetireFlag(e)
        \/ RetireSlot \/ RetireNotify
        \/ UNCHANGED << upstreams, server, retired, reload, reloads >>
  BY DEF Next, Task, Retire, Sweep, vars, manager, Lookup, Register, FindRetired,
         FindLive, FindClaimed, Claim, Park, Wake, Dial, Land, Settle, Answer, CallFails,
         Report, HangUp, HangUpOnLadder, ChildDies, ShutDown, ShutDownSlot, ShutDownNotify

\* Only a lookup gives a demand its entry, and only to a demand not started.
LEMMA LookupFrame ==
    [Next]_vars =>
        \/ \E d \in Demands, n \in Names : Lookup(d, n)
        \/ UNCHANGED << at, dialled >>
  BY DEF Next, Task, Retire, Sweep, vars, demand, Register, FindRetired,
         FindLive, FindClaimed, Claim, Park, Wake, Dial, Land, Settle, Answer, CallFails,
         Report, HangUp, HangUpOnLadder, ChildDies, Apply, RetireFlag, RetireSlot,
         RetireNotify, ShutDown, ShutDownSlot, ShutDownNotify

\* Who writes a slot.
LEMMA SlotFrame ==
    [Next]_vars =>
        \/ \E d \in Demands : Claim(d) \/ Land(d) \/ Report(d)
        \/ RetireSlot
        \/ \E e \in Entries : ShutDownSlot(e)
        \/ UNCHANGED slot
  BY DEF Next, Task, Retire, Sweep, vars, manager, Lookup, Register, FindRetired,
         FindLive, FindClaimed, Park, Wake, Dial, Settle, Answer, CallFails,
         HangUp, HangUpOnLadder, ChildDies, Apply, RetireFlag,
         RetireNotify, ShutDown, ShutDownNotify

\* Who gives a request its connection.
LEMMA ConnFrame ==
    [Next]_vars =>
        \/ \E d \in Demands : FindLive(d) \/ Land(d)
        \/ UNCHANGED conn
  BY DEF Next, Task, Retire, Sweep, vars, demand, Lookup, Register, FindRetired,
         FindClaimed, Claim, Park, Wake, Dial, Settle, Answer, CallFails, Report,
         HangUp, HangUpOnLadder, ChildDies, Apply, RetireFlag, RetireSlot,
         RetireNotify, ShutDown, ShutDownSlot, ShutDownNotify

\* Who declares a connection dead, and who begins a shutdown.
LEMMA DeadFrame ==
    [Next]_vars =>
        \/ \E d \in Demands : Land(d) \/ ChildDies(d)
        \/ \E e \in Entries : ShutDownSlot(e)
        \/ UNCHANGED dead
  BY DEF Next, Task, Retire, Sweep, vars, manager, Lookup, Register, FindRetired,
         FindLive, FindClaimed, Claim, Park, Wake, Dial, Settle, Answer, CallFails, Report,
         HangUp, HangUpOnLadder, Apply, RetireFlag, RetireSlot,
         RetireNotify, ShutDown, ShutDownNotify

\* Who moves a shutdown on.
LEMMA ShutdownFrame ==
    [Next]_vars =>
        \/ ShutDown
        \/ \E e \in Entries : ShutDownSlot(e)
        \/ ShutDownNotify
        \/ UNCHANGED shutdown
  BY DEF Next, Task, Retire, Sweep, vars, Lookup, Register, FindRetired, FindLive,
         FindClaimed, Claim, Park, Wake, Dial, Land, Settle, Answer, CallFails, Report,
         HangUp, HangUpOnLadder, ChildDies, Apply, RetireFlag, RetireSlot, RetireNotify

LEMMA ShutdownIsForGood ==
    TypeOK /\ [Next]_vars /\ shutdown.step # "off" => shutdown'.step # "off"
  <1> SUFFICES ASSUME TypeOK, [Next]_vars, shutdown.step # "off" PROVE shutdown'.step # "off"
    OBVIOUS
  <1>1. CASE ShutDown
    BY <1>1 DEF ShutDown
  <1>2. ASSUME NEW e \in Entries, ShutDownSlot(e) PROVE shutdown'.step # "off"
    BY <1>2 DEF ShutDownSlot
  <1>3. CASE ShutDownNotify
    BY <1>3 DEF ShutDownNotify, TypeOK
  <1>4. QED
    BY <1>1, <1>2, <1>3, ShutdownFrame

\* A demand past its claim never goes back before it, and one past its ladder
\* never back on it.
LEMMA NoWayBack ==
    TypeOK /\ [Next]_vars =>
        \A d \in Demands :
            /\ pc[d] \notin BeforeClaim => pc'[d] \notin BeforeClaim
            /\ pc[d] \notin BeforeClaim \cup Running => pc'[d] \notin BeforeClaim \cup Running
  <1> SUFFICES ASSUME TypeOK, [Next]_vars, NEW d \in Demands
               PROVE  /\ pc[d] \notin BeforeClaim => pc'[d] \notin BeforeClaim
                      /\ pc[d] \notin BeforeClaim \cup Running => pc'[d] \notin BeforeClaim \cup Running
    OBVIOUS
  <1> USE DEF TypeOK, BeforeClaim, Running, Goto, demand
  <1>1. ASSUME NEW c \in Demands, \/ \E n \in Names : Lookup(c, n)
                                 \/ Register(c) \/ FindRetired(c) \/ FindLive(c) \/ FindClaimed(c)
                                 \/ Claim(c) \/ Park(c) \/ Wake(c)
        PROVE  pc[c] \in BeforeClaim /\ pc' = [pc EXCEPT ![c] = pc'[c]]
    BY <1>1 DEF Lookup, Register, FindRetired, FindLive, FindClaimed, Claim, Park, Wake
  <1>2. ASSUME NEW c \in Demands, \/ Dial(c) \/ Land(c) \/ Settle(c) \/ Answer(c) \/ CallFails(c)
                                 \/ Report(c) \/ HangUpOnLadder(c) \/ HangUp(c)
        PROVE  /\ pc' = [pc EXCEPT ![c] = pc'[c]]
               /\ pc'[c] \notin BeforeClaim
               /\ pc'[c] \in Running => pc[c] \in Running
    BY <1>2 DEF Dial, DialReturns, Land, Settle, Answer, CallFails, Report, HangUpOnLadder, HangUp
  <1>3. CASE UNCHANGED pc
    BY <1>3
  <1>4. QED
    BY <1>1, <1>2, <1>3
    DEF Next, Task, Retire, Sweep, vars, ChildDies, Apply, RetireFlag, RetireSlot, RetireNotify,
        ShutDown, ShutDownSlot, ShutDownNotify

\* What an apply makes of an entry: it makes new ones under the next number,
\* keeps an entry only with its transport, and lists the rest for retirement.
LEMMA ApplyEntries ==
    ASSUME TypeOK, MapIsServed, EntriesAreMade, NEW cfg \in Configs, Apply(cfg)
    PROVE  /\ \A n \in Names : upstreams'[n] # NoEntry =>
                 upstreams'[n] = upstreams[n] \/ upstreams'[n] = << n, reloads + 1 >>
           /\ \A n \in Names : upstreams[n] # NoEntry =>
                 upstreams[n] = upstreams'[n] \/ upstreams[n] \in reload'.todo
           /\ \A e \in Entries : server[e] \in Servers /\ e[2] <= reloads =>
                 server'[e] \in Servers /\ server'[e].transport = server[e].transport
  <1> USE DEF Apply, TypeOK
  <1>1. ASSUME NEW n \in Names, upstreams'[n] # NoEntry
        PROVE  upstreams'[n] = upstreams[n] \/ upstreams'[n] = << n, reloads + 1 >>
    BY <1>1 DEF NextEntry
  <1>2. ASSUME NEW n \in Names, upstreams[n] # NoEntry
        PROVE  upstreams[n] = upstreams'[n] \/ upstreams[n] \in reload'.todo
    <2>1. CASE n \in Replaced(cfg) \cup Removed(cfg)
      BY <2>1
    <2>2. CASE n \notin Replaced(cfg) \cup Removed(cfg)
      BY <1>2, <2>2 DEF NextEntry, Added, Removed
    <2>3. QED
      BY <2>1, <2>2
  <1>3. ASSUME NEW e \in Entries, server[e] \in Servers, e[2] <= reloads
        PROVE  server'[e] \in Servers /\ server'[e].transport = server[e].transport
    <2> DEFINE n == NameOf(e)
    <2>1. CASE cfg[n] # NoServer /\ NextEntry(cfg, n) = e
      <3>1. n \in Names /\ cfg[n] \in Servers /\ server'[e] = cfg[n]
        BY <2>1, EntryNames DEF Configs
      <3>2. e # << n, reloads + 1 >>
        BY <1>3
      <3>3. n \notin Added(cfg) \cup Replaced(cfg) /\ upstreams[n] = e
        BY <2>1, <3>2 DEF NextEntry
      <3>4. SameTransport(server[e], cfg[n])
        BY <3>1, <3>3, <2>1, NoEntryIsNone DEF Replaced
      <3>5. QED
        BY <3>1, <3>4 DEF SameTransport
    <2>2. CASE ~(cfg[n] # NoServer /\ NextEntry(cfg, n) = e)
      BY <2>2, <1>3
    <2>3. QED
      BY <2>1, <2>2
  <1>4. QED
    BY <1>1, <1>2, <1>3

-----------------------------------------------------------------------------
(* The parts of the inductive invariant.                                    *)

\* The retirement under way is of an entry whose flag is set.
LEMMA NextRetiringIsKnown == TypeOK /\ RetiringIsKnown /\ [Next]_vars => RetiringIsKnown'
  <1> SUFFICES ASSUME TypeOK, RetiringIsKnown, [Next]_vars PROVE RetiringIsKnown'
    OBVIOUS
  <1> USE DEF TypeOK, RetiringIsKnown
  <1>1. ASSUME NEW cfg \in Configs, Apply(cfg) PROVE RetiringIsKnown'
    BY <1>1 DEF Apply
  <1>2. ASSUME NEW e \in Entries, RetireFlag(e) PROVE RetiringIsKnown'
    BY <1>2, NoEntryIsNone DEF RetireFlag
  <1>3. CASE RetireSlot
    BY <1>3 DEF RetireSlot
  <1>4. CASE RetireNotify
    BY <1>4 DEF RetireNotify, manager
  <1>5. CASE UNCHANGED << upstreams, server, retired, reload, reloads >>
    BY <1>5
  <1>6. QED
    BY <1>1, <1>2, <1>3, <1>4, <1>5, ReloadFrame

\* Entries get their number from the reload that makes them.
LEMMA NextEntriesAreMade == TypeOK /\ MapIsServed /\ EntriesAreMade /\ [Next]_vars => EntriesAreMade'
  <1> SUFFICES ASSUME TypeOK, MapIsServed, EntriesAreMade, [Next]_vars PROVE EntriesAreMade'
    OBVIOUS
  <1> USE DEF TypeOK
  <1>1. reloads \in Nat /\ reloads' \in Nat /\ reloads <= reloads'
    BY ReloadFrame, UpstreamAssumption DEF Apply, RetireFlag, RetireSlot, RetireNotify
  <1>2. \A e \in Entries : e[2] \in Nat
    BY UpstreamAssumption DEF Entries
  <1>3. ASSUME NEW n \in Names, upstreams'[n] # NoEntry PROVE upstreams'[n][2] <= reloads'
    <2>1. ASSUME NEW cfg \in Configs, Apply(cfg) PROVE upstreams'[n][2] <= reloads'
      <3>1. upstreams'[n] = upstreams[n] \/ upstreams'[n] = << n, reloads + 1 >>
        BY <2>1, <1>3, ApplyEntries
      <3>2. CASE upstreams'[n] = upstreams[n]
        BY <3>2, <1>1, <1>2, <1>3 DEF EntriesAreMade
      <3>3. CASE upstreams'[n] = << n, reloads + 1 >>
        BY <3>3, <2>1, <1>1 DEF Apply
      <3>4. QED
        BY <3>1, <3>2, <3>3
    <2>2. CASE UNCHANGED << upstreams, reloads >>
      BY <2>2, <1>3 DEF EntriesAreMade
    <2>3. QED
      BY <2>1, <2>2, ReloadFrame DEF RetireFlag, RetireSlot, RetireNotify, manager
  <1>4. ASSUME NEW d \in Demands, at'[d] # NoEntry PROVE at'[d] \in Entries /\ at'[d][2] <= reloads'
    <2>1. ASSUME NEW c \in Demands, NEW n \in Names, Lookup(c, n)
          PROVE  at'[d] \in Entries /\ at'[d][2] <= reloads'
      BY <2>1, <1>4 DEF Lookup, EntriesAreMade
    <2>2. CASE UNCHANGED at
      BY <2>2, <1>1, <1>2, <1>4 DEF EntriesAreMade
    <2>3. QED
      BY <2>1, <2>2, LookupFrame
  <1>5. QED
    BY <1>3, <1>4 DEF EntriesAreMade

\* What leaves the map goes on the list of the apply, and from there under
\* the flag.
LEMMA NextLookedUpIsAccounted ==
    TypeOK /\ MapIsServed /\ EntriesAreMade /\ LookedUpIsAccounted /\ [Next]_vars => LookedUpIsAccounted'
  <1> SUFFICES ASSUME TypeOK, MapIsServed, EntriesAreMade, LookedUpIsAccounted, [Next]_vars,
                      NEW d \in Demands, at'[d] # NoEntry
               PROVE  at'[d] \in Entered' \cup reload'.todo \cup retired'
    BY DEF LookedUpIsAccounted
  <1> USE DEF TypeOK, LookedUpIsAccounted, Entered
  <1>1. ASSUME NEW c \in Demands, NEW n \in Names, Lookup(c, n)
        PROVE  at'[d] \in Entered' \cup reload'.todo \cup retired'
    BY <1>1 DEF Lookup, manager
  <1>2. ASSUME NEW cfg \in Configs, Apply(cfg), UNCHANGED at
        PROVE  at'[d] \in Entered' \cup reload'.todo \cup retired'
    <2>1. at[d] \in Entered \cup retired
      BY <1>2 DEF Apply
    <2>2. CASE at[d] \in retired
      BY <1>2, <2>2 DEF Apply
    <2>3. ASSUME NEW n \in Names, at[d] = upstreams[n]
          PROVE  at'[d] \in Entered' \cup reload'.todo
      <3>1. upstreams[n] = upstreams'[n] \/ upstreams[n] \in reload'.todo
        BY <1>2, <2>3, ApplyEntries
      <3>2. QED
        BY <1>2, <2>3, <3>1
    <2>4. QED
      BY <2>1, <2>2, <2>3
  <1>3. ASSUME UNCHANGED at, \/ \E e \in Entries : RetireFlag(e)
                             \/ RetireSlot \/ RetireNotify
                             \/ UNCHANGED << upstreams, server, retired, reload, reloads >>
        PROVE  at'[d] \in Entered' \cup reload'.todo \cup retired'
    <2>1. upstreams' = upstreams /\ at' = at /\ at[d] \in Entered \cup reload.todo \cup retired
      BY <1>3 DEF RetireFlag, RetireSlot, RetireNotify, manager
    <2>2. reload.todo \cup retired \subseteq reload'.todo \cup retired'
      <3>1. ASSUME NEW e \in Entries, RetireFlag(e)
            PROVE  reload'.todo = reload.todo \ {e} /\ retired' = retired \cup {e}
        BY <3>1 DEF RetireFlag
      <3>2. ASSUME ~ \E e \in Entries : RetireFlag(e) PROVE reload'.todo = reload.todo /\ retired' = retired
        BY <1>3, <3>2 DEF RetireSlot, RetireNotify, manager
      <3>3. QED
        BY <3>1, <3>2
    <2>3. QED
      BY <2>1, <2>2
  <1>4. QED
    BY <1>1, <1>2, <1>3, LookupFrame, ReloadFrame

\* A claim is only ever made on an entry that is not retired, and retire takes
\* what it finds in the slot.
LEMMA NextHeldIsAccounted ==
    IInv /\ RInv /\ [Next]_vars => HeldIsAccounted'
  <1> SUFFICES ASSUME IInv, RInv, [Next]_vars, NEW e \in Entries, slot'[e] # Idle
               PROVE  e \in Entered' \cup reload'.todo \cup {reload'.entry}
    BY DEF HeldIsAccounted
  <1> DEFINE Accounted == e \in Entered \cup reload.todo \cup {reload.entry}
  <1> USE DEF IInv, RInv, TypeOK, Entered, RetiringIsKnown
  <1>1. Accounted
    <2>1. ASSUME NEW d \in Demands, Claim(d) PROVE Accounted
      <3>1. CASE at[d] = e
        <4>1. at[d] # NoEntry /\ at[d] \notin retired
          BY <2>1, <3>1, NoEntryIsNone DEF Claim, Retired
        <4>2. QED
          BY <3>1, <4>1 DEF LookedUpIsAccounted
      <3>2. CASE at[d] # e
        BY <2>1, <3>2 DEF Claim, HeldIsAccounted
      <3>3. QED
        BY <3>1, <3>2
    <2>2. ASSUME NEW d \in Demands, Land(d) PROVE Accounted
      BY <2>2 DEF Land, Abandoned, HeldIsAccounted, Connecting, Idle
    <2>3. ASSUME NEW d \in Demands, Report(d) PROVE Accounted
      BY <2>3 DEF Report, Holds, Ready, HeldIsAccounted, Idle
    <2>4. CASE RetireSlot
      BY <2>4 DEF RetireSlot, HeldIsAccounted
    <2>5. ASSUME NEW f \in Entries, ShutDownSlot(f) PROVE Accounted
      BY <2>5 DEF ShutDownSlot, HeldIsAccounted
    <2>6. CASE UNCHANGED slot
      BY <2>6 DEF HeldIsAccounted
    <2>7. QED
      BY <2>1, <2>2, <2>3, <2>4, <2>5, <2>6, SlotFrame
  <1>2. ASSUME NEW cfg \in Configs, Apply(cfg) PROVE e \in Entered' \cup reload'.todo
    <2>1. PICK n \in Names : e = upstreams[n]
      BY <1>1, <1>2, NoEntryIsNone DEF Apply
    <2>2. upstreams[n] = upstreams'[n] \/ upstreams[n] \in reload'.todo
      BY <1>2, <2>1, NoEntryIsNone, ApplyEntries
    <2>3. QED
      BY <2>1, <2>2, NoEntryIsNone
  <1>3. ASSUME NEW f \in Entries, RetireFlag(f) PROVE e \in Entered' \cup reload'.todo \cup {reload'.entry}
    BY <1>1, <1>3, NoEntryIsNone DEF RetireFlag
  <1>4. CASE RetireSlot
    BY <1>1, <1>4 DEF RetireSlot
  <1>5. CASE RetireNotify
    BY <1>1, <1>5 DEF RetireNotify, manager, RetiredHoldsNothing
  <1>6. CASE UNCHANGED << upstreams, server, retired, reload, reloads >>
    BY <1>1, <1>6
  <1>7. QED
    BY <1>2, <1>3, <1>4, <1>5, <1>6, ReloadFrame

\* The transport of an entry in use is the one that was dialled.
LEMMA NextDialledAsConfigured ==
    IInv /\ RInv /\ [Next]_vars => DialledAsConfigured'
  <1> SUFFICES ASSUME IInv, RInv, [Next]_vars, NEW d \in Demands, at'[d] # NoEntry
               PROVE  server'[at'[d]] \in Servers /\ dialled'[d] = server'[at'[d]].transport
    BY DEF DialledAsConfigured
  <1> USE DEF IInv, RInv, TypeOK
  <1>1. ASSUME NEW c \in Demands, NEW n \in Names, Lookup(c, n)
        PROVE  server'[at'[d]] \in Servers /\ dialled'[d] = server'[at'[d]].transport
    BY <1>1 DEF Lookup, manager, MapIsServed, DialledAsConfigured
  <1>2. ASSUME NEW cfg \in Configs, Apply(cfg), UNCHANGED << at, dialled >>
        PROVE  server'[at'[d]] \in Servers /\ dialled'[d] = server'[at'[d]].transport
    <2>1. at[d] \in Entries /\ at[d][2] <= reloads /\ server[at[d]] \in Servers
      BY <1>2 DEF EntriesAreMade, DialledAsConfigured
    <2>2. server'[at[d]] \in Servers /\ server'[at[d]].transport = server[at[d]].transport
      BY <1>2, <2>1, ApplyEntries
    <2>3. QED
      BY <1>2, <2>2 DEF DialledAsConfigured
  <1>3. CASE UNCHANGED << at, dialled, server >>
    BY <1>3 DEF DialledAsConfigured
  <1>4. QED
    BY <1>1, <1>2, <1>3, LookupFrame, ReloadFrame DEF RetireFlag, RetireSlot, RetireNotify, manager

\* A slot names a demand only on that demand's entry.
LEMMA NextSlotIsClaimants ==
    IInv /\ SlotIsClaimants /\ [Next]_vars => SlotIsClaimants'
  <1> SUFFICES ASSUME IInv, SlotIsClaimants, [Next]_vars, NEW e \in Entries,
                      slot'[e].state \in {"connecting", "ready"}
               PROVE  at'[slot'[e].by] = e
    BY DEF SlotIsClaimants
  <1> USE DEF IInv, TypeOK, Idle, Failed, AuthRequired, Connecting, Ready
  <1>1. at[slot'[e].by] = e /\ slot'[e].by \in Demands /\ pc'[slot'[e].by] # "new"
                            /\ pc[slot'[e].by] # "new"
    <2>1. ASSUME NEW d \in Demands, Claim(d)
          PROVE  at[slot'[e].by] = e /\ slot'[e].by \in Demands /\ pc[slot'[e].by] # "new"
      BY <2>1 DEF Claim, SlotIsClaimants, SlotNamesClaimant, BeforeClaim
    <2>2. ASSUME NEW d \in Demands, Land(d)
          PROVE  at[slot'[e].by] = e /\ slot'[e].by \in Demands /\ pc[slot'[e].by] # "new"
      BY <2>2 DEF Land, SlotIsClaimants, SlotNamesClaimant, BeforeClaim
    <2>3. ASSUME NEW d \in Demands, Report(d)
          PROVE  at[slot'[e].by] = e /\ slot'[e].by \in Demands /\ pc[slot'[e].by] # "new"
      BY <2>3 DEF Report, SlotIsClaimants, SlotNamesClaimant, BeforeClaim
    <2>4. ASSUME RetireSlot \/ UNCHANGED slot \/ \E f \in Entries : ShutDownSlot(f)
          PROVE  at[slot'[e].by] = e /\ slot'[e].by \in Demands /\ pc[slot'[e].by] # "new"
      BY <2>4 DEF RetireSlot, ShutDownSlot, SlotIsClaimants, SlotNamesClaimant, BeforeClaim
    <2>5. IInv'
      BY NextIInv
    <2>6. slot'[e].by \in Demands /\ pc'[slot'[e].by] \notin BeforeClaim
      BY <2>5 DEF SlotNamesClaimant
    <2>7. pc'[slot'[e].by] # "new"
      BY <2>6 DEF BeforeClaim
    <2>8. QED
      BY <2>1, <2>2, <2>3, <2>4, <2>7, SlotFrame
  <1>2. ASSUME NEW c \in Demands, NEW n \in Names, Lookup(c, n) PROVE at'[slot'[e].by] = at[slot'[e].by]
    BY <1>1, <1>2 DEF Lookup
  <1>3. QED
    BY <1>1, <1>2, LookupFrame

\* A request goes through a connection found in a slot or landed by itself.
LEMMA NextConnIsLanded ==
    IInv /\ ConnIsLanded /\ [Next]_vars => ConnIsLanded'
  <1> SUFFICES ASSUME IInv, ConnIsLanded, [Next]_vars, NEW d \in Demands PROVE
                 /\ conn'[d] # NoDemand => pc'[conn'[d]] \notin BeforeClaim \cup Running
                 /\ pc'[d] = "calling" => conn'[d] # NoDemand
    BY DEF ConnIsLanded
  <1> USE DEF IInv, TypeOK
  <1>1. ASSUME conn'[d] # NoDemand PROVE pc'[conn'[d]] \notin BeforeClaim \cup Running
    <2>1. ASSUME NEW c \in Demands, FindLive(c) PROVE pc'[conn'[d]] \notin BeforeClaim \cup Running
      <3>1. CASE c = d
        <4>1. at[d] \in Entries /\ slot[at[d]].state = "ready" /\ conn'[d] = slot[at[d]].by
          BY <2>1, <3>1 DEF FindLive, Serving, EntryKnown, Started
        <4>2. conn'[d] \in Demands /\ pc[conn'[d]] \notin BeforeClaim \cup Running
          BY <4>1 DEF SlotNamesClaimant
        <4>3. QED
          BY <4>2, NoWayBack
      <3>2. CASE c # d
        BY <1>1, <2>1, <3>2, NoWayBack DEF FindLive, ConnIsLanded
      <3>3. QED
        BY <3>1, <3>2
    <2>2. ASSUME NEW c \in Demands, Land(c) PROVE pc'[conn'[d]] \notin BeforeClaim \cup Running
      <3>1. pc'[c] \notin BeforeClaim \cup Running
        BY <2>2 DEF Land, Goto, BeforeClaim, Running
      <3>2. conn'[d] = c \/ conn'[d] = conn[d]
        BY <2>2 DEF Land
      <3>3. QED
        BY <1>1, <3>1, <3>2, NoWayBack DEF ConnIsLanded
    <2>3. CASE UNCHANGED conn
      BY <1>1, <2>3, NoWayBack DEF ConnIsLanded
    <2>4. QED
      BY <2>1, <2>2, <2>3, ConnFrame
  <1>2. ASSUME pc'[d] = "calling", conn'[d] = NoDemand PROVE FALSE
    <2> USE <1>2 DEF Goto, demand
    <2>1. ASSUME NEW c \in Demands, FindLive(c) PROVE FALSE
      <3>1. at[c] \in Entries /\ slot[at[c]].state = "ready"
        BY <2>1 DEF FindLive, Serving, EntryKnown, Started
      <3>2. slot[at[c]].by \in Demands
        BY <3>1 DEF SlotNamesClaimant
      <3>3. QED
        BY <2>1, <3>2, UpstreamAssumption DEF FindLive, ConnIsLanded
    <2>2. ASSUME NEW c \in Demands, Settle(c) PROVE FALSE
      BY <2>2 DEF Settle, ConnIsLanded
    <2>3. ASSUME NEW c \in Demands, Land(c) PROVE FALSE
      BY <2>3, UpstreamAssumption DEF Land, ConnIsLanded
    <2>4. pc[d] # "calling" \/ conn[d] # NoDemand
      BY DEF ConnIsLanded
    <2>5. QED
      BY <2>1, <2>2, <2>3, <2>4
      DEF Next, Task, Retire, Sweep, vars, Lookup, Register, FindRetired,
          FindClaimed, Claim, Park, Wake, Dial, DialReturns, Answer, CallFails, Report,
          HangUp, HangUpOnLadder, ChildDies, Apply, RetireFlag, RetireSlot,
          RetireNotify, ShutDown, ShutDownSlot, ShutDownNotify
  <1>3. QED
    BY <1>1, <1>2

\* What a step declares dead is out of everybody's sight, a child, or closed by
\* a shutdown; and nobody finds again what nobody saw.
LEMMA NextDeadIsUnseen ==
    IInv /\ RInv /\ [Next]_vars => DeadIsUnseen'
  <1> SUFFICES ASSUME IInv, RInv, [Next]_vars, NEW c \in dead'
               PROVE  /\ pc'[c] \notin BeforeClaim
                      /\ \/ dialled'[c] \in Stdio \/ shutdown'.step # "off"
                         \/ /\ pc'[c] \notin Running
                            /\ \A e \in Entries : slot'[e] # Ready(c)
                            /\ \A d \in Demands : conn'[d] # c
    BY DEF DeadIsUnseen
  <1>a. IInv'
    BY NextIInv
  <1>b. c \in Demands
    BY <1>a DEF IInv, TypeOK
  <1> USE <1>b DEF IInv, TypeOK
  <1>1. ASSUME NEW d \in Demands, pc[d] \notin BeforeClaim PROVE dialled'[d] = dialled[d]
    BY <1>1, LookupFrame DEF Lookup, BeforeClaim
  <1>2. shutdown.step # "off" => shutdown'.step # "off"
    BY ShutdownIsForGood
  <1>3. CASE c \in dead
    <2>1. pc[c] \notin BeforeClaim
      BY <1>3 DEF RInv, DeadIsUnseen
    <2>2. pc'[c] \notin BeforeClaim
      BY <2>1, NoWayBack
    <2>3. CASE dialled[c] \in Stdio \/ shutdown.step # "off"
      BY <1>1, <1>2, <2>1, <2>2, <2>3
    <2>4. CASE /\ pc[c] \notin Running
               /\ \A e \in Entries : slot[e] # Ready(c)
               /\ \A d \in Demands : conn[d] # c
      <3>1. pc'[c] \notin Running
        BY <2>1, <2>4, NoWayBack
      <3>2. ASSUME NEW d \in Demands, Land(d) PROVE d # c
        BY <2>4, <3>2 DEF Land, Running
      <3>3. ASSUME NEW e \in Entries PROVE slot'[e] # Ready(c)
        <4>1. ASSUME NEW d \in Demands, Claim(d) PROVE slot'[e] # Ready(c)
          BY <2>4, <4>1 DEF Claim, Connecting, Ready
        <4>2. ASSUME NEW d \in Demands, Land(d) PROVE slot'[e] # Ready(c)
          BY <2>4, <3>2, <4>2 DEF Land, Ready, AuthRequired, Failed
        <4>3. ASSUME NEW d \in Demands, Report(d) PROVE slot'[e] # Ready(c)
          BY <2>4, <4>3 DEF Report, Ready, Idle, Failed
        <4>4. CASE RetireSlot \/ (\E f \in Entries : ShutDownSlot(f)) \/ UNCHANGED slot
          BY <2>4, <4>4 DEF RetireSlot, ShutDownSlot, Ready, Idle
        <4>5. QED
          BY <4>1, <4>2, <4>3, <4>4, SlotFrame
      <3>4. ASSUME NEW d \in Demands PROVE conn'[d] # c
        <4>1. ASSUME NEW b \in Demands, FindLive(b) PROVE conn'[d] # c
          <5>1. at[b] \in Entries /\ slot[at[b]].state = "ready" /\ slot[at[b]] \in Slots
            BY <4>1 DEF FindLive, Serving, EntryKnown, Started
          <5>2. slot[at[b]] = Ready(slot[at[b]].by)
            BY <5>1 DEF Slots, Ready
          <5>3. slot[at[b]].by # c
            BY <2>4, <5>1, <5>2
          <5>4. QED
            BY <2>4, <4>1, <5>3 DEF FindLive
        <4>2. ASSUME NEW b \in Demands, Land(b) PROVE conn'[d] # c
          BY <2>4, <3>2, <4>2 DEF Land
        <4>3. QED
          BY <2>4, <4>1, <4>2, ConnFrame
      <3>5. QED
        BY <2>2, <3>1, <3>3, <3>4
    <2>5. QED
      BY <1>3, <2>3, <2>4 DEF RInv, DeadIsUnseen
  <1>4. CASE c \notin dead
    <2>1. ASSUME NEW d \in Demands, Land(d)
          PROVE  /\ pc'[c] \notin BeforeClaim \cup Running
                 /\ \A e \in Entries : slot'[e] # Ready(c)
                 /\ \A b \in Demands : conn'[b] # c
      <3>1. c = d /\ UNCHANGED << slot, conn >> /\ pc[c] \in Running /\ pc'[c] = "settle"
        BY <1>4, <2>1 DEF Land, Goto, Running
      <3>2. \A e \in Entries : slot[e] # Ready(c)
        BY <3>1 DEF SlotNamesClaimant, Ready
      <3>3. \A b \in Demands : conn[b] # c
        BY <3>1, UpstreamAssumption DEF RInv, ConnIsLanded
      <3>4. QED
        BY <3>1, <3>2, <3>3 DEF BeforeClaim, Running
    <2>2. ASSUME NEW d \in Demands, ChildDies(d)
          PROVE  pc'[c] \notin BeforeClaim /\ dialled'[c] \in Stdio
      <3>1. c = d /\ dialled[c] \in Stdio /\ UNCHANGED << pc, dialled >>
        BY <1>4, <2>2 DEF ChildDies, demand
      <3>2. CASE pc[c] = "landing"
        BY <3>1, <3>2 DEF BeforeClaim
      <3>3. ASSUME NEW e \in Entries, slot[e] = Ready(c) PROVE pc[c] \notin BeforeClaim
        BY <3>3 DEF SlotNamesClaimant, Ready
      <3>4. ASSUME NEW b \in Demands, conn[b] = c PROVE pc[c] \notin BeforeClaim
        BY <3>4, UpstreamAssumption DEF RInv, ConnIsLanded
      <3>5. QED
        BY <2>2, <3>1, <3>2, <3>3, <3>4 DEF ChildDies
    <2>3. ASSUME NEW e \in Entries, ShutDownSlot(e)
          PROVE  pc'[c] \notin BeforeClaim /\ shutdown'.step # "off"
      <3>1. slot[e].state = "ready" /\ c = slot[e].by /\ UNCHANGED pc /\ shutdown'.step = "notify"
        BY <1>4, <2>3 DEF ShutDownSlot, demand
      <3>2. QED
        BY <3>1 DEF SlotNamesClaimant
    <2>4. QED
      BY <1>4, <2>1, <2>2, <2>3, DeadFrame
  <1>5. QED
    BY <1>3, <1>4

-----------------------------------------------------------------------------
(* Theorems.                                                                *)

LEMMA InitRInv == Init => RInv
  <1> SUFFICES ASSUME Init PROVE RInv
    OBVIOUS
  <1>1. EntriesAreMade
    <2>1. ASSUME NEW n \in Names, upstreams[n] # NoEntry PROVE upstreams[n][2] <= reloads
      BY <2>1, UpstreamAssumption DEF Init
    <2>2. QED
      BY <2>1 DEF Init, EntriesAreMade
  <1>2. QED
    BY <1>1 DEF Init, RInv, RetiringIsKnown, LookedUpIsAccounted, HeldIsAccounted,
                DialledAsConfigured, SlotIsClaimants, ConnIsLanded, DeadIsUnseen, Idle

LEMMA NextRInv == IInv /\ RInv /\ [Next]_vars => RInv'
  BY NextRetiringIsKnown, NextEntriesAreMade, NextLookedUpIsAccounted, NextHeldIsAccounted,
     NextDialledAsConfigured, NextSlotIsClaimants, NextConnIsLanded, NextDeadIsUnseen
  DEF IInv, RInv

LEMMA ReloadInvariant == Spec => [](IInv /\ RInv)
  <1>1. Init => IInv /\ RInv
    BY InitIInv, InitRInv
  <1>2. IInv /\ RInv /\ [Next]_vars => IInv' /\ RInv'
    BY NextIInv, NextRInv
  <1>3. QED
    BY <1>1, <1>2, PTL DEF Spec

\* A connection held in a slot is reachable through the map or through the
\* list of entries the running apply retires: no reload, whatever it adds,
\* replaces, stops or removes, leaves a child running that nothing owns.
THEOREM NothingRunsUnownedHolds == Spec => []NothingRunsUnowned
  <1>1. HeldIsAccounted => NothingRunsUnowned
    BY DEF HeldIsAccounted, NothingRunsUnowned, Idle
  <1>2. QED
    BY <1>1, ReloadInvariant, PTL DEF RInv

\* A request made through the map goes over the transport the config has now:
\* apply keeps an entry only when the edit left its transport alone, and no
\* ladder lands on an entry that is not the one it looked up.
THEOREM ServedByConfiguredTransportHolds == Spec => []ServedByConfiguredTransport
  <1>1. IInv /\ RInv => ServedByConfiguredTransport
    <2> SUFFICES ASSUME IInv, RInv, NEW n \in Names,
                        upstreams[n] # NoEntry, slot[upstreams[n]].state = "ready"
                 PROVE  dialled[slot[upstreams[n]].by] = server[upstreams[n]].transport
      BY DEF ServedByConfiguredTransport
    <2>1. upstreams[n] \in Entries
      BY DEF IInv, TypeOK
    <2>2. slot[upstreams[n]].by \in Demands /\ at[slot[upstreams[n]].by] = upstreams[n]
      BY <2>1 DEF IInv, RInv, SlotNamesClaimant, SlotIsClaimants
    <2>3. QED
      BY <2>2 DEF RInv, DialledAsConfigured
  <1>2. QED
    BY <1>1, ReloadInvariant, PTL

\* While nobody shuts the gateway down, the connection a request goes through
\* only dies with its child: neither the retirement of its entry nor another
\* demand that throws its own connection away cuts it off.
THEOREM InFlightSurvivesReloadHolds == Spec => []InFlightSurvivesReload
  <1>1. IInv /\ RInv => InFlightSurvivesReload
    BY DEF IInv, TypeOK, RInv, ConnIsLanded, DeadIsUnseen, InFlightSurvivesReload
  <1>2. QED
    BY <1>1, ReloadInvariant, PTL
=============================================================================
