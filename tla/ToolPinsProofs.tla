---------------------------- MODULE ToolPinsProofs ----------------------------
(* The pins of a server's tools, for any sessions, tools and definitions:     *)
(* proofs about ToolPins.                                                     *)
EXTENDS ToolPins, TLAPS

\* One session at a time is between the read of the pin file and the write.
GateIsHeld == \A s \in Sessions : pc[s] = "write" <=> gate = s

\* Who is about to write has a drift to report that is not in the file as it
\* was read, and the file still is the one read, or a pin or an unpin replaced it.
ReadIsKept ==
    \A s \in Sessions : pc[s] = "write" /\ seen[s] # NoFile =>
        /\ ~SameShape(seen[s].drift, Compare(seen[s].tools, list[s], moves))
        /\ file = seen[s] \/ (HasPins => file.drift = NoDrift)

\* A listing of the command line was let begin.
CommandIsLeft == pc[Cli] = "walk" => commands < MaxCommands

PinInv == TypeOK /\ CommandIsLeft /\ GateIsHeld /\ ReadIsKept /\ FileReflectsLastList

-----------------------------------------------------------------------------
(* Lists and drift.                                                         *)

LEMMA LengthTypes ==
    /\ LengthOf(Absent) = NoLength /\ NoLength \in Nat
    /\ \A d \in Definitions : LengthOf(d) \in Nat \ {NoLength}
  BY PinAssumption DEF LengthOf, NoLength

LEMMA EventTypes ==
    ASSUME NEW pin \in Definitions \cup {Absent}, NEW d \in Definitions \cup {Absent}, NEW now \in 0 .. MaxMoves
    PROVE  /\ Event(pin, d, now) \in Events
           /\ IF pin = d THEN Event(pin, d, now) = NoEvent
              ELSE /\ Event(pin, d, now).change # "none"
                   /\ Event(pin, d, now).before = LengthOf(pin) /\ Event(pin, d, now).after = LengthOf(d)
  <1>1. CASE pin = d
    BY <1>1 DEF Event, Events
  <1>2. CASE pin # d /\ pin = Absent
    BY <1>2, LengthTypes DEF Event, Events, Change
  <1>3. CASE pin # d /\ d = Absent
    BY <1>3, LengthTypes DEF Event, Events, Change
  <1>4. CASE pin # d /\ pin # Absent /\ d # Absent
    BY <1>4, LengthTypes DEF Event, Events, Change
  <1>5. QED
    BY <1>1, <1>2, <1>3, <1>4

\* What an event says besides its time; only no event says that nothing changed.
LEMMA Shapes ==
    /\ \A e, f : Shape(e) = Shape(f) <=> e.change = f.change /\ e.before = f.before /\ e.after = f.after
    /\ \A e \in Events : e = NoEvent <=> e.change = "none"
    /\ NoEvent \in Events
  <1>1. \A e, f : Shape(e) = Shape(f) <=> e.change = f.change /\ e.before = f.before /\ e.after = f.after
    BY DEF Shape
  <1>2. \A e \in Events : e = NoEvent <=> e.change = "none"
    BY DEF Events, NoEvent
  <1>3. NoEvent \in Events
    BY DEF Events
  <1>4. QED
    BY <1>1, <1>2, <1>3

LEMMA CompareTypes ==
    ASSUME NEW pins \in Lists, NEW listed \in Lists, NEW now \in 0 .. MaxMoves
    PROVE  /\ Compare(pins, listed, now) \in [Tools -> Events]
           /\ \A t \in Tools : IF pins[t] = listed[t] THEN Compare(pins, listed, now)[t] = NoEvent
                               ELSE LET e == Compare(pins, listed, now)[t] IN
                                    /\ e.change # "none"
                                    /\ e.before = LengthOf(pins[t]) /\ e.after = LengthOf(listed[t])
           /\ \A later : SameShape(Compare(pins, listed, now), Compare(pins, listed, later))
  <1>1. \A t \in Tools : pins[t] \in Definitions \cup {Absent} /\ listed[t] \in Definitions \cup {Absent}
    BY DEF Lists
  <1>2. \A t \in Tools : Compare(pins, listed, now)[t] = Event(pins[t], listed[t], now)
    BY DEF Compare
  <1>3. \A later : \A t \in Tools : Shape(Event(pins[t], listed[t], now)) = Shape(Event(pins[t], listed[t], later))
    BY DEF Event, Shape
  <1>4. Compare(pins, listed, now) \in [Tools -> Events]
    BY <1>1, EventTypes DEF Compare
  <1>5. ASSUME NEW later PROVE SameShape(Compare(pins, listed, now), Compare(pins, listed, later))
    <2>1. \A t \in Tools : Compare(pins, listed, later)[t] = Event(pins[t], listed[t], later)
      BY DEF Compare
    <2>2. QED
      BY <1>2, <1>3, <2>1 DEF SameShape
  <1>6. ASSUME NEW t \in Tools
        PROVE  LET e == Compare(pins, listed, now)[t] IN
               IF pins[t] = listed[t] THEN e = NoEvent
               ELSE e.change # "none" /\ e.before = LengthOf(pins[t]) /\ e.after = LengthOf(listed[t])
    BY <1>1, <1>2, EventTypes
  <1>7. QED
    BY <1>4, <1>5, <1>6

LEMMA CarryTypes ==
    ASSUME NEW old \in [Tools -> Events], NEW new \in [Tools -> Events]
    PROVE  /\ CarryOver(old, new) \in [Tools -> Events]
           /\ SameShape(CarryOver(old, new), new)
           /\ \A t \in Tools : Shape(old[t]) = Shape(new[t]) => CarryOver(old, new)[t] = old[t]
  BY DEF CarryOver, SameShape

LEMMA EmptyTypes ==
    /\ Empty \in Lists /\ NoDrift \in [Tools -> Events] /\ \A t \in Tools : NoDrift[t] = NoEvent
    /\ \A listed \in Lists : \A kept : Keep(listed, kept) \in Lists
    /\ \A listed \in Lists, t \in Tools : \A kept : t \in kept => Keep(listed, kept)[t] = listed[t]
  BY Shapes DEF Empty, Lists, NoDrift, Keep

-----------------------------------------------------------------------------
(* Types.                                                                   *)

\* What a check writes is a pin file, and gives back its drift.
LEMMA WrittenTypes ==
    ASSUME TypeOK, NEW s \in Sessions
    PROVE  /\ Written(s) \in [tools : Lists, drift : [Tools -> Events]]
           /\ seen[s] = NoFile => Written(s).drift = NoDrift /\ Written(s).tools = list[s]
           /\ seen[s] # NoFile => LET now == Compare(seen[s].tools, list[s], moves) IN
                 /\ seen[s] \in [tools : Lists, drift : [Tools -> Events]]
                 /\ Written(s).tools = seen[s].tools /\ SameShape(Written(s).drift, now)
                 /\ \A t \in Tools : Shape(seen[s].drift[t]) = Shape(Written(s).drift[t])
                                        => Written(s).drift[t] = seen[s].drift[t]
  <1>1. list[s] \in Lists /\ moves \in 0 .. MaxMoves
    BY DEF TypeOK, Actors
  <1>2. CASE seen[s] = NoFile
    BY <1>1, <1>2, EmptyTypes DEF Written
  <1>3. CASE seen[s] # NoFile
    <2> DEFINE now == Compare(seen[s].tools, list[s], moves)
    <2>1. seen[s] \in [tools : Lists, drift : [Tools -> Events]]
      BY <1>3 DEF TypeOK, Files
    <2>2. now \in [Tools -> Events]
      BY <1>1, <2>1, CompareTypes
    <2>3. Written(s) = [tools |-> seen[s].tools, drift |-> CarryOver(seen[s].drift, now)]
      BY <1>3 DEF Written
    <2>4. /\ CarryOver(seen[s].drift, now) \in [Tools -> Events]
          /\ SameShape(CarryOver(seen[s].drift, now), now)
          /\ \A t \in Tools : Shape(seen[s].drift[t]) = Shape(now[t]) =>
                CarryOver(seen[s].drift, now)[t] = seen[s].drift[t]
      BY <2>1, <2>2, CarryTypes
    <2>5. QED
      BY <1>3, <2>1, <2>3, <2>4 DEF SameShape
  <1>4. QED
    BY <1>2, <1>3

LEMMA LeaveTypes ==
    ASSUME TypeOK, NEW a \in Actors, Leave(a)
    PROVE  /\ pc' \in [Actors -> {"idle", "walk", "observe", "write", "record"}]
           /\ page' \in [Actors -> Nat] /\ list' \in [Actors -> Lists]
           /\ fetched' \in [Actors -> SUBSET DOMAIN Pages] /\ fetched'[a] = {}
           /\ pc'[a] = "idle" /\ page'[a] = 1
           /\ \A b \in Actors \ {a} : pc'[b] = pc[b] /\ page'[b] = page[b] /\ fetched'[b] = fetched[b] /\ list'[b] = list[b]
  BY EmptyTypes DEF TypeOK, Leave, Goto

LEMMA ReturnTypes ==
    ASSUME TypeOK, NEW s \in Sessions, Return(s)
    PROVE  /\ pc' \in [Actors -> {"idle", "walk", "observe", "write", "record"}]
           /\ page' \in [Actors -> Nat] /\ list' \in [Actors -> Lists]
           /\ fetched' \in [Actors -> SUBSET DOMAIN Pages] /\ fetched'[s] = {}
           /\ seen' \in [Sessions -> Files \ {NewerFile}] /\ gone' \subseteq Sessions
           /\ pc'[s] = "idle" /\ page'[s] = 1
           /\ \A a \in Actors \ {s} : pc'[a] = pc[a] /\ page'[a] = page[a] /\ fetched'[a] = fetched[a] /\ list'[a] = list[a]
           /\ \A r \in Sessions \ {s} : seen'[r] = seen[r]
  <1>1. s \in Actors /\ NoFile \in Files \ {NewerFile}
    BY PinAssumption DEF Actors, Files
  <1>2. seen' \in [Sessions -> Files \ {NewerFile}] /\ gone' \subseteq Sessions
        /\ \A r \in Sessions \ {s} : seen'[r] = seen[r]
    BY <1>1 DEF TypeOK, Return
  <1>3. QED
    BY <1>1, <1>2, LeaveTypes DEF Return

\* Pages are numbered, and a page leads to the next one, to none after the last,
\* or back to one after the first.
LEMMA PagesAreNumbered ==
    /\ Len(Pages) \in Nat /\ DOMAIN Pages = 1 .. Len(Pages)
    /\ \A i \in DOMAIN Pages : \A next \in Cursors(i) :
          /\ next \in Nat
          /\ \/ next = NoCursor /\ i = Len(Pages)
             \/ next \in DOMAIN Pages /\ next <= i + 1
  BY ServerAssumption DEF Cursors, NoCursor

LEMMA NextTypeOK == TypeOK /\ CommandIsLeft /\ [Next]_vars => TypeOK'
  <1> SUFFICES ASSUME TypeOK, CommandIsLeft, [Next]_vars PROVE TypeOK'
    OBVIOUS
  <1> USE DEF TypeOK, server, store, walk, Goto
  <1>0. Sessions \subseteq Actors /\ Cli \in Actors
    BY DEF Actors
  <1>1. ASSUME NEW t \in Tools, NEW d \in Definitions \cup {Absent}, ChangeTool(t, d) PROVE TypeOK'
    BY <1>1, PinAssumption DEF ChangeTool, Lists
  <1>2. ASSUME NEW allowed \in SUBSET Tools, EditRules(allowed) PROVE TypeOK'
    BY <1>2, PinAssumption DEF EditRules
  <1>3. CASE SetDrift
    BY <1>3, PinAssumption DEF SetDrift
  <1>4. ASSUME NEW a \in Actors, List(a) PROVE TypeOK'
    BY <1>4 DEF List
  <1>5. ASSUME NEW a \in Actors, Page(a) PROVE TypeOK'
    <2>1. [t \in Tools |-> IF t \in Pages[page[a]] THEN serves[t] ELSE list[a][t]] \in Lists
      BY DEF Lists
    <2>2. \A next \in Cursors(page[a]) : next \in Nat
      BY <1>5, PagesAreNumbered DEF Page
    <2>3. QED
      BY <1>5, <2>1, <2>2 DEF Page
  <1>6. ASSUME NEW a \in Actors, WalkFails(a) PROVE TypeOK'
    BY <1>6, LeaveTypes DEF WalkFails
  <1>7. ASSUME NEW s \in Sessions, Filter(s) PROVE TypeOK'
    <2>1. CASE watched
      <3>1. Keep(list[s], Shown(s)) \in Lists /\ Unlisted(s) \subseteq Tools
        BY <1>0, EmptyTypes DEF Unlisted
      <3>2. QED
        BY <1>0, <1>7, <2>1, <3>1 DEF Filter
    <2>2. CASE ~watched
      BY <1>0, <1>7, <2>2, LeaveTypes DEF Filter
    <2>3. QED
      BY <2>1, <2>2
  <1>8. ASSUME NEW s \in Sessions, ReadNothing(s) PROVE TypeOK'
    BY <1>0, <1>8, PinAssumption DEF ReadNothing, Files
  <1>9. ASSUME NEW s \in Sessions, ReadNewer(s) \/ ReadFails(s) PROVE TypeOK'
    BY <1>0, <1>9, ReturnTypes DEF ReadNewer, ReadFails
  <1>10. ASSUME NEW s \in Sessions, ReadSame(s) PROVE TypeOK'
    BY <1>0, <1>10, ReturnTypes DEF ReadSame
  <1>11. ASSUME NEW s \in Sessions, ReadDrift(s) PROVE TypeOK'
    BY <1>0, <1>11 DEF ReadDrift, HasPins
  <1>12. ASSUME NEW s \in Sessions, Write(s) PROVE TypeOK'
    <2>1. Written(s) \in Files /\ Written(s).drift \in [Tools -> Events]
      BY WrittenTypes DEF Files
    <2>2. CASE s \in gone
      BY <1>0, <1>12, <2>1, <2>2, ReturnTypes DEF Write
    <2>3. CASE s \notin gone
      BY <1>0, <1>12, <2>1, <2>3 DEF Write
    <2>4. QED
      BY <2>2, <2>3
  <1>13. ASSUME NEW s \in Sessions, WriteFails(s) PROVE TypeOK'
    BY <1>0, <1>13, ReturnTypes DEF WriteFails
  <1>14. ASSUME NEW s \in Sessions, Record(s) PROVE TypeOK'
    BY <1>0, <1>14, ReturnTypes, EmptyTypes DEF Record
  <1>15. ASSUME NEW s \in Sessions, HangUpOnWalk(s) PROVE TypeOK'
    BY <1>0, <1>15, LeaveTypes DEF HangUpOnWalk
  <1>16. ASSUME NEW s \in Sessions, HangUpOnCheck(s) PROVE TypeOK'
    BY <1>16 DEF HangUpOnCheck
  <1>17. CASE Pin
    <2>1. Keep(list[Cli], Shown(Cli)) \in Lists
      BY <1>0, EmptyTypes
    <2>2. [tools |-> Keep(list[Cli], Shown(Cli)), drift |-> NoDrift] \in Files
      BY <2>1, EmptyTypes DEF Files
    <2>3. commands' \in 0 .. MaxCommands
      BY <1>17, PinAssumption DEF Pin, CommandIsLeft
    <2>4. QED
      BY <1>0, <1>17, <2>1, <2>2, <2>3, LeaveTypes DEF Pin
  <1>18. CASE Unpin
    BY <1>18, PinAssumption DEF Unpin, Files
  <1>19. CASE UNCHANGED vars
    BY <1>19 DEF vars
  <1>20. QED
    BY <1>1, <1>2, <1>3, <1>4, <1>5, <1>6, <1>7, <1>8, <1>9, <1>10, <1>11, <1>12, <1>13, <1>14, <1>15,
       <1>16, <1>17, <1>18, <1>19 DEF Next, Observe

-----------------------------------------------------------------------------
(* One check at a time, and what it read.                                   *)

LEMMA NextCommandIsLeft == PinInv /\ [Next]_vars => CommandIsLeft'
  <1> SUFFICES ASSUME PinInv, [Next]_vars PROVE CommandIsLeft'
    OBVIOUS
  <1> USE DEF PinInv, TypeOK, CommandIsLeft, Goto
  <1>0. Sessions \subseteq Actors /\ Cli \in Actors /\ Cli \notin Sessions
    BY PinAssumption DEF Actors
  <1>1. ASSUME NEW a \in Actors, List(a) PROVE CommandIsLeft'
    BY <1>1 DEF List
  <1>2. ASSUME NEW a \in Actors, WalkFails(a) PROVE CommandIsLeft'
    BY <1>0, <1>2, LeaveTypes DEF WalkFails
  <1>3. CASE Pin
    BY <1>0, <1>3, LeaveTypes DEF Pin
  <1>4. CASE Unpin
    BY <1>4 DEF Unpin
  <1>5. ASSUME NEW s \in Sessions, Leave(s), UNCHANGED commands PROVE CommandIsLeft'
    BY <1>0, <1>5, LeaveTypes
  <1>6. ASSUME NEW s \in Sessions, NEW label, pc' = [pc EXCEPT ![s] = label], UNCHANGED commands
        PROVE  CommandIsLeft'
    BY <1>0, <1>6
  <1>7. CASE UNCHANGED << pc, commands >>
    BY <1>7
  <1>8. ASSUME NEW s \in Sessions, \/ Filter(s) \/ Observe(s) \/ Record(s) \/ HangUpOnWalk(s) \/ HangUpOnCheck(s)
        PROVE  CommandIsLeft'
    BY <1>5, <1>6, <1>7, <1>8
    DEF Filter, Observe, ReadNothing, ReadNewer, ReadSame, ReadDrift, Write, ReadFails, WriteFails, Record,
        HangUpOnWalk, HangUpOnCheck, Return
  <1>9. QED
    BY <1>1, <1>2, <1>3, <1>4, <1>7, <1>8 DEF Next, ChangeTool, EditRules, SetDrift, Page, vars

LEMMA NextGateIsHeld == PinInv /\ [Next]_vars => GateIsHeld'
  <1> SUFFICES ASSUME PinInv, [Next]_vars PROVE GateIsHeld'
    OBVIOUS
  <1> USE DEF PinInv, GateIsHeld, Goto, GateFree, store
  <1>0. /\ Sessions \subseteq Actors /\ Cli \in Actors \ Sessions /\ NoSession \notin Sessions
        /\ TypeOK /\ pc \in [Actors -> {"idle", "walk", "observe", "write", "record"}]
    BY PinAssumption DEF Actors, TypeOK
  <1>1. ASSUME NEW a \in Actors, List(a) \/ WalkFails(a) PROVE GateIsHeld'
    BY <1>0, <1>1, LeaveTypes DEF List, WalkFails
  <1>2. ASSUME NEW s \in Sessions, Filter(s) \/ HangUpOnWalk(s) PROVE GateIsHeld'
    BY <1>0, <1>2, LeaveTypes DEF Filter, HangUpOnWalk
  <1>3. ASSUME NEW s \in Sessions, ReadNothing(s) \/ ReadDrift(s) PROVE GateIsHeld'
    BY <1>0, <1>3 DEF ReadNothing, ReadDrift
  <1>4. ASSUME NEW s \in Sessions, ReadNewer(s) \/ ReadSame(s) \/ ReadFails(s) PROVE GateIsHeld'
    BY <1>0, <1>4, ReturnTypes DEF ReadNewer, ReadSame, ReadFails
  <1>5. ASSUME NEW s \in Sessions, Write(s) \/ WriteFails(s) PROVE GateIsHeld'
    <2>1. pc'[s] # "write" /\ \A r \in Sessions \ {s} : pc'[r] = pc[r]
      BY <1>0, <1>5, ReturnTypes DEF Write, WriteFails
    <2>2. gate = s /\ gate' = NoSession
      BY <1>5 DEF Write, WriteFails
    <2>3. QED
      BY <1>0, <2>1, <2>2
  <1>6. ASSUME NEW s \in Sessions, Record(s) PROVE GateIsHeld'
    BY <1>0, <1>6, ReturnTypes DEF Record
  <1>7. CASE Pin
    BY <1>0, <1>7, LeaveTypes DEF Pin
  <1>8. CASE UNCHANGED << pc, gate >>
    BY <1>8
  <1>9. QED
    BY <1>1, <1>2, <1>3, <1>4, <1>5, <1>6, <1>7, <1>8
    DEF Next, Observe, ChangeTool, EditRules, SetDrift, Page, HangUpOnCheck, Unpin, vars

\* The time of a comparison does not show in what it finds.
LEMMA DriftIsTimeless ==
    ASSUME TypeOK, TypeOK', NEW s \in Sessions, NEW pins \in Lists, NEW drift,
           list'[s] = list[s], ~SameShape(drift, Compare(pins, list[s], moves))
    PROVE  ~SameShape(drift, Compare(pins, list'[s], moves'))
  <1>1. SameShape(Compare(pins, list[s], moves), Compare(pins, list[s], moves'))
    BY CompareTypes DEF TypeOK, Actors
  <1>2. QED
    BY <1>1 DEF SameShape

LEMMA NextReadIsKept == PinInv /\ [Next]_vars => ReadIsKept'
  <1> SUFFICES ASSUME PinInv, [Next]_vars PROVE ReadIsKept'
    OBVIOUS
  <1> USE DEF PinInv, store
  <1>0. /\ Sessions \subseteq Actors /\ Cli \in Actors \ Sessions /\ TypeOK /\ TypeOK'
        /\ \A s \in Sessions : pc[s] = "write" => gate = s
    BY NextTypeOK, PinAssumption DEF Actors, GateIsHeld
  \* Whoever wrote or will write is left as it was, and so is the file, or it
  \* is given no drift.
  <1>1. ASSUME \A s \in Sessions : pc'[s] = "write" =>
                  pc[s] = "write" /\ seen'[s] = seen[s] /\ list'[s] = list[s],
               file' = file \/ (HasPins' => file'.drift = NoDrift)
        PROVE  ReadIsKept'
    <2> SUFFICES ASSUME NEW s \in Sessions, pc'[s] = "write", seen'[s] # NoFile
                 PROVE  /\ ~SameShape(seen'[s].drift, Compare(seen'[s].tools, list'[s], moves'))
                        /\ file' = seen'[s] \/ (HasPins' => file'.drift = NoDrift)
      BY DEF ReadIsKept
    <2>1. pc[s] = "write" /\ seen[s] # NoFile /\ seen'[s] = seen[s] /\ list'[s] = list[s]
      BY <1>1
    <2>2. seen[s].tools \in Lists
      BY <1>0, <2>1 DEF TypeOK, Files
    <2>3. ~SameShape(seen'[s].drift, Compare(seen'[s].tools, list'[s], moves'))
      BY <1>0, <2>1, <2>2, DriftIsTimeless DEF ReadIsKept
    <2>4. file' = seen'[s] \/ (HasPins' => file'.drift = NoDrift)
      BY <1>1, <2>1 DEF ReadIsKept, HasPins
    <2>5. QED
      BY <2>3, <2>4
  <1>2. ASSUME NEW a \in Actors, List(a) \/ WalkFails(a) \/ Page(a) PROVE ReadIsKept'
    <2>1. CASE List(a)
      BY <1>0, <1>1, <2>1 DEF List, Goto, TypeOK, walk
    <2>2. CASE WalkFails(a)
      BY <1>0, <1>1, <2>2, LeaveTypes DEF WalkFails
    <2>3. CASE Page(a)
      BY <1>0, <1>1, <2>3 DEF Page, TypeOK
    <2>4. QED
      BY <1>2, <2>1, <2>2, <2>3
  <1>3. ASSUME NEW s \in Sessions, Filter(s) \/ HangUpOnWalk(s) PROVE ReadIsKept'
    BY <1>0, <1>1, <1>3, LeaveTypes DEF Filter, HangUpOnWalk, Goto, TypeOK
  <1>4. ASSUME NEW s \in Sessions, ReadNothing(s) PROVE ReadIsKept'
    <2>1. \A r \in Sessions : pc'[r] = "write" => r = s
      BY <1>0, <1>4, PinAssumption DEF ReadNothing, Goto, TypeOK, GateFree
    <2>2. seen'[s] = NoFile
      BY <1>4 DEF ReadNothing, TypeOK
    <2>3. QED
      BY <2>1, <2>2 DEF ReadIsKept
  <1>5. ASSUME NEW s \in Sessions, ReadDrift(s) PROVE ReadIsKept'
    <2>1. \A r \in Sessions : pc'[r] = "write" => r = s
      BY <1>0, <1>5, PinAssumption DEF ReadDrift, Goto, TypeOK, GateFree
    <2>2. seen'[s] = file /\ file' = file /\ list' = list /\ moves' = moves
      BY <1>5 DEF ReadDrift, TypeOK, walk, server
    <2>3. ~SameShape(file.drift, Compare(file.tools, list[s], moves))
      BY <1>5 DEF ReadDrift, Unchanged
    <2>4. QED
      BY <2>1, <2>2, <2>3 DEF ReadIsKept
  <1>6. ASSUME NEW s \in Sessions, ReadNewer(s) \/ ReadSame(s) \/ ReadFails(s) PROVE ReadIsKept'
    BY <1>0, <1>1, <1>6, ReturnTypes DEF ReadNewer, ReadSame, ReadFails
  <1>7. ASSUME NEW s \in Sessions, Write(s) \/ WriteFails(s) PROVE ReadIsKept'
    <2>1. gate = s /\ gate' = NoSession
      BY <1>0, <1>7 DEF Write, WriteFails
    <2>2. QED
      BY <2>1, NextGateIsHeld, PinAssumption DEF GateIsHeld, ReadIsKept
  <1>8. ASSUME NEW s \in Sessions, Record(s) PROVE ReadIsKept'
    BY <1>0, <1>1, <1>8, ReturnTypes DEF Record
  <1>9. CASE Pin
    BY <1>0, <1>1, <1>9, LeaveTypes DEF Pin
  <1>10. CASE Unpin
    BY <1>1, <1>10 DEF Unpin, HasPins, walk
  <1>11. CASE UNCHANGED << pc, seen, list, file >>
    BY <1>1, <1>11
  <1>12. QED
    BY <1>2, <1>3, <1>4, <1>5, <1>6, <1>7, <1>8, <1>9, <1>10, <1>11
    DEF Next, Observe, ChangeTool, EditRules, SetDrift, HangUpOnCheck, walk, vars

-----------------------------------------------------------------------------
(* The drift on file.                                                       *)

\* Whether an event is all there is to say about a tool.
Tells(event, pinned, listed) ==
    IF pinned = listed THEN event = NoEvent
    ELSE event.before = LengthOf(pinned) /\ event.after = LengthOf(listed)

LEMMA ComparedTells ==
    ASSUME NEW pins \in Lists, NEW listed \in Lists, NEW now \in 0 .. MaxMoves, NEW drift \in [Tools -> Events],
           SameShape(drift, Compare(pins, listed, now)), NEW t \in Tools
    PROVE  Tells(drift[t], pins[t], listed[t])
  <1> DEFINE e == Compare(pins, listed, now)[t]
  <1>1. Shape(drift[t]) = Shape(e)
    BY DEF SameShape
  <1>2. drift[t].change = e.change /\ drift[t].before = e.before /\ drift[t].after = e.after
    BY <1>1, Shapes
  <1>3. drift[t] \in Events /\ e \in Events
    BY CompareTypes
  <1>4. CASE pins[t] = listed[t]
    <2>1. e = NoEvent
      BY <1>4, CompareTypes
    <2>2. QED
      BY <1>2, <1>3, <1>4, <2>1, Shapes DEF Tells
  <1>5. CASE pins[t] # listed[t]
    <2>1. e.before = LengthOf(pins[t]) /\ e.after = LengthOf(listed[t])
      BY <1>5, CompareTypes
    <2>2. QED
      BY <1>2, <1>5, <2>1 DEF Tells
  <1>6. QED
    BY <1>4, <1>5

LEMMA NextFileReflectsLastList == PinInv /\ [Next]_vars => FileReflectsLastList'
  <1> SUFFICES ASSUME PinInv, [Next]_vars PROVE FileReflectsLastList'
    OBVIOUS
  <1> USE DEF PinInv
  <1>0. Sessions \subseteq Actors /\ Cli \in Actors /\ moves \in 0 .. MaxMoves
    BY DEF Actors, TypeOK
  <1>1. ASSUME \A t \in Tools : Tells(file'.drift[t], file'.tools[t], lastList'[t]) PROVE FileReflectsLastList'
    BY <1>1 DEF FileReflectsLastList, Tells
  <1>2. CASE UNCHANGED << file, lastList >>
    BY <1>2 DEF FileReflectsLastList, HasPins
  <1>3. ASSUME NEW s \in Sessions, ReadSame(s) PROVE FileReflectsLastList'
    <2>1. file \in [tools : Lists, drift : [Tools -> Events]] /\ list[s] \in Lists
      BY <1>0, <1>3 DEF ReadSame, HasPins, TypeOK, Files
    <2>2. \A t \in Tools : Tells(file.drift[t], file.tools[t], list[s][t])
      BY <1>0, <1>3, <2>1, ComparedTells DEF ReadSame, Unchanged
    <2>3. file' = file /\ lastList' = list[s]
      BY <1>3 DEF ReadSame
    <2>4. QED
      BY <1>1, <2>2, <2>3
  <1>4. ASSUME NEW s \in Sessions, Write(s) PROVE FileReflectsLastList'
    <2>1. file' = Written(s) /\ lastList' = list[s] /\ list[s] \in Lists
      BY <1>0, <1>4 DEF Write, TypeOK
    <2>2. CASE seen[s] = NoFile
      BY <1>1, <2>1, <2>2, WrittenTypes, EmptyTypes DEF Tells
    <2>3. CASE seen[s] # NoFile
      <3>1. /\ Written(s) \in [tools : Lists, drift : [Tools -> Events]]
            /\ SameShape(Written(s).drift, Compare(Written(s).tools, list[s], moves))
        BY <2>3, WrittenTypes
      <3>2. \A t \in Tools : Tells(Written(s).drift[t], Written(s).tools[t], list[s][t])
        BY <1>0, <2>1, <3>1, ComparedTells
      <3>3. QED
        BY <1>1, <2>1, <3>2
    <2>4. QED
      BY <2>2, <2>3
  <1>5. CASE Pin
    <2>1. file'.tools = lastList' /\ file'.drift = NoDrift
      BY <1>5 DEF Pin
    <2>2. QED
      BY <1>1, <2>1, EmptyTypes DEF Tells
  <1>6. CASE Unpin
    BY <1>6 DEF Unpin, FileReflectsLastList, HasPins
  <1>7. QED
    BY <1>2, <1>3, <1>4, <1>5, <1>6
    DEF Next, Observe, ChangeTool, EditRules, SetDrift, List, Page, WalkFails, Filter, ReadNothing, ReadNewer,
        ReadDrift, ReadFails, WriteFails, Record, HangUpOnWalk, HangUpOnCheck, store, vars

LEMMA InitPinInv == Init => PinInv
  <1> SUFFICES ASSUME Init PROVE PinInv
    OBVIOUS
  <1>1. TypeOK
    BY EmptyTypes, PinAssumption, ServerAssumption DEF Init, TypeOK, Files
  <1>2. GateIsHeld /\ ReadIsKept /\ CommandIsLeft
    BY PinAssumption DEF Init, GateIsHeld, ReadIsKept, CommandIsLeft, Actors
  <1>3. FileReflectsLastList
    BY DEF Init, FileReflectsLastList, HasPins
  <1>4. QED
    BY <1>1, <1>2, <1>3 DEF PinInv

LEMMA PinInvariant == Spec => []PinInv
  <1>1. PinInv /\ [Next]_vars => PinInv'
    BY NextTypeOK, NextCommandIsLeft, NextGateIsHeld, NextReadIsKept, NextFileReflectsLastList DEF PinInv
  <1>2. QED
    BY <1>1, InitPinInv, PTL DEF Spec

-----------------------------------------------------------------------------
(* Tools that nobody touched, while no client has a table of its own.       *)

NobodyIsScoped == \A s \in Sessions : Scope[s] = Tools

\* A walk comes to the pages in their order: those before the next one are
\* fetched, and so are all of them when there is none.
WalksInOrder ==
    \A a \in Actors :
        /\ pc[a] = "idle" => page[a] = 1 /\ fetched[a] = {}
        /\ page[a] = NoCursor => DOMAIN Pages \subseteq fetched[a]
        /\ \A i \in DOMAIN Pages : i < page[a] => i \in fetched[a]
        /\ page[a] # NoCursor => page[a] = 1 \/ page[a] \in DOMAIN Pages
        /\ \A i \in fetched[a] : \A j \in DOMAIN Pages : j < i => j \in fetched[a]

\* An untouched tool is collected, checked and pinned as it is served.
FetchedSo(t) ==
    \A a \in Actors : pc[a] = "walk" =>
        \A i \in fetched[a] : t \in Pages[i] => list[a][t] = serves[t]
Checked(t) == \A s \in Sessions : pc[s] \in {"observe", "write"} => list[s][t] = serves[t]
Pinned(t)  == HasPins => file.tools[t] = serves[t] /\ file.drift[t] = NoEvent
ReadSo(t)  ==
    \A s \in Sessions : pc[s] = "write" /\ seen[s] # NoFile =>
        seen[s].tools[t] = serves[t] /\ seen[s].drift[t] = NoEvent
UntouchedIsServed ==
    \A t \in Tools \ (moved \cup missed) :
        t \in rules /\ FetchedSo(t) /\ Checked(t) /\ Pinned(t) /\ ReadSo(t)

SteadyInv == WalksInOrder /\ UntouchedIsServed

\* A walk that is over has collected an untouched tool, or was cut short of it.
LEMMA WalkedCollects ==
    ASSUME PinInv, SteadyInv, NEW a \in Actors, pc[a] = "walk", Walked(a), NEW t \in Tools \ (moved \cup missed)
    PROVE  list[a][t] = serves[t] \/ (CutShort(a) /\ t \in Unlisted(a))
  <1>1. PICK i \in DOMAIN Pages : t \in Pages[i]
    BY DEF Tools
  <1>2. \A j \in fetched[a] : t \in Pages[j] => list[a][t] = serves[t]
    BY DEF SteadyInv, UntouchedIsServed, FetchedSo
  <1>3. CASE CutShort(a)
    BY <1>2, <1>3 DEF Unlisted
  <1>4. CASE page[a] \notin DOMAIN Pages
    <2>1. page[a] = NoCursor \/ page[a] = 1
      BY <1>4 DEF SteadyInv, WalksInOrder
    <2>2. i \in fetched[a]
      BY <1>1, <1>4, <2>1, PagesAreNumbered DEF SteadyInv, WalksInOrder
    <2>3. QED
      BY <1>1, <1>2, <2>2
  <1>5. QED
    BY <1>3, <1>4 DEF Walked

LEMMA NextWalksInOrder == PinInv /\ WalksInOrder /\ [Next]_vars => WalksInOrder'
  <1> SUFFICES ASSUME PinInv, WalksInOrder, [Next]_vars PROVE WalksInOrder'
    OBVIOUS
  <1> USE DEF WalksInOrder
  <1>0. /\ TypeOK /\ Sessions \subseteq Actors /\ Cli \in Actors
        /\ page \in [Actors -> Nat] /\ fetched \in [Actors -> SUBSET DOMAIN Pages] /\ DOMAIN pc = Actors
    BY DEF PinInv, TypeOK, Actors
  <1>1. ASSUME NEW a \in Actors, Leave(a) PROVE WalksInOrder'
    <2>1. page'[a] = 1 /\ fetched'[a] = {} /\ \A i \in DOMAIN Pages : ~(i < 1)
      BY <1>0, <1>1, LeaveTypes, PagesAreNumbered
    <2>2. \A b \in Actors \ {a} : pc'[b] = pc[b] /\ page'[b] = page[b] /\ fetched'[b] = fetched[b]
      BY <1>0, <1>1, LeaveTypes
    <2>3. QED
      BY <2>1, <2>2 DEF NoCursor
  <1>2. ASSUME NEW a \in Actors, NEW label, pc' = [pc EXCEPT ![a] = label], label # "idle", UNCHANGED << page, fetched >>
        PROVE  WalksInOrder'
    BY <1>0, <1>2
  <1>3. ASSUME NEW a \in Actors, Page(a) PROVE WalksInOrder'
    <2>1. PICK next \in Cursors(page[a]) : page' = [page EXCEPT ![a] = next]
      BY <1>3 DEF Page
    <2>2. /\ pc[a] = "walk" /\ page[a] \in DOMAIN Pages /\ page[a] \in Nat /\ UNCHANGED pc
          /\ fetched' = [fetched EXCEPT ![a] = fetched[a] \cup {page[a]}]
      BY <1>0, <1>3 DEF Page
    <2>3. next \in Nat /\ ((next = NoCursor /\ page[a] = Len(Pages)) \/ (next \in DOMAIN Pages /\ next <= page[a] + 1))
      BY <2>2, PagesAreNumbered
    <2>4. page'[a] = next /\ fetched'[a] = fetched[a] \cup {page[a]} /\ pc'[a] = "walk"
      BY <1>0, <2>1, <2>2
    <2>5. \A i \in DOMAIN Pages : i < page[a] => i \in fetched[a]
      BY <1>0
    <2>6. \A i \in DOMAIN Pages : i <= page[a] => i \in fetched'[a]
      BY <2>2, <2>4, <2>5, PagesAreNumbered
    <2>7. \A i \in fetched'[a] : \A j \in DOMAIN Pages : j < i => j \in fetched'[a]
      BY <1>0, <2>2, <2>4, <2>6, PagesAreNumbered
    <2>8. /\ page'[a] = NoCursor => DOMAIN Pages \subseteq fetched'[a]
          /\ \A i \in DOMAIN Pages : i < page'[a] => i \in fetched'[a]
          /\ page'[a] # NoCursor => page'[a] = 1 \/ page'[a] \in DOMAIN Pages
      BY <2>2, <2>3, <2>4, <2>6, PagesAreNumbered DEF NoCursor
    <2>9. \A b \in Actors \ {a} : pc'[b] = pc[b] /\ page'[b] = page[b] /\ fetched'[b] = fetched[b]
      BY <1>0, <2>1, <2>2
    <2>10. QED
      BY <1>0, <2>4, <2>7, <2>8, <2>9
  <1>4. CASE UNCHANGED << pc, page, fetched >>
    BY <1>4
  <1>5. ASSUME NEW a \in Actors, List(a) \/ WalkFails(a) PROVE WalksInOrder'
    BY <1>1, <1>2, <1>5 DEF List, WalkFails, Goto, walk
  <1>6. ASSUME NEW s \in Sessions, \/ Filter(s) \/ Observe(s) \/ Record(s) \/ HangUpOnWalk(s) \/ HangUpOnCheck(s)
        PROVE  WalksInOrder'
    BY <1>0, <1>1, <1>2, <1>4, <1>6
    DEF Filter, Observe, ReadNothing, ReadNewer, ReadSame, ReadDrift, Write, ReadFails, WriteFails, Record,
        HangUpOnWalk, HangUpOnCheck, Return, Goto, walk
  <1>7. CASE Pin
    BY <1>0, <1>1, <1>7 DEF Pin
  <1>8. QED
    BY <1>3, <1>4, <1>5, <1>6, <1>7 DEF Next, ChangeTool, EditRules, SetDrift, Unpin, walk, vars

LEMMA NextUntouched ==
    ASSUME NobodyIsScoped, PinInv, SteadyInv, [Next]_vars PROVE UntouchedIsServed'
  <1> SUFFICES ASSUME NEW t \in Tools, t \notin (moved \cup missed)'
               PROVE  t \in rules' /\ FetchedSo(t)' /\ Checked(t)' /\ Pinned(t)' /\ ReadSo(t)'
    BY DEF UntouchedIsServed
  <1>0. /\ TypeOK /\ Sessions \subseteq Actors /\ Cli \in Actors /\ Cli \notin Sessions
        /\ pc \in [Actors -> {"idle", "walk", "observe", "write", "record"}]
        /\ page \in [Actors -> Nat] /\ fetched \in [Actors -> SUBSET DOMAIN Pages]
        /\ list \in [Actors -> Lists] /\ seen \in [Sessions -> Files \ {NewerFile}]
        /\ serves \in Lists
    BY PinAssumption DEF PinInv, TypeOK, Actors
  <1>1. t \notin moved \cup missed /\ serves'[t] = serves[t] /\ t \in rules'
    BY <1>0
    DEF Next, Observe, ChangeTool, EditRules, SetDrift, List, Page, WalkFails, Filter, ReadNothing, ReadNewer,
        ReadSame, ReadDrift, Write, ReadFails, WriteFails, Record, HangUpOnWalk, HangUpOnCheck, Pin, Unpin,
        server, store, vars, SteadyInv, UntouchedIsServed, Lists
  <1>2. t \in rules /\ FetchedSo(t) /\ Checked(t) /\ Pinned(t) /\ ReadSo(t)
    BY <1>1 DEF SteadyInv, UntouchedIsServed
  <1>3. CASE UNCHANGED << pc, page, fetched, list, seen, file >>
    BY <1>1, <1>2, <1>3 DEF FetchedSo, Checked, Pinned, ReadSo, HasPins
  <1>4. ASSUME NEW a \in Actors, List(a) PROVE FetchedSo(t)' /\ Checked(t)' /\ Pinned(t)' /\ ReadSo(t)'
    <2>1. pc' = [pc EXCEPT ![a] = "walk"] /\ fetched[a] = {} /\ UNCHANGED << page, fetched, list, seen, file >>
      BY <1>4 DEF List, Goto, walk, store, SteadyInv, WalksInOrder
    <2>3. FetchedSo(t)'
      BY <1>0, <1>1, <1>2, <2>1 DEF FetchedSo
    <2>4. QED
      BY <1>0, <1>1, <1>2, <2>1, <2>3 DEF Checked, Pinned, ReadSo, HasPins
  <1>5. ASSUME NEW a \in Actors, Page(a) PROVE FetchedSo(t)' /\ Checked(t)' /\ Pinned(t)' /\ ReadSo(t)'
    <2>1. /\ pc[a] = "walk" /\ fetched' = [fetched EXCEPT ![a] = fetched[a] \cup {page[a]}] /\ UNCHANGED << pc, seen, file >>
          /\ list'[a][t] = IF t \in Pages[page[a]] THEN serves[t] ELSE list[a][t]
          /\ \A b \in Actors \ {a} : list'[b] = list[b]
      BY <1>0, <1>5 DEF Page, store
    <2>3. FetchedSo(t)'
      BY <1>0, <1>1, <1>2, <2>1 DEF FetchedSo
    <2>4. QED
      BY <1>0, <1>1, <1>2, <2>1, <2>3 DEF Checked, Pinned, ReadSo, HasPins
  <1>6. ASSUME NEW a \in Actors, pc'[a] \notin {"walk", "observe", "write"}, UNCHANGED file,
               \A b \in Actors \ {a} : pc'[b] = pc[b] /\ page'[b] = page[b] /\ fetched'[b] = fetched[b] /\ list'[b] = list[b],
               \A r \in Sessions \ {a} : seen'[r] = seen[r]
        PROVE  FetchedSo(t)' /\ Checked(t)' /\ Pinned(t)' /\ ReadSo(t)'
    BY <1>0, <1>1, <1>2, <1>6 DEF FetchedSo, Checked, Pinned, ReadSo, HasPins
  <1>7. ASSUME NEW a \in Actors, WalkFails(a) PROVE FetchedSo(t)' /\ Checked(t)' /\ Pinned(t)' /\ ReadSo(t)'
    BY <1>0, <1>6, <1>7, LeaveTypes DEF WalkFails, store
  <1>8. ASSUME NEW s \in Sessions, Filter(s) PROVE FetchedSo(t)' /\ Checked(t)' /\ Pinned(t)' /\ ReadSo(t)'
    <2>1. CASE watched
      <3>1. /\ list' = [list EXCEPT ![s] = Keep(list[s], Shown(s))] /\ UNCHANGED << fetched, seen, file >>
            /\ pc' = [pc EXCEPT ![s] = "observe"] /\ pc[s] = "walk" /\ Walked(s)
            /\ missed' = missed \cup (IF CutShort(s) THEN Unlisted(s) ELSE {})
        BY <1>8, <2>1 DEF Filter, Goto
      <3>2. list[s][t] = serves[t] /\ t \in Shown(s)
        BY <1>0, <1>1, <1>2, <3>1, WalkedCollects DEF Shown, NobodyIsScoped
      <3>3. list'[s][t] = serves[t]
        BY <1>0, <3>1, <3>2, EmptyTypes
      <3>4. QED
        BY <1>0, <1>1, <1>2, <3>1, <3>3 DEF FetchedSo, Checked, Pinned, ReadSo, HasPins
    <2>2. CASE ~watched
      BY <1>0, <1>6, <1>8, <2>2, LeaveTypes DEF Filter, store
    <2>3. QED
      BY <2>1, <2>2
  <1>9. ASSUME NEW s \in Sessions, HangUpOnWalk(s) PROVE FetchedSo(t)' /\ Checked(t)' /\ Pinned(t)' /\ ReadSo(t)'
    BY <1>0, <1>6, <1>9, LeaveTypes DEF HangUpOnWalk, store
  <1>10. ASSUME NEW s \in Sessions, ReadNothing(s) \/ ReadDrift(s)
         PROVE  FetchedSo(t)' /\ Checked(t)' /\ Pinned(t)' /\ ReadSo(t)'
    <2>1. /\ pc' = [pc EXCEPT ![s] = "write"] /\ pc[s] = "observe" /\ UNCHANGED << fetched, list, file >>
          /\ \A r \in Sessions \ {s} : seen'[r] = seen[r]
          /\ seen'[s] = NoFile \/ (HasPins /\ seen'[s] = file)
      BY <1>0, <1>10 DEF ReadNothing, ReadDrift, Goto, walk
    <2>2. ReadSo(t)'
      BY <1>0, <1>1, <1>2, <2>1 DEF ReadSo, Pinned
    <2>3. QED
      BY <1>0, <1>1, <1>2, <2>1, <2>2 DEF FetchedSo, Checked, Pinned, HasPins
  <1>11. ASSUME NEW s \in Sessions, \/ ReadNewer(s) \/ ReadSame(s) \/ ReadFails(s) \/ WriteFails(s) \/ Record(s)
         PROVE  FetchedSo(t)' /\ Checked(t)' /\ Pinned(t)' /\ ReadSo(t)'
    <2>1. Return(s) /\ UNCHANGED file
      BY <1>11 DEF ReadNewer, ReadSame, ReadFails, WriteFails, Record, store
    <2>2. QED
      BY <1>0, <1>6, <2>1, ReturnTypes
  <1>12. ASSUME NEW s \in Sessions, Write(s) PROVE FetchedSo(t)' /\ Checked(t)' /\ Pinned(t)' /\ ReadSo(t)'
    <2>1. file' = Written(s) /\ list[s][t] = serves[t]
      BY <1>2, <1>12 DEF Write, Checked
    <2>2. Written(s).tools[t] = serves[t] /\ Written(s).drift[t] = NoEvent
      <3>1. CASE seen[s] = NoFile
        BY <2>1, <3>1, <1>0, WrittenTypes, EmptyTypes
      <3>2. CASE seen[s] # NoFile
        <4>1. seen[s].tools[t] = serves[t]
          BY <1>2, <1>12, <3>2 DEF Write, ReadSo
        <4>2. /\ Written(s) \in [tools : Lists, drift : [Tools -> Events]] /\ Written(s).tools = seen[s].tools
              /\ SameShape(Written(s).drift, Compare(Written(s).tools, list[s], moves))
          BY <1>0, <3>2, WrittenTypes
        <4>3. Tells(Written(s).drift[t], Written(s).tools[t], list[s][t])
          BY <1>0, <4>2, ComparedTells DEF TypeOK
        <4>4. QED
          BY <2>1, <4>1, <4>2, <4>3 DEF Tells
      <3>3. QED
        BY <3>1, <3>2
    <2>3. /\ pc'[s] \notin {"walk", "observe", "write"}
          /\ \A b \in Actors \ {s} : pc'[b] = pc[b] /\ page'[b] = page[b] /\ fetched'[b] = fetched[b] /\ list'[b] = list[b]
          /\ \A r \in Sessions \ {s} : seen'[r] = seen[r]
      <3>1. CASE s \in gone
        BY <1>0, <1>12, <3>1, ReturnTypes DEF Write
      <3>2. CASE s \notin gone
        BY <1>0, <1>12, <3>2 DEF Write, Goto, walk
      <3>3. QED
        BY <3>1, <3>2
    <2>4. QED
      BY <1>0, <1>1, <1>2, <2>1, <2>2, <2>3 DEF FetchedSo, Checked, Pinned, ReadSo, HasPins
  <1>13. CASE Pin
    <2>1. /\ file' = [tools |-> Keep(list[Cli], Shown(Cli)), drift |-> NoDrift]
          /\ pc[Cli] = "walk" /\ Walked(Cli) /\ Leave(Cli) /\ UNCHANGED seen
      BY <1>13 DEF Pin
    <2>2. list[Cli][t] = serves[t] /\ t \in Shown(Cli)
      BY <1>0, <1>1, <1>2, <2>1, WalkedCollects DEF Shown, CutShort
    <2>3. Pinned(t)'
      BY <1>0, <1>1, <2>1, <2>2, EmptyTypes DEF Pinned
    <2>4. QED
      BY <1>0, <1>1, <1>2, <2>1, <2>3, LeaveTypes DEF FetchedSo, Checked, ReadSo
  <1>14. CASE Unpin
    BY <1>1, <1>2, <1>14 DEF Unpin, walk, FetchedSo, Checked, Pinned, ReadSo, HasPins
  <1>15. QED
    BY <1>1, <1>3, <1>4, <1>5, <1>7, <1>8, <1>9, <1>10, <1>11, <1>12, <1>13, <1>14
    DEF Next, Observe, ChangeTool, EditRules, SetDrift, HangUpOnCheck, walk, store, vars

LEMMA InitSteadyInv == Init => SteadyInv
  <1> SUFFICES ASSUME Init PROVE SteadyInv
    OBVIOUS
  <1>1. \A i \in DOMAIN Pages : ~(i < 1)
    BY PagesAreNumbered
  <1>2. WalksInOrder
    BY <1>1 DEF Init, WalksInOrder, NoCursor
  <1>3. UntouchedIsServed
    BY DEF Init, UntouchedIsServed, FetchedSo, Checked, Pinned, ReadSo, HasPins, Actors
  <1>4. QED
    BY <1>2, <1>3 DEF SteadyInv

-----------------------------------------------------------------------------
\* Only a write, a pin and an unpin change the file, and only a write goes on to
\* report.
LEMMA WriteIsTheStep ==
    ASSUME TypeOK, [Next]_vars, NEW s \in Sessions, pc[s] = "write", pc'[s] = "record" PROVE Write(s)
  <1>0. Sessions \subseteq Actors /\ Cli \in Actors \ Sessions
        /\ pc \in [Actors -> {"idle", "walk", "observe", "write", "record"}]
    BY PinAssumption DEF TypeOK, Actors
  <1>1. \A a \in Actors : Leave(a) => pc'[s] # "record"
    BY <1>0, LeaveTypes
  <1>2. \A a \in Actors : \A label : pc' = [pc EXCEPT ![a] = label] => a = s /\ label = "record"
    BY <1>0
  <1>3. pc' # pc
    OBVIOUS
  <1>4. \A r \in Sessions : Write(r) => r = s
    BY <1>0, <1>1, <1>2 DEF Write, Return, Goto
  <1>5. QED
    BY <1>0, <1>1, <1>2, <1>3, <1>4
    DEF Next, Observe, ChangeTool, EditRules, SetDrift, List, Page, WalkFails, Filter, ReadNothing, ReadNewer,
        ReadSame, ReadDrift, ReadFails, WriteFails, Record, HangUpOnWalk, HangUpOnCheck, Pin, Unpin, Return,
        Goto, vars

LEMMA FileChanges ==
    [Next]_vars => \/ file' = file \/ \E s \in Sessions : Write(s)
                   \/ Pin \/ file' = NoFile
  BY DEF Next, Observe, ChangeTool, EditRules, SetDrift, List, Page, WalkFails, Filter, ReadNothing, ReadNewer,
         ReadSame, ReadDrift, ReadFails, WriteFails, Record, HangUpOnWalk, HangUpOnCheck, Unpin, store, vars

-----------------------------------------------------------------------------
(* The theorems.                                                            *)

\* Types: of the pin file and its drift, the lists in hand and the gate's
\* holder, for any sessions, tools and definitions.
THEOREM PinTypeCorrect == Spec => []TypeOK
  BY PinInvariant, PTL DEF PinInv

\* The drift on file is the whole difference between the pins on file and the
\* list last compared with them (PinFile of pins.rs), whatever is pinned or
\* unpinned from another process while a check is under way, and whichever
\* checks fail or lose their client.
THEOREM FileReflectsLastListHolds == Spec => []FileReflectsLastList
  BY PinInvariant, PTL DEF PinInv

\* A tool that neither the server nor its rules touched, and that no walk was cut
\* short of (merged_tools), is never on file as drifted, as long as no client kind
\* has a [clients.KIND] table of its own (which the pins of pins.rs:10 do not know
\* of): for any number of pages, any ceilings, and a server that goes in a circle.
THEOREM OnlyMovedToolsDriftHolds ==
    ASSUME NobodyIsScoped PROVE Spec => []OnlyMovedToolsDrift
  <1>1. PinInv /\ SteadyInv /\ [Next]_vars => SteadyInv'
    BY NextWalksInOrder, NextUntouched DEF SteadyInv
  <1>2. PinInv /\ SteadyInv => OnlyMovedToolsDrift
    BY DEF PinInv, TypeOK, Files, SteadyInv, UntouchedIsServed, Pinned, OnlyMovedToolsDrift, Drifted
  <1>3. QED
    BY <1>1, <1>2, InitSteadyInv, PinInvariant, PTL DEF Spec

\* A check goes on to report only when the file it replaces told of another
\* drift: the gate and the comparison before the write (PinStore::observe) hold against
\* any number of sessions and against pins from another process.
THEOREM SettledDriftIsQuietHolds == Spec => SettledDriftIsQuiet
  <1> DEFINE Quiet ==
        \A s \in Sessions : pc[s] = "write" /\ pc'[s] = "record" /\ HasPins
            => \/ Drifted(reported'[s]) = {}
               \/ ~SameShape(file.drift, reported'[s])
  <1>1. PinInv /\ [Next]_vars => Quiet
    <2> SUFFICES ASSUME PinInv, [Next]_vars, NEW s \in Sessions, pc[s] = "write", pc'[s] = "record", HasPins
                 PROVE  Drifted(reported'[s]) = {} \/ ~SameShape(file.drift, reported'[s])
      OBVIOUS
    <2>0. s \in Actors /\ TypeOK
      BY DEF Actors, PinInv
    <2>1. Write(s)
      BY <2>0, WriteIsTheStep
    <2>2. reported'[s] = Written(s).drift /\ Written(s).drift \in [Tools -> Events]
      BY <2>0, <2>1, ReturnTypes, WrittenTypes DEF Write, TypeOK
    <2>3. CASE seen[s] = NoFile
      BY <2>0, <2>2, <2>3, WrittenTypes, EmptyTypes DEF Drifted
    <2>4. CASE seen[s] # NoFile
      <3> DEFINE now == Compare(seen[s].tools, list[s], moves)
      <3>1. ~SameShape(seen[s].drift, now) /\ (file = seen[s] \/ file.drift = NoDrift)
        BY <2>4 DEF PinInv, ReadIsKept
      <3>2. SameShape(Written(s).drift, now)
        BY <2>0, <2>4, WrittenTypes
      <3>3. CASE file = seen[s]
        BY <2>2, <3>1, <3>2, <3>3 DEF SameShape
      <3>4. CASE file.drift = NoDrift
        BY <2>2, <3>4, EmptyTypes, Shapes DEF SameShape, Drifted
      <3>5. QED
        BY <3>1, <3>3, <3>4
    <2>5. QED
      BY <2>3, <2>4
  <1>2. PinInv /\ [Next]_vars => [Quiet]_vars
    BY <1>1
  <1>3. QED
    BY <1>2, PinInvariant, PTL DEF Spec, SettledDriftIsQuiet

\* An event on file keeps the time it was first noticed for as long as it stays
\* on file (carry_over of pins.rs), although checks write the whole file from
\* what they read of it.
THEOREM FirstNoticedIsKept == Spec => FirstNoticedKept
  <1> DEFINE Kept ==
        HasPins /\ file' \notin {NoFile, NewerFile} =>
            \A t \in Tools : Shape(file.drift[t]) = Shape(file'.drift[t]) => file.drift[t] = file'.drift[t]
  <1>1. PinInv /\ [Next]_vars => Kept
    <2> SUFFICES ASSUME PinInv, [Next]_vars, HasPins, file' \notin {NoFile, NewerFile}, NEW t \in Tools,
                        Shape(file.drift[t]) = Shape(file'.drift[t])
                 PROVE  file.drift[t] = file'.drift[t]
      OBVIOUS
    <2>0. TypeOK /\ file \in [tools : Lists, drift : [Tools -> Events]] /\ file.drift[t] \in Events
      BY DEF PinInv, TypeOK, HasPins, Files
    <2>1. CASE file'.drift[t] = NoEvent
      BY <2>0, <2>1, Shapes
    <2>2. CASE file' = file
      BY <2>2
    <2>3. ASSUME NEW s \in Sessions, Write(s) PROVE file.drift[t] = file'.drift[t]
      <3>1. file' = Written(s) /\ pc[s] = "write"
        BY <2>3 DEF Write
      <3>2. CASE seen[s] = NoFile
        BY <2>0, <2>1, <3>1, <3>2, WrittenTypes, EmptyTypes
      <3>3. CASE seen[s] # NoFile /\ file = seen[s]
        BY <2>0, <3>1, <3>3, WrittenTypes
      <3>4. CASE seen[s] # NoFile /\ file.drift = NoDrift
        <4>1. file.drift[t] = NoEvent /\ Written(s).drift[t] \in Events
          BY <2>0, <3>4, WrittenTypes, EmptyTypes
        <4>2. QED
          BY <3>1, <4>1, Shapes
      <3>5. QED
        BY <3>1, <3>2, <3>3, <3>4 DEF PinInv, ReadIsKept
    <2>4. CASE Pin
      BY <2>1, <2>4, EmptyTypes DEF Pin
    <2>5. QED
      BY <2>2, <2>3, <2>4, FileChanges
  <1>2. PinInv /\ [Next]_vars => [Kept]_vars
    BY <1>1
  <1>3. QED
    BY <1>2, PinInvariant, PTL DEF Spec, FirstNoticedKept
===============================================================================
