------------------------------- MODULE ToolPins ------------------------------
(***************************************************************************)
(* Tool definition pins of one server: src/crates/core/src/pins.rs, the    *)
(* tools/list path of gateway.rs that feeds it, and `mcpgw tools NAME pin` *)
(* and `unpin`, which write the same file from another process.            *)
(*                                                                         *)
(* A definition stands for its hash; Length gives the description length   *)
(* that drift events carry beside it.  A list of tools, and a pin file's   *)
(* tools, is a function from tool to definition, Absent where it has none. *)
(***************************************************************************)
EXTENDS Naturals, Sequences, FiniteSets

CONSTANTS
    Sessions,    \* gateway sessions, one tools/list of each at a time
    Cli,         \* the command line, as one more actor that lists
    Scope,       \* session -> the tools its [clients.KIND] table leaves it
    HangsUp,     \* the sessions whose client may hang up
    Definitions, \* tool definitions, by hash
    Length,      \* definition -> length of its description
    Pages,       \* the server's tools, page by page
    Circling,    \* the pages that may come with a cursor handed out before
    MAX_TOOL_PAGES, MAX_MERGED_TOOLS, \* what one gateway walk collects at most
    MaxMoves,    \* bound on changes of the server and edits of its tool rules
    MaxCommands, \* bound on pins and unpins from the command line
    Starts,      \* what the server may serve at first
    Absent, NoFile, NewerFile, NoSession

ASSUME PinAssumption ==
    /\ Cli \notin Sessions /\ NoSession \notin Sessions
    /\ HangsUp \subseteq Sessions
    /\ Absent \notin Definitions /\ NoFile # NewerFile
    /\ Length \in [Definitions -> Nat]
    /\ MaxMoves \in Nat /\ MaxCommands \in Nat

Actors == Sessions \cup {Cli}
Tools  == UNION {Pages[i] : i \in DOMAIN Pages}
Lists == [Tools -> Definitions \cup {Absent}]
ASSUME ServerAssumption ==
    /\ Pages \in Seq(SUBSET Tools) /\ Starts \subseteq Lists /\ Circling \subseteq DOMAIN Pages
    /\ \A i, j \in DOMAIN Pages : i # j => Pages[i] \cap Pages[j] = {}
    /\ MAX_TOOL_PAGES \in Nat \ {0} /\ MAX_MERGED_TOOLS \in Nat \ {0}
    /\ Scope \in [Sessions -> SUBSET Tools]

Empty == [t \in Tools |-> Absent]
Keep(list, kept) == [t \in Tools |-> IF t \in kept THEN list[t] ELSE Absent]

-----------------------------------------------------------------------------
(* Drift: at most one event for a tool, made from what is pinned and what   *)
(* is listed.  Time is the number of moves so far.                          *)

NoLength == 0
NoEvent  == [change |-> "none", before |-> NoLength, after |-> NoLength, at |-> 0]
LengthOf(d) == IF d = Absent THEN NoLength ELSE 1 + Length[d]
ChangeSwapped(pin, d) ==  \* mutant: added and removed swapped
    IF pin = Absent THEN "removed" ELSE IF d = Absent THEN "added" ELSE "changed"
Change(pin, d) == IF pin = Absent THEN "added" ELSE IF d = Absent THEN "removed" ELSE "changed"

Event(pin, d, now) ==
    IF pin = d THEN NoEvent
    ELSE [change |-> Change(pin, d), before |-> LengthOf(pin), after |-> LengthOf(d), at |-> now]

\* compare.
CompareServed(pins, list, now) ==  \* mutant: forgets the pinned tools that are gone
    [t \in Tools |-> IF list[t] = Absent THEN NoEvent ELSE Event(pins[t], list[t], now)]
Compare(pins, list, now) == [t \in Tools |-> Event(pins[t], list[t], now)]

\* DriftEvent::shape.
Shape(event) == << event.change, event.before, event.after >>
SameShape(old, new) == \A t \in Tools : Shape(old[t]) = Shape(new[t])

\* An event already on file keeps the time it was first noticed.
Restamp(old, new) == new  \* mutant: every event is stamped anew
CarryOver(old, new) ==
    [t \in Tools |-> IF Shape(old[t]) = Shape(new[t]) THEN old[t] ELSE new[t]]

NoDrift == [t \in Tools |-> NoEvent]
Drifted(drift) == {t \in Tools : drift[t] # NoEvent}

-----------------------------------------------------------------------------
VARIABLES
    serves,    \* what the server would list now
    rules,     \* the tools its [servers.NAME.tools] table allows
    watched,   \* its drift setting is "warn"
    moves,     \* changes and edits so far
    moved,     \* history: the tools a change or an edit touched
    file,      \* the pin file
    gate,      \* PinStore's mutex: the session inside observe
    pc,        \* where each actor is
    page,      \* the page its cursor leads to, NoCursor after the last one
    fetched,   \* the pages it has fetched
    list,      \* the tools it has collected
    seen,      \* the pin file as observe read it
    reported,  \* the events observe gave back, to be recorded
    gone,      \* the sessions whose handler was dropped
    recorded,  \* history: tools and shapes of the drift records written
    lastList,  \* history: the list last pinned or compared, Empty if none
    missed,    \* history: the tools a walk that was cut short did not come to
    commands   \* pins and unpins so far

server == << serves, rules, watched, moves, moved >>
store  == << file, gate, lastList, missed >>
walk   == << page, fetched, list >>
vars   == << serves, rules, watched, moves, moved, file, gate, pc, page, fetched, list,
             seen, reported, gone, recorded, lastList, missed, commands >>

HasPins == file \notin {NoFile, NewerFile}
Goto(a, label) == pc' = [pc EXCEPT ![a] = label]
\* Back to idle; what the request held is dropped with it.
Leave(a) ==
    /\ Goto(a, "idle")
    /\ page' = [page EXCEPT ![a] = 1]
    /\ fetched' = [fetched EXCEPT ![a] = {}]
    /\ list' = [list EXCEPT ![a] = Empty]

-----------------------------------------------------------------------------
(* The server and its tool rules move by themselves.                        *)

ChangeTool(t, d) ==
    /\ moves < MaxMoves /\ serves[t] # d
    /\ serves' = [serves EXCEPT ![t] = d]
    /\ moves' = moves + 1
    /\ moved' = moved \cup {t}
    /\ UNCHANGED << rules, watched, store, pc, walk, seen, reported, gone, recorded, commands >>

EditRules(allowed) ==
    /\ moves < MaxMoves /\ rules # allowed
    /\ rules' = allowed
    /\ moves' = moves + 1
    /\ moved' = moved \cup (rules \ allowed) \cup (allowed \ rules)
    /\ UNCHANGED << serves, watched, store, pc, walk, seen, reported, gone, recorded, commands >>

SetDrift ==
    /\ moves < MaxMoves
    /\ watched' = ~watched
    /\ moves' = moves + 1
    /\ UNCHANGED << serves, rules, moved, store, pc, walk, seen, reported, gone, recorded, commands >>

-----------------------------------------------------------------------------
(* list_tools and merged_tools: one page after the other.  fingerprint_tools *)
(* walks the same pages for the command line, without the ceilings.         *)

NoCursor == 0

\* What a page may say comes next.  Page one is asked for without a cursor, so
\* none leads to it; a server that circles leads to a page it led to before.
Cursors(i) ==
    {IF i = Len(Pages) THEN NoCursor ELSE i + 1} \cup (IF i \in Circling THEN 2 .. i ELSE {})

List(a) ==
    /\ pc[a] = "idle"
    /\ a = Cli => commands < MaxCommands
    /\ Goto(a, "walk")
    /\ UNCHANGED << server, store, walk, seen, reported, gone, recorded, commands >>

\* The three reasons to stop although a cursor is left: it was handed out
\* before, or the pages or the tools are as many as one walk takes.
Collected(a) == {t \in Tools : list[a][t] # Absent}
CutShort(a) ==
    /\ a # Cli /\ page[a] \in DOMAIN Pages
    /\ \/ page[a] \in fetched[a]
       \/ Cardinality(fetched[a]) >= MAX_TOOL_PAGES
       \/ Cardinality(Collected(a)) >= MAX_MERGED_TOOLS

Page(a) ==
    /\ pc[a] = "walk" /\ page[a] \in DOMAIN Pages /\ ~CutShort(a)
    /\ list' = [list EXCEPT ![a] =
                  [t \in Tools |-> IF t \in Pages[page[a]] THEN serves[t] ELSE @[t]]]
    /\ fetched' = [fetched EXCEPT ![a] = @ \cup {page[a]}]
    /\ \E next \in Cursors(page[a]) : page' = [page EXCEPT ![a] = next]
    /\ UNCHANGED << server, store, pc, seen, reported, gone, recorded, commands >>

\* However the walk ended, the list is handed on without a cursor.
WalkedSome(a) == page[a] # 1  \* mutant: a page is taken for the list
Walked(a) == page[a] \notin DOMAIN Pages \/ CutShort(a)

\* The tools of the pages that were not fetched.
Unlisted(a) == {t \in Tools : \A i \in fetched[a] : t \notin Pages[i]}

WalkFails(a) ==
    /\ pc[a] = "walk"
    /\ Leave(a)
    /\ UNCHANGED << server, store, seen, reported, gone, recorded, commands >>

\* The tools this actor is shown, by the server's rules and the client's scope.
Shown(a) == IF a = Cli THEN rules ELSE rules \cap Scope[a]

\* list_tools' filter, and check_drift up to the blocking task.
Filter(s) ==
    /\ pc[s] = "walk" /\ Walked(s)
    /\ IF watched
       THEN /\ list' = [list EXCEPT ![s] = Keep(@, Shown(s))]
            /\ missed' = missed \cup (IF CutShort(s) THEN Unlisted(s) ELSE {})
            /\ Goto(s, "observe")
            /\ UNCHANGED << page, fetched >>
       ELSE Leave(s) /\ UNCHANGED missed
    /\ UNCHANGED << server, file, gate, lastList, seen, reported, gone, recorded, commands >>

-----------------------------------------------------------------------------
(* PinStore::observe on its blocking thread.  The gate is held from the     *)
(* read of the pin file to the write; another process is not bound by it.   *)

GateIgnored == TRUE  \* mutant: no gate
GateFree == gate = NoSession

Unchanged(s) == SameShape(file.drift, Compare(file.tools, list[s], moves))

Return(s) ==
    /\ Leave(s)
    /\ seen' = [seen EXCEPT ![s] = NoFile]
    /\ gone' = gone \ {s}

ReadNothing(s) ==
    /\ pc[s] = "observe" /\ GateFree /\ file = NoFile
    /\ gate' = s
    /\ seen' = [seen EXCEPT ![s] = NoFile]
    /\ Goto(s, "write")
    /\ UNCHANGED << server, file, lastList, missed, walk, reported, gone, recorded, commands >>

\* A file of a newer build is left alone.
ReadNewer(s) ==
    /\ pc[s] = "observe" /\ GateFree /\ file = NewerFile
    /\ Return(s)
    /\ UNCHANGED << server, store, reported, recorded, commands >>

ReadSame(s) ==
    /\ pc[s] = "observe" /\ GateFree /\ HasPins /\ Unchanged(s)
    /\ lastList' = list[s]
    /\ Return(s)
    /\ UNCHANGED << server, file, gate, missed, reported, recorded, commands >>

ReadDrift(s) ==
    /\ pc[s] = "observe" /\ GateFree /\ HasPins /\ ~Unchanged(s)
    /\ gate' = s
    /\ seen' = [seen EXCEPT ![s] = file]
    /\ Goto(s, "write")
    /\ UNCHANGED << server, file, lastList, missed, walk, reported, gone, recorded, commands >>

\* The whole file is written: first sight pins, afterwards the drift is
\* replaced beside the pins that were read.
Written(s) ==
    IF seen[s] = NoFile THEN [tools |-> list[s], drift |-> NoDrift]
    ELSE [tools |-> seen[s].tools,
          drift |-> CarryOver(seen[s].drift, Compare(seen[s].tools, list[s], moves))]

\* check_drift goes on to the records, unless its future was dropped.
Write(s) ==
    /\ pc[s] = "write"
    /\ file' = Written(s)
    /\ lastList' = list[s]
    /\ gate' = NoSession
    /\ IF s \in gone
       THEN Return(s) /\ UNCHANGED reported
       ELSE /\ reported' = [reported EXCEPT ![s] = Written(s).drift]
            /\ Goto(s, "record")
            /\ UNCHANGED << walk, seen, gone >>
    /\ UNCHANGED << server, missed, recorded, commands >>

\* The file could not be read, or not be written: a warning, and no record.
ReadFails(s) ==
    /\ pc[s] = "observe" /\ GateFree
    /\ Return(s)
    /\ UNCHANGED << server, store, reported, recorded, commands >>

WriteFails(s) ==
    /\ pc[s] = "write"
    /\ gate' = NoSession
    /\ Return(s)
    /\ UNCHANGED << server, file, lastList, missed, reported, recorded, commands >>

\* check_drift's loop over the events: no await in it.
Record(s) ==
    /\ pc[s] = "record"
    /\ recorded' = recorded \cup {<< t, Shape(reported[s][t]) >> : t \in Drifted(reported[s])}
    /\ reported' = [reported EXCEPT ![s] = NoDrift]
    /\ Return(s)
    /\ UNCHANGED << server, store, commands >>

\* The client hangs up: a walk ends there, but a blocking task that was spawned
\* runs to its end with nobody left to take what it returns.
HangUpOnWalk(s) ==
    /\ s \in HangsUp /\ pc[s] = "walk"
    /\ Leave(s)
    /\ UNCHANGED << server, store, seen, reported, gone, recorded, commands >>

HangUpOnCheck(s) ==
    /\ s \in HangsUp /\ pc[s] \in {"observe", "write"} /\ s \notin gone
    /\ gone' = gone \cup {s}
    /\ UNCHANGED << server, store, pc, walk, seen, reported, recorded, commands >>

-----------------------------------------------------------------------------
(* mcpgw tools NAME pin, once the tools are in hand, and unpin.             *)

Pin ==
    /\ pc[Cli] = "walk" /\ Walked(Cli)
    /\ file' = [tools |-> Keep(list[Cli], Shown(Cli)), drift |-> NoDrift]
    /\ lastList' = Keep(list[Cli], Shown(Cli))
    /\ commands' = commands + 1
    /\ Leave(Cli)
    /\ UNCHANGED << server, gate, missed, seen, reported, gone, recorded >>

Unpin ==
    /\ pc[Cli] = "idle" /\ commands < MaxCommands
    /\ file' = NoFile
    /\ commands' = commands + 1
    /\ UNCHANGED << server, gate, lastList, missed, pc, walk, seen, reported, gone, recorded >>

-----------------------------------------------------------------------------
Init ==
    /\ serves \in Starts
    /\ rules = Tools /\ watched = TRUE /\ moves = 0 /\ moved = {}
    /\ file \in {NoFile, NewerFile}
    /\ gate = NoSession
    /\ pc = [a \in Actors |-> "idle"]
    /\ page = [a \in Actors |-> 1] /\ fetched = [a \in Actors |-> {}]
    /\ list = [a \in Actors |-> Empty]
    /\ seen = [s \in Sessions |-> NoFile]
    /\ reported = [s \in Sessions |-> NoDrift]
    /\ gone = {} /\ recorded = {} /\ lastList = Empty /\ missed = {} /\ commands = 0

Observe(s) ==
    \/ ReadNothing(s) \/ ReadNewer(s) \/ ReadSame(s) \/ ReadDrift(s)
    \/ Write(s) \/ ReadFails(s) \/ WriteFails(s)

Next ==
    \/ \E t \in Tools, d \in Definitions \cup {Absent} : ChangeTool(t, d)
    \/ \E allowed \in SUBSET Tools : EditRules(allowed)
    \/ SetDrift
    \/ \E a \in Actors : List(a) \/ Page(a) \/ WalkFails(a)
    \/ \E s \in Sessions : \/ Filter(s) \/ Observe(s) \/ Record(s)
                           \/ HangUpOnWalk(s) \/ HangUpOnCheck(s)
    \/ Pin \/ Unpin

Spec == Init /\ [][Next]_vars

-----------------------------------------------------------------------------
(* Properties.                                                              *)

Events == {NoEvent} \cup
    [change : {"added"},   before : {NoLength}, after : Nat \ {NoLength}, at : 0 .. MaxMoves] \cup
    [change : {"removed"}, before : Nat \ {NoLength}, after : {NoLength}, at : 0 .. MaxMoves] \cup
    [change : {"changed"}, before : Nat \ {NoLength}, after : Nat \ {NoLength}, at : 0 .. MaxMoves]
Files == [tools : Lists, drift : [Tools -> Events]] \cup {NoFile, NewerFile}

\* Type invariant.
TypeOK ==
    /\ serves \in Lists /\ rules \subseteq Tools /\ watched \in BOOLEAN
    /\ moves \in 0 .. MaxMoves /\ moved \subseteq Tools
    /\ file \in Files
    /\ gate \in Sessions \cup {NoSession}
    /\ pc \in [Actors -> {"idle", "walk", "observe", "write", "record"}]
    /\ page \in [Actors -> Nat] /\ fetched \in [Actors -> SUBSET DOMAIN Pages]
    /\ list \in [Actors -> Lists]
    /\ seen \in [Sessions -> Files \ {NewerFile}]
    /\ reported \in [Sessions -> [Tools -> Events]]
    /\ gone \subseteq Sessions
    /\ lastList \in Lists /\ missed \subseteq Tools
    /\ commands \in 0 .. MaxCommands

\* pins.rs:10 "what the server serves is one fact": a tool that neither the
\* server nor its rules ever touched, and that no walk was cut short of, is never
\* on file as drifted, whoever lists, in whatever order, while the server changes
\* between two pages of one walk, and whether or not a walk goes in a circle.
OnlyMovedToolsDrift == HasPins => Drifted(file.drift) \subseteq moved \cup missed

\* gateway.rs:375-378: a fraction of the list is never compared with the whole
\* pin.  A tool that a walk was cut short of, and nobody touched, has no event.
OnlyWholeListsCompared == HasPins => Drifted(file.drift) \cap missed \subseteq moved

\* The drift on file is the whole difference between the pins on file and the
\* list last compared with them (PinFile.drift's doc), through hang-ups, failed
\* writes, and a pin that lands between observe's read and its write.
FileReflectsLastList ==
    HasPins => \A t \in Tools :
        LET event == file.drift[t]  pinned == file.tools[t]  listed == lastList[t] IN
        IF pinned = listed THEN event = NoEvent
        ELSE event.before = LengthOf(pinned) /\ event.after = LengthOf(listed)

\* A list that disagrees with the pins as the drift on file says is no news: a
\* check goes on to report only when the file it replaces told of another drift,
\* be it in one tool.  What it then reports is the whole drift, old events too,
\* although pins.rs:481-483 speaks of the events that are new.
SettledDriftIsQuiet ==
    [][\A s \in Sessions : pc[s] = "write" /\ pc'[s] = "record" /\ HasPins
           => \/ Drifted(reported'[s]) = {}
              \/ ~SameShape(file.drift, reported'[s])]_vars

\* An event on file keeps the time it was first noticed for as long as it
\* stays on file.
FirstNoticedKept ==
    [][HasPins /\ file' \notin {NoFile, NewerFile} =>
         \A t \in Tools : Shape(file.drift[t]) = Shape(file'.drift[t])
                              => file.drift[t] = file'.drift[t]]_vars

\* book/src/gateway.md:129: each drift event is reported.  An event on file has
\* its record in the traffic log, or is in the hands of a check about to write it.
DriftIsRecorded ==
    HasPins => \A t \in Drifted(file.drift) :
        \/ << t, Shape(file.drift[t]) >> \in recorded
        \/ \E s \in Sessions : /\ pc[s] = "record"
                               /\ Shape(reported[s][t]) = Shape(file.drift[t])
=============================================================================
