------------------------------ MODULE CaptureLog ------------------------------
(***************************************************************************)
(* The traffic log of a gateway, capture.rs: what a record may keep, the   *)
(* bounded queue in front of the writer thread, the daily files and their  *)
(* retention, and the barrier a shutdown waits for.                        *)
(*                                                                         *)
(* A captured text is a form and its pieces.  A piece is prose or          *)
(* something the rules know: a credential of a known shape, a value whose  *)
(* JSON key gives it away, a match of a user's pattern, a long run of      *)
(* characters.  What a cut leaves of one is recognised by nothing.         *)
(***************************************************************************)
EXTENDS Integers, Sequences, FiniteSets, SequencesExt

CONSTANTS
    Bodies,      \* the [capture] bodies mode: "off", "redacted" or "full"
    Room,        \* MAX_BODY_BYTES, in pieces
    Runs,        \* the long runs a text may hold: name -> its measurements
    QueueDepth,  \* QUEUE_DEPTH
    RetainDays,  \* [capture] retain_days
    FirstDay,    \* the day the gateway starts, counted from 1970-01-01
    MaxDays,     \* bound on midnights
    Leftovers    \* days whose files are there when it starts

ASSUME CaptureAssumption ==
    /\ Bodies \in {"off", "redacted", "full"}
    /\ Room \in Nat \ {0} /\ QueueDepth \in Nat \ {0}
    /\ RetainDays \in Nat /\ FirstDay \in Nat /\ MaxDays \in Nat
    /\ Leftovers \subseteq 0 .. FirstDay
    /\ "redacted" \notin DOMAIN Runs

-----------------------------------------------------------------------------
(* What is stored of a body.                                                *)

Piece(of) == [of |-> of, whole |-> TRUE]
Hidden    == Piece("redacted")
NoText    == [form |-> "none", pieces |-> << >>]
Known     == {"prose", "shaped", "matched", "keyed", "redacted"} \cup DOMAIN Runs
Pieces    == [of : Known, whole : BOOLEAN]
Texts     == [form : {"none", "json", "text", "cut"}, pieces : Seq(Pieces)]
\* A text nothing was cut from yet; only JSON has keys.
Incoming(text) ==
    \A i \in DOMAIN text.pieces :
        text.pieces[i].whole /\ (text.pieces[i].of = "keyed" => text.form = "json")

\* looks_like_a_secret: all four tests have to agree (the entropy in tenths
\* of a bit per character, the separators as a count).
LooksLikeASecret(run) ==
    /\ run.length >= 32
    /\ run.classes >= 2
    /\ run.longestWord < 8
    /\ run.separators * 100 < 15 * run.length
    /\ run.entropy >= 33

\* redact for what parses as JSON, redact_text for what does not: only the
\* first sees a value's key.
Recognised(form, piece) ==
    /\ piece.whole
    /\ \/ piece.of \in {"shaped", "matched"}
       \/ piece.of = "keyed" /\ form = "json"
       \/ piece.of \in DOMAIN Runs /\ LooksLikeASecret(Runs[piece.of])
RedactBody(text) ==
    [text EXCEPT !.pieces = [i \in DOMAIN @ |-> IF Recognised(text.form, @[i]) THEN Hidden ELSE @[i]]]
\* redact_text: no keys are looked for, be it JSON or not.
RedactText(text) ==
    [text EXCEPT !.pieces = [i \in DOMAIN @ |-> IF Recognised("text", @[i]) THEN Hidden ELSE @[i]]]

\* truncate: the cut falls inside the piece after Room whole ones, and what
\* is left is JSON no more.
Truncate(text) ==
    IF Len(text.pieces) <= Room THEN text
    ELSE [form |-> "cut",
          pieces |-> SubSeq(text.pieces, 1, Room) \o << [text.pieces[Room + 1] EXCEPT !.whole = FALSE] >>]

StoredCutFirst(text) ==  \* mutant: truncates, then redacts
    IF Bodies = "redacted" THEN RedactBody(Truncate(text)) ELSE Truncate(text)

Stored(text) == IF Bodies = "redacted" THEN Truncate(RedactBody(text)) ELSE Truncate(text)
StoredError(text) == IF Bodies = "redacted" THEN Truncate(RedactText(text)) ELSE Truncate(text)
\* CapturePolicy::applied.
BodyFields == {"args", "response", "error"}
HasBody(record) == \E f \in BodyFields : record[f] # NoText
Applied(record) ==
    IF ~HasBody(record) THEN record
    ELSE [record EXCEPT !.bodies = Bodies,
             !.args     = IF Bodies = "off" THEN NoText ELSE Stored(@),
             !.response = IF Bodies = "off" THEN NoText ELSE Stored(@),
             !.error    = IF Bodies = "off" THEN NoText ELSE StoredError(@)]

-----------------------------------------------------------------------------
(* Daily files.                                                             *)

\* civil_from_days.
CivilFromDays(days) ==
    LET shifted   == days + 719468
        era       == shifted \div 146097
        dayOfEra  == shifted % 146097
        yearOfEra == (dayOfEra - dayOfEra \div 1460 + dayOfEra \div 36524 - dayOfEra \div 146096) \div 365
        dayOfYear == dayOfEra - (365 * yearOfEra + yearOfEra \div 4 - yearOfEra \div 100)
        shiftedMonth == (5 * dayOfYear + 2) \div 153
        month     == IF shiftedMonth < 10 THEN shiftedMonth + 3 ELSE shiftedMonth - 9
    IN << (yearOfEra + era * 400) + (IF month <= 2 THEN 1 ELSE 0),
          month,
          dayOfYear - (153 * shiftedMonth + 2) \div 5 + 1 >>

\* daily_name; zero-padded, so names are compared as their parts in order.
DailyName(day) == CivilFromDays(day)
Before(name, other) ==
    \E i \in 1 .. 3 : name[i] < other[i] /\ \A j \in 1 .. i - 1 : name[j] = other[j]

\* A name that is not one of a daily file.
Foreign == << "notes" >>
IsDailyName(name) == Len(name) = 3

\* prune: the window counts today; 0 keeps everything.
Cutoff(day) == DailyName(IF day < RetainDays - 1 THEN 0 ELSE day - (RetainDays - 1))
Prunable(names, day) ==
    IF RetainDays = 0 THEN {} ELSE {n \in names : IsDailyName(n) /\ Before(n, Cutoff(day))}

-----------------------------------------------------------------------------
VARIABLES
    today,      \* days since 1970-01-01, UTC
    queue,      \* the channel to the writer thread: records and flush markers
    dropped,    \* the records the full queue refused
    lost,       \* the records the writer could not write
    files,      \* daily file -> the records in it, in the order written
    prunedDay,  \* Sink::pruned_day
    pruneFailed,\* history: the prune of that day failed
    flushing    \* where CaptureWriter::flush of the shutdown is

captureVars == << today, queue, dropped, lost, files, prunedDay, pruneFailed, flushing >>

Marker == [flush |-> TRUE]
IsMarker(message) == "flush" \in DOMAIN message

\* prune_if_due: the day is marked before the prune, and stays marked when
\* the prune fails.
Due(day) == prunedDay # day
SwappedForward(day) == IF day > prunedDay THEN day ELSE prunedDay  \* mutant: never goes back
Swapped(day) == day
Pruned(names, day, works) == IF Due(day) /\ works THEN names \ Prunable(names, day) ELSE names
Prune(day, works) ==
    /\ prunedDay' = Swapped(day)
    /\ pruneFailed' = IF Due(day) THEN ~works ELSE pruneFailed

\* serve builds the writer, which prunes once, and offloads it.
CaptureInit ==
    /\ today = FirstDay
    /\ queue = << >> /\ dropped = {} /\ lost = {}
    /\ LET names == {DailyName(day) : day \in Leftovers} \cup {Foreign}
       IN files = [n \in names \ Prunable(names, FirstDay) |-> << >>]
    /\ prunedDay = FirstDay /\ pruneFailed = FALSE
    /\ flushing = "no"

Midnight ==
    /\ today < FirstDay + MaxDays
    /\ today' = today + 1
    /\ UNCHANGED << queue, dropped, lost, files, prunedDay, pruneFailed, flushing >>

\* CaptureWriter::append: a try_send that never waits.
AppendRecord(record) ==
    /\ IF Len(queue) < QueueDepth
       THEN queue' = Append(queue, Applied(record)) /\ UNCHANGED dropped
       ELSE dropped' = dropped \cup {record.id} /\ UNCHANGED queue
    /\ UNCHANGED << today, lost, files, prunedDay, pruneFailed, flushing >>

\* The writer thread takes one record: it prunes if the record's day is due,
\* then opens the day's file, creating it, and appends.
WriteRecord(pruneWorks, writeWorks) ==
    /\ queue # << >> /\ ~IsMarker(Head(queue))
    /\ LET record == Head(queue)
           name   == DailyName(record.day)
           kept   == Pruned(DOMAIN files, record.day, pruneWorks)
       IN /\ files' = [n \in kept \cup (IF writeWorks THEN {name} ELSE {}) |->
                          LET old == IF n \in kept THEN files[n] ELSE << >>
                          IN IF n = name /\ writeWorks THEN Append(old, record) ELSE old]
          /\ lost' = IF writeWorks THEN lost ELSE lost \cup {record.id}
          /\ Prune(record.day, pruneWorks)
    /\ queue' = Tail(queue)
    /\ UNCHANGED << today, dropped, flushing >>

TryMarker ==  \* mutant: the marker is tried, like a record
    /\ flushing = "sending"
    /\ IF Len(queue) < QueueDepth
       THEN queue' = Append(queue, Marker) /\ flushing' = "waiting"
       ELSE flushing' = "done" /\ UNCHANGED queue
    /\ UNCHANGED << today, dropped, lost, files, prunedDay, pruneFailed >>
\* flush: the marker waits for room, unlike a record, and is answered by the
\* writer thread when it comes to it.
SendMarker ==
    /\ flushing = "sending" /\ Len(queue) < QueueDepth
    /\ queue' = Append(queue, Marker)
    /\ flushing' = "waiting"
    /\ UNCHANGED << today, dropped, lost, files, prunedDay, pruneFailed >>
AnswerMarker ==
    /\ queue # << >> /\ IsMarker(Head(queue))
    /\ queue' = Tail(queue)
    /\ flushing' = "done"
    /\ UNCHANGED << today, dropped, lost, files, prunedDay, pruneFailed >>

-----------------------------------------------------------------------------
(* Properties.                                                              *)

Written == UNION {ToSet(files[n]) : n \in DOMAIN files}

CaptureTypeOK ==
    /\ today \in FirstDay .. FirstDay + MaxDays
    /\ Len(queue) <= QueueDepth
    /\ \A n \in DOMAIN files : n = Foreign \/ \A r \in ToSet(files[n]) : DailyName(r.day) = n
    /\ pruneFailed \in BOOLEAN
    /\ flushing \in {"no", "sending", "waiting", "done"}

\* Once a record of some day was written, no daily file is older than that
\* day's window, unless the prune of the day failed, and nothing that is not
\* a daily file is ever removed: also when a record stamped before midnight
\* is written after one stamped after it (capture.rs:988-1008).
Past == Leftovers \cup FirstDay .. today
Stale(day) == {DailyName(old) : old \in {d \in Past : RetainDays # 0 /\ d + RetainDays <= day}} \cap DOMAIN files
RetentionHolds ==
    /\ Foreign \in DOMAIN files
    /\ ~pruneFailed => Stale(prunedDay) = {}

\* Nothing the rules recognise reaches the disk when bodies are redacted, in
\* whole or cut in half by the length cap, and no body at all when they are
\* off (capture.rs:18-22).
Sensitive(name) ==
    \/ name \in {"shaped", "matched", "keyed"}
    \/ name \in DOMAIN Runs /\ LooksLikeASecret(Runs[name])
Exposed(text) == {i \in DOMAIN text.pieces : Sensitive(text.pieces[i].of)}
NoCredentialOnDisk ==
    \A r \in Written : \A f \in BodyFields :
        /\ Bodies = "off" => r[f] = NoText
        /\ Bodies = "redacted" => Exposed(r[f]) = {}
=============================================================================
