------------------------------ MODULE Journal -------------------------------
(***************************************************************************)
(* The event journal (internal/journal/journal.go): one writer appends     *)
(* lines through a buffer, flushes and syncs them in batches, and rotates  *)
(* its file by renames.  The disk may refuse a step, the process may die   *)
(* between any two, and every service opens its own journal this way.      *)
(*                                                                         *)
(* A line's length is 1.  disk holds the lines known to be on disk; buf    *)
(* those appended since the last sync, of which a crash keeps a prefix and *)
(* may tear the next.  Torn is such a half line: a line written behind it  *)
(* without a newline between them cannot be read either.                   *)
(***************************************************************************)
EXTENDS Naturals, Sequences, FiniteSets

CONSTANTS
    MaxLines,    \* lines of a file before it is rotated
    MaxFiles,    \* rotated files kept
    FlushEvery,  \* appended lines that force a sync
    MaxEvents,   \* bound on the events appended
    MaxTroubles  \* bound on refused steps and crashes

ASSUME JournalAssumption == {MaxLines, MaxFiles, FlushEvery} \subseteq Nat \ {0}

VARIABLES
    journal,   \* the Writer and its files, with two ghosts: synced, the events a
               \* successful sync covered, and refused, how often the newline that
               \* closes a half line could not be written
    events,    \* events appended so far, also the next one's identity
    troubles   \* what is left of MaxTroubles

journalVars == <<journal, events, troubles>>

NoFile == <<>>
Torn == [id |-> 0, seq |-> 0]     \* a half line, the newline missing
Scrap == [id |-> 0, seq |-> 1]    \* a line that cannot be read, closed by a newline

InitJournal ==
    /\ journal = [old |-> [i \in 1..MaxFiles |-> NoFile], disk |-> <<>>, buf |-> <<>>,
                  size |-> 0, seq |-> 0, open |-> TRUE, stuck |-> FALSE,
                  synced |-> {}, refused |-> 0]
    /\ events = 0 /\ troubles = MaxTroubles

-----------------------------------------------------------------------------
(* The writer's steps, each with what it may do when the disk refuses.     *)

IdsOf(lines) == {lines[i].id : i \in DOMAIN lines} \ {0}
EndsTorn(lines) == lines # <<>> /\ lines[Len(lines)] = Torn

\* The first of the lines lands in the half line before it.
Landed(lines) ==
    IF lines = <<>> \/ lines[1] = Torn THEN lines ELSE [lines EXCEPT ![1] = Scrap]

\* lines, written behind what the file holds.
Behind(file, lines) == file \o (IF EndsTorn(file) THEN Landed(lines) ELSE lines)

\* openActive closes a half line before anything else is written.  The disk may
\* refuse the newline; the file is open all the same.
Padded(file) ==
    IF EndsTorn(file) THEN [file EXCEPT ![Len(file)] = Scrap] ELSE file

Opened(j, closes) ==
    [j EXCEPT !.disk = IF closes THEN Padded(@) ELSE @, !.buf = <<>>,
              !.size = Len(j.disk), !.open = TRUE, !.stuck = FALSE,
              !.refused = @ + (IF EndsTorn(j.disk) /\ ~closes THEN 1 ELSE 0)]

\* What may be on disk of the buffered lines when their write is cut short.
CutShort(lines) ==
    {SubSeq(lines, 1, k) : k \in 0..Len(lines)}
        \cup {Append(SubSeq(lines, 1, k), Torn) : k \in 0..Len(lines) - 1}

\* flushLocked.  A buffer whose write failed refuses everything from then on.
Flushed(j) ==
    [j EXCEPT !.disk = Behind(@, j.buf), !.buf = <<>>, !.synced = @ \cup IdsOf(j.buf)]
Flushes(j, refusal) ==
    CASE j.stuck -> {[ok |-> FALSE, j |-> j]}
      [] ~j.stuck /\ refusal = "write" ->
            {[ok |-> FALSE, j |-> [j EXCEPT !.disk = Behind(@, cut), !.buf = <<>>, !.stuck = TRUE]] :
                cut \in CutShort(j.buf) \ {j.buf}}
      [] ~j.stuck /\ refusal = "sync" -> {[ok |-> FALSE, j |-> j]}
      [] OTHER -> {[ok |-> TRUE, j |-> Flushed(j)]}

\* Mutant: the files are shifted from the newest to the oldest.
MutShifted(old, active, n) ==
    [i \in 1..MaxFiles |-> IF i <= n THEN active ELSE old[i]]

\* rotateFiles after n of its renames: name.MaxFiles removed, the others moved
\* up from the oldest on, the active file last.
Shifted(old, active, n) ==
    [i \in 1..MaxFiles |->
        IF i + n > MaxFiles + 1 THEN (IF i = 1 THEN active ELSE old[i - 1])
        ELSE IF i + n = MaxFiles + 1 THEN NoFile ELSE old[i]]

\* The rotation proper; any of its renames may fail, and so may the open.
FileRotates(j, refusal) ==
    CASE refusal = "rename" ->
            {[ok |-> FALSE, j |-> [j EXCEPT !.old = Shifted(@, j.disk, n), !.open = FALSE]] :
                n \in 0..MaxFiles}
      [] OTHER ->
            LET moved == [j EXCEPT !.old = Shifted(@, j.disk, MaxFiles + 1), !.disk = <<>>]
            IN  IF refusal = "open" THEN {[ok |-> FALSE, j |-> [moved EXCEPT !.open = FALSE]]}
                ELSE {[ok |-> TRUE, j |-> Opened(moved, TRUE)]}

\* rotateIfNeeded.
MakesRoom(j, refusal) ==
    IF j.size + 1 <= MaxLines THEN {[ok |-> TRUE, j |-> j]}
    ELSE UNION {IF f.ok THEN FileRotates(f.j, refusal) ELSE {f} : f \in Flushes(j, refusal)}

\* The line enters the buffer, and the sequence number is taken.
Buffers(j, id) ==
    IF j.stuck THEN [ok |-> FALSE, j |-> j]
    ELSE [ok |-> TRUE,
          j |-> [j EXCEPT !.buf = Append(@, [id |-> id, seq |-> j.seq + 1]),
                          !.size = @ + 1, !.seq = @ + 1]]

\* Append: reopen, make room, write, and sync when a batch is full or old.
Appends(j, id, late, refusal) ==
    IF ~j.open /\ refusal = "open" THEN {[ok |-> FALSE, j |-> j]}
    ELSE UNION {
        LET b == IF room.ok THEN Buffers(room.j, id) ELSE room
        IN  IF b.ok /\ (late \/ Len(b.j.buf) >= FlushEvery) THEN Flushes(b.j, refusal) ELSE {b}
        : room \in MakesRoom(IF j.open THEN j ELSE Opened(j, refusal # "pad"), refusal)}

\* The files from the active one on to the oldest, which reader.Scan takes
\* first, and the events in them.
FileOf(j, n) == IF n = 0 THEN j.disk ELSE j.old[n]
Held(j) == UNION {IdsOf(FileOf(j, n)) : n \in 0..MaxFiles}

\* resumeSeq: what the last whole line of the active file says, of no other.
ResumedSeq(file) ==
    LET last == {k \in DOMAIN file : /\ file[k].id # 0
                                     /\ \A i \in DOMAIN file : i > k => file[i].id = 0}
    IN  IF last = {} THEN 0 ELSE file[CHOOSE k \in last : TRUE].seq
ReopenedJournal(j, closes) == [Opened(j, closes) EXCEPT !.seq = ResumedSeq(j.disk)]

-----------------------------------------------------------------------------
(* The state machine.                                                      *)

Refusals == {"none"} \cup (IF troubles > 0 THEN {"write", "sync", "rename", "open", "pad"} ELSE {})
Spend(refusal) == troubles' = troubles - (IF refusal = "none" THEN 0 ELSE 1)

AppendEvent ==
    /\ events < MaxEvents
    /\ \E late \in BOOLEAN, refusal \in Refusals :
          /\ \E r \in Appends(journal, events + 1, late, refusal) : journal' = r.j
          /\ Spend(refusal)
    /\ events' = events + 1

\* Flush, which the hub calls at the edges of an episode.
ForceFlush ==
    /\ journal.open /\ journal.buf # <<>>
    /\ \E refusal \in Refusals \cap {"none", "write", "sync"} :
          /\ \E f \in Flushes(journal, refusal) : journal' = f.j
          /\ Spend(refusal)
    /\ UNCHANGED events

\* Close and Open again: a restart, as an upgrade makes it.
RestartJournal ==
    /\ troubles > 0
    /\ \E f \in Flushes(journal, "none"), closes \in BOOLEAN :
          journal' = ReopenedJournal(IF journal.open THEN f.j ELSE journal, closes)
    /\ Spend("restart")
    /\ UNCHANGED events

\* The process or the power dies; a stuck buffer has nothing on its way.
CrashJournal ==
    /\ troubles > 0
    /\ \E kept \in IF journal.stuck THEN {<<>>} ELSE CutShort(journal.buf), closes \in BOOLEAN :
          journal' = ReopenedJournal([journal EXCEPT !.disk = Behind(@, kept)], closes)
    /\ Spend("crash")
    /\ UNCHANGED events

NextJournal == AppendEvent \/ ForceFlush \/ RestartJournal \/ CrashJournal
SpecJournal == InitJournal /\ [][NextJournal]_journalVars

-----------------------------------------------------------------------------
(* Properties.                                                             *)

\* What was synced and is gone although older events are still there.
Holes(j) == {i \in j.synced \ Held(j) : \E k \in Held(j) : k < i}

\* The journal is the audit record: whoever reads it finds the events in the
\* order they had.  An event a sync covered is there unless the rotation has
\* taken everything older with it, whichever rename failed, whatever half line a
\* crash left, however often the writer was reopened; and where the disk refused
\* the newline that openActive closes a half line with (a failure it lets pass),
\* that costs one event and never the lines behind it.
NoHoles ==
    /\ \A m, n \in 0..MaxFiles :
          \A i \in DOMAIN FileOf(journal, m), k \in DOMAIN FileOf(journal, n) :
              LET one == FileOf(journal, m)[i].id
                  other == FileOf(journal, n)[k].id
              IN  /\ one # 0 /\ other # 0
                  /\ (m > n) \/ (m = n /\ i < k)
                  => one < other
    /\ Cardinality(Holes(journal)) <= journal.refused

\* The flash budget holds whatever is appended (package comment: MaxLines *
\* (MaxFiles + 1), "rotation guarantees this ceiling always"), half lines and
\* the lines of a file reopened after a crash included.
FlashBudget ==
    /\ Len(journal.disk) + Len(journal.buf) <= MaxLines
    /\ \A i \in 1..MaxFiles : Len(journal.old[i]) <= MaxLines

\* What the journal promises its readers and the flash.
JournalIsWhole == NoHoles /\ FlashBudget
=============================================================================
