-------------------------------- MODULE Spool --------------------------------
(***************************************************************************)
(* The disk-backed priority FIFO between the bus and the cloud uplink      *)
(* (internal/spool).  Each priority class is a log of segments with a read *)
(* cursor and the cursor file that outlives the process.  Every operation  *)
(* holds the spool's mutex throughout, so it is a function from a class    *)
(* (or from the whole spool) to a class: the users' actions are in Uplink. *)
(*                                                                         *)
(* Records all have the size of one unit, offsets count records, and the   *)
(* 5 s flush of maybeSync may or may not be due at any append.  A torn     *)
(* record is one that recovery cuts off: what a crash leaves of a segment  *)
(* is a prefix that holds at least what was synced.                        *)
(***************************************************************************)
EXTENDS Integers, Sequences, SequencesExt, FiniteSets, FiniteSetsExt

CONSTANTS
    Classes,    \* the priority classes, 0 the most important
    MaxBytes,   \* the byte budget, in records
    SegCap      \* the records a segment holds before it is rotated

ASSUME SpoolAssumption ==
    /\ IsFiniteSet(Classes) /\ Classes # {} /\ Classes = 0..(Cardinality(Classes) - 1)
    /\ MaxBytes \in Nat \ {0}
    /\ SegCap \in Nat \ {0}

ZeroCursor == [seq |-> 0, off |-> 0]
EmptyClass == [segs |-> <<>>, cursor |-> ZeroCursor, nextSeq |-> 1,
               saved |-> ZeroCursor]

\* Bytes of a segment, and of the spool: its records are distinct.
Bytes(seg) == Len(seg.recs)
TotalBytes(sp) ==
    Cardinality(UNION {UNION {ToSet(sp[c].segs[i].recs) : i \in DOMAIN sp[c].segs} :
                          c \in Classes})

\* pendingBytes: a segment the cursor has passed counts for nothing.
PendingBytes(cl) ==
    LET from(seg) == IF seg.seq = cl.cursor.seq THEN cl.cursor.off ELSE 0
    IN  Cardinality(UNION {{i} \X (from(cl.segs[i]) + 1..Bytes(cl.segs[i])) :
            i \in {k \in DOMAIN cl.segs : cl.segs[k].seq >= cl.cursor.seq}})

NoClass == -1
MutTopClass(sp) ==
    LET busy == {c \in Classes : sp[c].segs # <<>>}
    IN  IF busy = {} THEN NoClass ELSE Min(busy)
TopClass(sp) ==
    LET busy == {c \in Classes : PendingBytes(sp[c]) > 0}
    IN  IF busy = {} THEN NoClass ELSE Min(busy)

\* walkClass: from the cursor's segment, or from the oldest when it is gone.
StartIdx(cl) ==
    LET at == {i \in DOMAIN cl.segs : cl.segs[i].seq = cl.cursor.seq}
    IN  IF at = {} THEN 1 ELSE Min(at)
StartOff(cl) ==
    IF \E i \in DOMAIN cl.segs : cl.segs[i].seq = cl.cursor.seq
    THEN cl.cursor.off ELSE 0
Joined(segs) ==
    LET upto[i \in 0..Len(segs)] ==
            IF i = 0 THEN <<>> ELSE upto[i - 1] \o segs[i].recs
    IN  upto[Len(segs)]
Walk(cl) ==
    LET all == Joined(SubSeq(cl.segs, StartIdx(cl), Len(cl.segs)))
    IN  SubSeq(all, StartOff(cl) + 1, Len(all))

-----------------------------------------------------------------------------
(* Append *)

\* victimClass: the least important class with a segment, and never one more
\* important than the record.
MutVictimClass(sp, c) ==
    LET full == {k \in Classes : sp[k].segs # <<>>}
    IN  IF full = {} THEN NoClass ELSE Max(full)
VictimClass(sp, c) ==
    LET full == {k \in Classes : k >= c /\ sp[k].segs # <<>>}
    IN  IF full = {} THEN NoClass ELSE Max(full)

\* evictOldest: the cursor leaves the segment with it.
EvictOldest(cl) ==
    [cl EXCEPT
        !.segs = Tail(@),
        !.cursor = IF @.seq # Head(cl.segs).seq THEN @
                   ELSE IF Len(cl.segs) > 1 THEN [seq |-> cl.segs[2].seq, off |-> 0]
                   ELSE ZeroCursor]

\* The eviction loop of Append for a record of class c.
MadeRoom(sp, c) ==
    LET segments == Cardinality(UNION {{k} \X DOMAIN sp[k].segs : k \in Classes})
        after[n \in 0..segments] ==
            IF n = 0 THEN sp
            ELSE LET before == after[n - 1]
                     v == VictimClass(before, c)
                 IN  IF TotalBytes(before) + 1 <= MaxBytes \/ v = NoClass THEN before
                     ELSE [before EXCEPT ![v] = EvictOldest(@)]
    IN  after[segments]

\* ensureActive, rotate and newSegment: where the next record goes.
Rotates(cl) == cl.segs # <<>> /\ Bytes(Last(cl.segs)) + 1 > SegCap
Synced(cl) == [cl EXCEPT !.segs = [i \in DOMAIN @ |-> [@[i] EXCEPT !.synced = Bytes(cl.segs[i])]]]
WithActive(cl) ==
    LET full == IF Rotates(cl) THEN Synced(cl) ELSE cl
    IN  IF cl.segs # <<>> /\ ~Rotates(cl) THEN cl
        ELSE [full EXCEPT
                 !.segs = Append(@, [seq |-> cl.nextSeq, recs |-> <<>>, synced |-> 0]),
                 !.nextSeq = @ + 1]

Written(cl, r) ==
    LET active == WithActive(cl)
    IN  [active EXCEPT !.segs[Len(active.segs)].recs = Append(@, r)]

\* The rest of Append, with the room made: the record is stored, or dropped
\* when room could only have been made in a more important class.
Fits(room) == TotalBytes(room) + 1 <= MaxBytes
Appended(room, c, r, sync) ==
    LET stored == [room EXCEPT ![c] = Written(@, r)]
    IN  IF ~Fits(room) THEN room
        ELSE IF sync THEN [k \in Classes |-> Synced(stored[k])]
        ELSE stored

-----------------------------------------------------------------------------
(* Peek and Commit *)

Peeked(sp, max) ==
    LET recs == Walk(sp[TopClass(sp)])
    IN  IF TopClass(sp) = NoClass THEN <<>>
        ELSE SubSeq(recs, 1, Min({max, Len(recs)}))

\* Does Peek return any record?
Peekable(sp) ==
    \E c \in {TopClass(sp)} \ {NoClass} : \E i \in StartIdx(sp[c])..Len(sp[c].segs) :
        Bytes(sp[c].segs[i]) > IF i = StartIdx(sp[c]) THEN StartOff(sp[c]) ELSE 0

\* The class Commit consumes from: that of the last Peek, or the top class
\* when nothing is pending there (any more).
CommitClass(sp, lastPeek) ==
    IF lastPeek = NoClass THEN TopClass(sp)
    ELSE IF PendingBytes(sp[lastPeek]) = 0 THEN TopClass(sp)
    ELSE lastPeek

\* The cursor n records on.  At the end of a segment with a successor it moves
\* to the successor, so that gcConsumed can delete the drained one.
Advanced(cl, n) ==
    LET lens  == [i \in DOMAIN cl.segs |-> Bytes(cl.segs[i])]
        upto[i \in (StartIdx(cl) - 1)..Len(cl.segs)] ==
            IF i < StartIdx(cl) THEN 0 ELSE upto[i - 1] + lens[i]
        goal  == StartOff(cl) + n
        i     == Min({k \in StartIdx(cl)..Len(cl.segs) : upto[k] >= goal})
        off   == goal - upto[i - 1]
    IN  IF off >= lens[i] /\ i < Len(cl.segs)
        THEN [seq |-> cl.segs[i + 1].seq, off |-> 0]
        ELSE [seq |-> cl.segs[i].seq, off |-> off]

\* The segments from a number on; they are in the order of their numbers.
From(segs, seq) ==
    LET kept == {i \in DOMAIN segs : segs[i].seq >= seq}
    IN  IF kept = {} THEN <<>> ELSE SubSeq(segs, Min(kept), Len(segs))

GcConsumed(cl) == [cl EXCEPT !.segs = From(@, cl.cursor.seq)]

\* syncClassActive, the cursor and its file, gcConsumed.
Committed(cl, n) ==
    LET to == Advanced(cl, Min({n, Len(Walk(cl))}))
    IN  GcConsumed([Synced(cl) EXCEPT !.cursor = to, !.saved = to])

-----------------------------------------------------------------------------
(* Close and Open *)

Closed(cl) ==
    [Synced(cl) EXCEPT !.saved = IF cl.segs = <<>> THEN @ ELSE cl.cursor]

MutNormalizedCursor(cur, segs) ==
    IF segs = <<>> THEN ZeroCursor ELSE [seq |-> Last(segs).seq, off |-> 0]
\* normalizeCursor
NormalizedCursor(cur, segs) ==
    IF segs = <<>> THEN ZeroCursor
    ELSE LET at == {i \in DOMAIN segs : segs[i].seq = cur.seq}
         IN  CASE cur.seq < Head(segs).seq -> [seq |-> Head(segs).seq, off |-> 0]
               [] at # {} -> [cur EXCEPT !.off = Min({@, Bytes(segs[Min(at)])})]
               [] cur.seq > Last(segs).seq -> [seq |-> Last(segs).seq, off |-> Bytes(Last(segs))]
               [] OTHER -> [seq |-> Head(segs).seq, off |-> 0]

\* scanClass: the segments in the order of their numbers, cut where they tear.
OnDisk(cl, kept) ==
    [i \in DOMAIN cl.segs |->
        [cl.segs[i] EXCEPT !.recs = SubSeq(@, 1, kept[i]), !.synced = kept[i]]]

\* recoverClass, when the crash left kept[i] records of segment i: segments
\* before the persisted cursor are taken for consumed.
Recovered(cl, kept) ==
    LET segs == From(OnDisk(cl, kept), cl.saved.seq)
    IN  [segs    |-> segs,
         cursor  |-> NormalizedCursor(cl.saved, segs),
         nextSeq |-> IF cl.segs = <<>> THEN 1 ELSE Last(cl.segs).seq + 1,
         saved   |-> cl.saved]

\* What a crash may leave: of every segment, at least what was synced.
Remains(cl) == {kept \in [DOMAIN cl.segs -> 0..SegCap] :
                    \A i \in DOMAIN cl.segs :
                        kept[i] \in cl.segs[i].synced..Bytes(cl.segs[i])}

\* The cursor file is ahead of the cursor in memory, in segments that exist:
\* eviction emptied the class, a restart began its numbering anew, and no
\* commit has rewritten the file since.
StaleFile(cl) ==
    /\ cl.segs # <<>>
    /\ Head(cl.segs).seq <= cl.saved.seq
    /\ \/ cl.saved.seq > cl.cursor.seq
       \/ cl.saved.seq = cl.cursor.seq /\ cl.saved.off > cl.cursor.off
=============================================================================
