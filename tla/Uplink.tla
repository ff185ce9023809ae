------------------------------- MODULE Uplink -------------------------------
(***************************************************************************)
(* The cloud uplink (cmd/cloudlink): the collectors append records to the  *)
(* spool, the batcher's goroutine drains it with Peek, publish, bump and   *)
(* Commit, and the cloud drops a frame whose (stream, seq) it has seen.    *)
(* The spool's mutex is free while a frame is published: appends, and the  *)
(* evictions they cause, come between a Peek and its Commit.               *)
(*                                                                         *)
(* A publish that times out may have reached the cloud.  A crash loses     *)
(* what was not synced; seq files and cursor files are renamed into place. *)
(* fate[i] follows record i to what became of it.                          *)
(***************************************************************************)
EXTENDS Spool

CONSTANTS
    Stream,      \* the streams of records
    ClassOf,     \* ClassOf[s]: the priority class of a stream
    MaxPeek,     \* records one Peek returns at most
    MaxRecords,  \* bound on appended records
    MaxFaults    \* bound on restarts, publishes given up and records too
                 \* large for any frame

ASSUME UplinkAssumption ==
    /\ ClassOf \in [Stream -> Classes]
    /\ MaxPeek \in Nat \ {0}
    /\ {MaxRecords, MaxFaults} \subseteq Nat

VARIABLES
    class,     \* class[c]: the spool's log of class c
    lastPeek,  \* the class the last Peek read, or NoClass
    pc,        \* where drainOne is
    frame,     \* the records drainOne works on
    nextSeqNo, \* seqStore: the next seq of each stream
    seen,      \* cloud: the <<stream, seq>> it has accepted
    arrived,   \* cloud: the records that have reached it
    fate,      \* ghost: what became of each record
    evicted,   \* ghost: has an append evicted a segment since the Peek?
    consumed,  \* ghost: the records committed so far
    faults    \* what is left of MaxFaults

cloudVars == <<seen, arrived>>
batchVars == <<pc, frame>>
vars == <<class, lastPeek, pc, frame, nextSeqNo, seen, arrived, fate, evicted,
          consumed, faults>>

Fates == {"unborn", "spooled", "dropped", "torn", "skipped", "repeated", "forgotten"}
Record == [id : 1..MaxRecords, stream : Stream]
Ids(recs) == {recs[i].id : i \in DOMAIN recs}
IdsIn(sp) == UNION {Ids(Walk(sp[c])) : c \in Classes}
Born == {i \in 1..MaxRecords : fate[i] # "unborn"}

\* fate with the records of ids, where still unsettled, settled as f.
Settled(ids, f) ==
    IF ids = {} THEN fate
    ELSE LET open == {i \in ids : fate[i] = "spooled"} \ arrived
         IN  [i \in DOMAIN fate |-> IF i \in open THEN f ELSE fate[i]]

Init ==
    /\ class = [c \in Classes |-> EmptyClass]
    /\ lastPeek = NoClass
    /\ pc = "idle"
    /\ frame = <<>>
    /\ nextSeqNo = [s \in Stream |-> 0]
    /\ seen = {}
    /\ arrived = {}
    /\ fate = [i \in 1..MaxRecords |-> "unborn"]
    /\ evicted = FALSE
    /\ consumed = {}
    /\ faults = MaxFaults

-----------------------------------------------------------------------------
(* The collectors: handler and Spool.Append. *)

Collect(s) ==
    LET c    == ClassOf[s]
        i    == Cardinality(Born) + 1
        room == MadeRoom(class, c)
    IN  /\ i <= MaxRecords
        /\ \E due \in {Fits(room), FALSE} :
              class' = Appended(room, c, [id |-> i, stream |-> s], due)
        /\ fate' = [Settled(IdsIn(class) \ IdsIn(room), "dropped")
                       EXCEPT ![i] = IF Fits(room) THEN "spooled" ELSE "dropped"]
        /\ evicted' = (pc # "idle" /\ (evicted \/ room # class))
        /\ UNCHANGED <<lastPeek, batchVars, nextSeqNo, cloudVars, consumed, faults>>

-----------------------------------------------------------------------------
(* The batcher: drainOne. *)

\* The leading run of one stream, as buildFrame packs it: halved until it fits.
LeadingRun(recs) ==
    LET other == {i \in DOMAIN recs : recs[i].stream # recs[1].stream}
    IN  IF other = {} THEN recs ELSE SubSeq(recs, 1, Min(other) - 1)
Halvings(n) == {m \in 1..n : \E i \in 0..n : m = n \div (2^i)}

DrainPeek ==
    LET recs == Peeked(class, MaxPeek)
        run  == LeadingRun(recs)
    IN  /\ pc = "idle"
        /\ Peekable(class)
        /\ lastPeek' = TopClass(class)
        /\ evicted' = FALSE
        /\ \/ /\ \E n \in Halvings(Len(run)) : frame' = SubSeq(run, 1, n)
              /\ pc' = "publish"
              /\ UNCHANGED faults
           \/ /\ faults > 0
              /\ frame' = SubSeq(run, 1, 1)
              /\ pc' = "discard"
              /\ faults' = faults - 1
        /\ UNCHANGED <<class, nextSeqNo, cloudVars, fate, consumed>>

FrameStream == frame[1].stream
FrameKey == <<FrameStream, nextSeqNo[FrameStream]>>

\* The cloud ingests the frame, unless it has seen its key.
CloudIngest ==
    /\ seen' = seen \cup {FrameKey}
    /\ arrived' = IF FrameKey \in seen THEN arrived ELSE arrived \cup Ids(frame)

\* PUBACK.  Records added to a frame the cloud has seen are taken for
\* repeated and never looked at.
PublishAcked ==
    /\ pc = "publish"
    /\ CloudIngest
    /\ fate' = IF FrameKey \in seen THEN Settled(Ids(frame), "repeated") ELSE fate
    /\ pc' = "bump"
    /\ UNCHANGED <<class, lastPeek, frame, nextSeqNo, evicted, consumed, faults>>

\* No PUBACK in time, or the link is down: drainAll backs off and starts over.
PublishGivenUp ==
    /\ pc = "publish"
    /\ faults > 0
    /\ faults' = faults - 1
    /\ CloudIngest \/ UNCHANGED cloudVars
    /\ pc' = "idle"
    /\ frame' = <<>>
    /\ UNCHANGED <<class, lastPeek, nextSeqNo, fate, evicted, consumed>>

BumpSeq ==
    /\ pc = "bump"
    /\ nextSeqNo' = [nextSeqNo EXCEPT ![FrameStream] = @ + 1]
    /\ pc' = "commit"
    /\ UNCHANGED <<class, lastPeek, frame, cloudVars, fate, evicted, consumed, faults>>

\* Commit(n) consumes n records from wherever the cursor is by now.
CommitFrame ==
    LET c    == CommitClass(class, lastPeek)
        n    == Len(frame)
        gone == IF c = NoClass THEN {}
                ELSE Ids(SubSeq(Walk(class[c]), 1, Min({n, Len(Walk(class[c]))})))
    IN  /\ pc \in {"commit", "discard"}
        /\ class' = IF c = NoClass THEN class
                    ELSE [class EXCEPT ![c] = Committed(@, n)]
        /\ consumed' = consumed \cup gone
        /\ fate' = IF pc = "discard" /\ ~evicted THEN Settled(gone, "dropped")
                   ELSE Settled(gone \ (IF pc = "commit" THEN Ids(frame) ELSE {}), "skipped")
        /\ pc' = "idle"
        /\ frame' = <<>>
        /\ UNCHANGED <<lastPeek, nextSeqNo, cloudVars, evicted, faults>>

-----------------------------------------------------------------------------
(* Restarts: Open after a crash, or after Close. *)

Reopened(recovered) ==
    /\ class' = recovered
    /\ lastPeek' = NoClass
    /\ pc' = "idle"
    /\ frame' = <<>>
    /\ evicted' = FALSE
    /\ faults > 0
    /\ faults' = faults - 1
    /\ UNCHANGED <<nextSeqNo, cloudVars, consumed>>

Crash ==
    \E kept \in [Classes -> UNION {Remains(class[c]) : c \in Classes}] :
        /\ \A c \in Classes : kept[c] \in Remains(class[c])
        /\ LET after == [c \in Classes |-> Recovered(class[c], kept[c])]
               onDisk == UNION {UNION {Ids(SubSeq(class[c].segs[i].recs, 1, kept[c][i])) :
                                          i \in DOMAIN class[c].segs} : c \in Classes}
               hidden == (IdsIn(class) \cap onDisk) \ IdsIn(after)
           IN  /\ Reopened(after)
               /\ fate' = [i \in DOMAIN fate |->
                     IF i \in hidden /\ \E c \in Classes :
                                            /\ StaleFile(class[c])
                                            /\ i \in Ids(Walk(class[c]))
                     THEN Settled({i}, "forgotten")[i]
                     ELSE Settled(IdsIn(class) \ onDisk, "torn")[i]]

Restart ==
    /\ Reopened([c \in Classes |->
          LET cl == Closed(class[c])
          IN  Recovered(cl, [i \in DOMAIN cl.segs |-> Bytes(cl.segs[i])])])
    /\ UNCHANGED fate

Points == {"idle", "publish", "bump", "commit", "discard"}

\* The batcher's goroutine moves on whenever it is at work or has records to
\* peek: its ticker keeps starting drainAll, which otherwise ends only when the
\* link is down, a publish given up here.
BatcherMoves ==
    /\ pc # "idle" \/ Peekable(class)
    /\ pc' \in Points \ {pc}

Next ==
    \/ \E s \in Stream : Collect(s)
    \/ DrainPeek
    \/ PublishAcked
    \/ PublishGivenUp
    \/ BumpSeq
    \/ CommitFrame
    \/ Crash
    \/ Restart

Spec == Init /\ [][Next]_vars /\ WF_pc(BatcherMoves)

-----------------------------------------------------------------------------
(* Properties *)

\* The states the code can be in; the byte budget is kept (accountingOK).
TypeOK ==
    /\ pc \in Points
    /\ frame \in Seq(Record) /\ (pc = "idle") = (frame = <<>>)
    /\ fate \in [1..MaxRecords -> Fates]
    /\ lastPeek \in Classes \cup {NoClass}
    /\ TotalBytes(class) <= MaxBytes
    /\ \A c \in Classes : \A i \in DOMAIN class[c].segs :
          LET seg == class[c].segs[i]
          IN  seg.synced <= Bytes(seg) /\ Bytes(seg) <= SegCap /\ seg.seq < class[c].nextSeq

\* At-least-once delivery with its exact exceptions: a record that was stored
\* and has not reached the cloud is still pending, unless eviction counted it
\* as dropped, a crash tore it before it was synced, or one of the three gaps
\* took it (skipped, repeated, forgotten).  Commit, eviction, collection of
\* segments and recovery each move the cursor; none loses a record otherwise.
EveryRecordAccounted ==
    {i \in Born : fate[i] = "spooled"} \subseteq arrived \cup IdsIn(class)

\* pendingBytes and walkClass read the same records: a class that counts as
\* pending yields records.  Otherwise Peek would return none from the top
\* class and drainAll would stop with records behind it.
PendingIsReadable ==
    \A c \in Classes : PendingBytes(class[c]) = Len(Walk(class[c]))

\* Committed records never reappear, through any crash, eviction and restart
\* (package comment of spool.go).
ConsumedStaysConsumed == consumed \cap IdsIn(class) = {}

\* The three together: what the spool owes its records (spool.go's package
\* comment: bounded, at least once, evictions counted).
NothingIsLost == EveryRecordAccounted /\ PendingIsReadable /\ ConsumedStaysConsumed

\* Once the timeouts and restarts have ended, everything that was stored is
\* drained: no state wedges the batcher.
Drains == <>[](IdsIn(class) = {})

\* The spool with its cursors, files and segments is a queue per class.
Abstract == INSTANCE ClassQueue WITH
    queue <- [c \in Classes |-> Walk(class[c])], offer <- frame
IsClassQueue == Abstract!Spec
=============================================================================
