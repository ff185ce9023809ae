------------------------------ MODULE Downlink ------------------------------
(***************************************************************************)
(* Who may ask the hub for something: commands of the cloud, through       *)
(* cmd/cloudlink/downlink.go (one ordered handler: checks, allowance per   *)
(* kind, journal, forward; a diag command builds and uploads a bundle in   *)
(* the same handler), and requests of the local app, through               *)
(* cmd/api/intent.go and resultwaiter.go (register, publish, wait 3 s for  *)
(* the hub's result).                                                      *)
(*                                                                         *)
(* A unit of time is 5 s, the period of runDownlink's poll.                *)
(***************************************************************************)
EXTENDS Naturals, Sequences, FiniteSets

CONSTANTS
    Intents, Edge,       \* the kinds of intents, and those with a deadline
    Flaws,               \* what may be wrong with a command's form
    Burst, RefillEvery,  \* the allowance of a kind, and the units per token
    TTL, DiagGap,        \* an edge intent's life; units between two diag runs
    SyncEvery,           \* lines of the cloudlink journal that force a sync
    SyncAfter,           \* age of its buffer at which the next line does
    Requests,            \* the app's requests
    MaxTime,
    Scenes               \* bounds: [kinds, flaws, commands, requests, faults] of a behaviour

ASSUME DownlinkAssumption ==
    /\ Edge \subseteq Intents /\ {"diag", "nothing"} \cap Intents = {} /\ "none" \notin Flaws
    /\ {Burst, RefillEvery, SyncEvery} \subseteq Nat \ {0}
    /\ {TTL, DiagGap, MaxTime, SyncAfter} \subseteq Nat
    /\ \A s \in Scenes : s.requests \subseteq Requests

VARIABLES
    now,
    up,         \* is the cloud session's connection up?
    listening,  \* does the cloud's broker know the subscription?
    was,        \* runDownlink's wasConnected
    wire,       \* commands on their way to the handler, in order
    sent,       \* commands the cloud has sent
    handling,   \* what the handler is at: a forward, a diag run, or Nothing
    bucket,     \* bucket[k]: a kind's tokens, in units of 1/RefillEvery, and when
    lastDiag,   \* when the last diag run started, or Never
    record,     \* the cloudlink journal: ids of its lines on disk (synced) and in its
                \* buffer (waiting), has a write failed for good (stuck)?  Ghosts: ids
                \* whose Append failed (refused), ids of lines that went with the buffer
                \* (dropped), how often that happened (cuts)
    bus,        \* intents on their way to the hub
    heard,      \* ids the hub has handled
    results,    \* ids of results on their way to the API
    req, pending, box,
    scene,      \* the bounds of this behaviour
    faultsLeft, \* what is left of its faults
    admitted,   \* ghost: when each kind's intents were admitted by this process
    deaf        \* ghost: has the connection dropped under a live subscription?

cloudSide == <<up, listening, was, wire, sent, handling, bucket, lastDiag, record, admitted, deaf>>
apiSide == <<req, pending, box>>
downlinkVars == <<now, cloudSide, bus, heard, results, apiSide, scene, faultsLeft>>

Nothing == [id |-> 0, kind |-> "nothing"]
Never == MaxTime + DiagGap + 1
NoRecord == [synced |-> {}, waiting |-> <<>>, stuck |-> FALSE,
             refused |-> {}, dropped |-> {}, cuts |-> 0]
FullBucket == [level |-> Burst * RefillEvery, last |-> now]
Fault == faultsLeft > 0 /\ faultsLeft' = faultsLeft - 1

InitDownlink ==
    /\ now = 0 /\ up = TRUE /\ listening = FALSE /\ was = FALSE
    /\ wire = <<>> /\ sent = 0 /\ handling = Nothing
    /\ bucket = [k \in Intents |-> FullBucket] /\ lastDiag = Never
    /\ record = NoRecord /\ bus = <<>> /\ heard = {} /\ results = {}
    /\ req = [r \in Requests |-> "new"] /\ pending = {} /\ box = {}
    /\ scene \in Scenes /\ faultsLeft = scene.faults
    /\ admitted = [k \in Intents |-> <<>>] /\ deaf = FALSE

-----------------------------------------------------------------------------
(* The session and its subscription.                                       *)

\* runDownlink.  Connected() is paho's IsConnected: with AutoReconnect and
\* ConnectRetry it is true throughout, so only a failed attempt is repeated.
Poll(stands) == was' = IF was THEN TRUE ELSE stands

\* trySubscribe: the broker's answer may be late although it listens.
RunDownlink ==
    /\ ~was
    /\ \/ up /\ Poll(TRUE) /\ listening' = TRUE /\ UNCHANGED faultsLeft
       \/ Fault /\ Poll(FALSE) /\ (UNCHANGED listening \/ (up /\ listening' = TRUE))
       \/ ~up /\ Poll(FALSE) /\ UNCHANGED <<listening, faultsLeft>>
    /\ UNCHANGED <<now, up, wire, sent, handling, bucket, lastDiag, record, admitted, deaf,
                   bus, heard, results, apiSide>>

Tick ==
    /\ now < MaxTime /\ now' = now + 1
    /\ UNCHANGED <<cloudSide, bus, heard, results, apiSide, faultsLeft>>

\* A clean session: the broker forgets the subscription and what was under way.
SessionDrops ==
    /\ up /\ Fault /\ up' = FALSE
    /\ listening' = FALSE /\ wire' = <<>>
    /\ deaf' = (deaf \/ was)
    /\ UNCHANGED <<now, was, sent, handling, bucket, lastDiag, record, admitted,
                   bus, heard, results, apiSide>>

SessionReturns ==
    /\ ~up /\ up' = TRUE
    /\ UNCHANGED <<now, listening, was, wire, sent, handling, bucket, lastDiag, record,
                   admitted, deaf, bus, heard, results, apiSide, faultsLeft>>

CloudSends ==
    /\ up /\ listening /\ sent < scene.commands
    /\ sent' = sent + 1
    /\ \E k \in scene.kinds, flaw \in scene.flaws \cup {"none"} :
          wire' = Append(wire, [id |-> sent + 1, kind |-> k, flaw |-> flaw, issued |-> now])
    /\ UNCHANGED <<now, up, listening, was, handling, bucket, lastDiag, record, admitted,
                   deaf, bus, heard, results, apiSide, faultsLeft>>

-----------------------------------------------------------------------------
(* Its journal, as far as the handler knows it: module Journal has the     *)
(* writer's files.                                                         *)

OnLines(lines) == {lines[i].id : i \in DOMAIN lines}

\* The first k lines of the buffer reach the disk, the others are gone.
CutAfter(r, k) ==
    [r EXCEPT !.synced = @ \cup OnLines(SubSeq(r.waiting, 1, k)), !.waiting = <<>>,
              !.dropped = @ \cup OnLines(SubSeq(r.waiting, k + 1, Len(r.waiting))),
              !.cuts = @ + 1]

\* A line enters the buffer, and with a full or an old one all are synced, as
\* nothing else ever does.
Entered(r, id) == [r EXCEPT !.waiting = Append(@, [id |-> id, at |-> now])]
SyncDue(r) == Len(r.waiting) >= SyncEvery \/ now >= r.waiting[1].at + SyncAfter
SyncedRecord(r) == [r EXCEPT !.synced = @ \cup OnLines(r.waiting), !.waiting = <<>>]

\* Append's error, which the handler discards.
Refused(r, id) == [r EXCEPT !.refused = @ \cup {id}]

\* Append: well, with the sync that is due; or refused for once, before the line
\* is in the buffer or in its sync; or the writing of the buffer fails, which
\* lasts until cloudlink is restarted.
JournalLine(id) ==
    LET r == Entered(record, id)
    IN  \/ /\ ~record.stuck /\ UNCHANGED faultsLeft
           /\ record' = IF SyncDue(r) THEN SyncedRecord(r) ELSE r
        \/ record.stuck /\ record' = Refused(record, id) /\ UNCHANGED faultsLeft
        \/ /\ ~record.stuck /\ Fault
           /\ \/ record' = Refused(record, id)
              \/ SyncDue(r) /\ record' = Refused(r, id)
              \/ \E k \in 0..Len(record.waiting) :
                    record' = [Refused(CutAfter(record, k), id) EXCEPT !.stuck = TRUE]

-----------------------------------------------------------------------------
(* The handler: process and processDiag.                                   *)

\* Mutant: the bucket fills without a brim while nobody asks.
MutRefilled(b) == [level |-> b.level + (now - b.last), last |-> now]

\* tokenBucket.allow: one token per RefillEvery, Burst at most.
Refilled(b) ==
    LET full == b.level + (now - b.last)
    IN  [level |-> IF full > Burst * RefillEvery THEN Burst * RefillEvery ELSE full,
         last |-> now]
Allowed(b) == Refilled(b).level >= RefillEvery
Spent(b) == [Refilled(b) EXCEPT !.level = @ - RefillEvery]

Expired(cmd) == cmd.kind \in Edge /\ cmd.issued + TTL < now
WellFormed(cmd) == cmd.flaw = "none" /\ ~Expired(cmd)
DiagAllowed == lastDiag = Never \/ now >= lastDiag + DiagGap

\* Rejected: nothing is journaled; only the allowance's own check touches it.
Reject(cmd) ==
    /\ \/ ~WellFormed(cmd) /\ UNCHANGED bucket
       \/ /\ WellFormed(cmd) /\ cmd.kind \in Intents /\ ~Allowed(bucket[cmd.kind])
          /\ bucket' = [bucket EXCEPT ![cmd.kind] = Refilled(@)]
       \/ WellFormed(cmd) /\ cmd.kind = "diag" /\ ~DiagAllowed /\ UNCHANGED bucket
    /\ UNCHANGED <<handling, lastDiag, record, admitted, faultsLeft>>

\* Admitted: journaled as well as may be, then to be forwarded.
Accept(cmd) ==
    /\ WellFormed(cmd) /\ cmd.kind \in Intents /\ Allowed(bucket[cmd.kind])
    /\ bucket' = [bucket EXCEPT ![cmd.kind] = Spent(@)]
    /\ admitted' = [admitted EXCEPT ![cmd.kind] = Append(@, now)]
    /\ JournalLine(cmd.id)
    /\ handling' = cmd
    /\ UNCHANGED lastDiag

StartDiag(cmd) ==
    /\ WellFormed(cmd) /\ cmd.kind = "diag" /\ DiagAllowed
    /\ lastDiag' = now
    /\ JournalLine(cmd.id)
    /\ handling' = cmd
    /\ UNCHANGED <<bucket, admitted>>

Handle ==
    /\ handling = Nothing /\ wire # <<>>
    /\ wire' = Tail(wire)
    /\ LET cmd == Head(wire) IN Reject(cmd) \/ Accept(cmd) \/ StartDiag(cmd)
    /\ UNCHANGED <<now, up, listening, was, sent, deaf, bus, heard, results, apiSide>>

\* PublishJSONTimeout: acknowledged; or given up after 2 s, delivered or not.
Forward ==
    /\ handling.kind \in Intents
    /\ \/ bus' = Append(bus, handling.id) /\ UNCHANGED faultsLeft
       \/ Fault /\ (UNCHANGED bus \/ bus' = Append(bus, handling.id))
    /\ handling' = Nothing
    /\ UNCHANGED <<now, up, listening, was, wire, sent, bucket, lastDiag, record, admitted,
                   deaf, heard, results, apiSide>>

\* The bundle is uploaded, or its build or upload fails: journaled alike.
EndDiag ==
    /\ handling.kind = "diag" /\ handling' = Nothing
    /\ JournalLine(handling.id)
    /\ UNCHANGED <<now, up, listening, was, wire, sent, bucket, lastDiag, admitted,
                   deaf, bus, heard, results, apiSide>>

\* A restart of cloudlink: allowances, diag limiter and subscription start anew.
\* Closed in order the journal keeps all its buffer, killed any part of it.
RestartCloudlink ==
    /\ Fault
    /\ \E k \in 0..Len(record.waiting) : record' = [CutAfter(record, k) EXCEPT !.stuck = FALSE]
    /\ listening' = FALSE /\ was' = FALSE /\ wire' = <<>> /\ handling' = Nothing
    /\ bucket' = [k \in Intents |-> FullBucket] /\ lastDiag' = Never
    /\ admitted' = [k \in Intents |-> <<>>] /\ deaf' = FALSE
    /\ UNCHANGED <<now, up, sent, bus, heard, results, apiSide>>

-----------------------------------------------------------------------------
(* The app's requests, and the hub that answers everybody.                 *)

ElsewhereUnchanged == UNCHANGED <<now, cloudSide, faultsLeft>>

\* expect: before the publish.
Expect(r) == pending' = pending \cup {r}

Post(r) ==
    /\ req[r] = "new" /\ req' = [req EXCEPT ![r] = "publishing"]
    /\ Expect(r)
    /\ UNCHANGED <<bus, heard, results, box>> /\ ElsewhereUnchanged

\* The broker has the intent; its acknowledgement is under way.
BrokerHas(r) ==
    /\ req[r] = "publishing" /\ req' = [req EXCEPT ![r] = "sent"]
    /\ bus' = Append(bus, r)
    /\ UNCHANGED <<heard, results, pending, box>> /\ ElsewhereUnchanged

\* PublishJSON returned, with an error (502) if its acknowledgement is late.
Published(r) ==
    /\ \/ req[r] = "sent" /\ req' = [req EXCEPT ![r] = "waiting"] /\ UNCHANGED <<pending, faultsLeft>>
       \/ /\ req[r] \in {"publishing", "sent"} /\ Fault
          /\ req' = [req EXCEPT ![r] = "failed"] /\ pending' = pending \ {r}
    /\ UNCHANGED <<bus, heard, results, box, now, cloudSide>>

ResultArrives(r) ==
    /\ r \in results /\ results' = results \ {r}
    /\ IF r \in pending THEN pending' = pending \ {r} /\ box' = box \cup {r}
       ELSE UNCHANGED <<pending, box>>
    /\ UNCHANGED <<bus, heard, req>> /\ ElsewhereUnchanged

Answer(r) ==
    /\ req[r] = "waiting" /\ r \in box /\ req' = [req EXCEPT ![r] = "answered"]
    /\ UNCHANGED <<bus, heard, results, pending, box>> /\ ElsewhereUnchanged

\* cancel.
GiveUp(r) == pending' = pending \ {r}

\* 3 s are over: 202; a result that is in the box may lose the select.
Pending(r) ==
    /\ req[r] = "waiting" /\ Fault /\ req' = [req EXCEPT ![r] = "pending"]
    /\ GiveUp(r)
    /\ UNCHANGED <<bus, heard, results, box, now, cloudSide>>

\* The hub handles an intent and publishes its result, for the API to sort out.
HubHandles ==
    /\ bus # <<>> /\ bus' = Tail(bus)
    /\ heard' = heard \cup {Head(bus)}
    /\ results' = results \cup ({Head(bus)} \cap Requests)
    /\ UNCHANGED apiSide /\ ElsewhereUnchanged

ApiStep(r) ==
    Post(r) \/ BrokerHas(r) \/ Published(r) \/ ResultArrives(r) \/ Answer(r) \/ Pending(r)

DownlinkStep ==
    \/ Tick \/ RunDownlink \/ SessionDrops \/ SessionReturns \/ CloudSends
    \/ Handle \/ Forward \/ EndDiag \/ RestartCloudlink \/ HubHandles
    \/ \E r \in scene.requests : ApiStep(r)

NextDownlink == DownlinkStep /\ UNCHANGED scene

\* The session comes back, and with it the poll's attempts succeed: those that
\* fail over a connection that is up are counted as faults.
SessionComes == ~up /\ up' = TRUE
PollSucceeds == ~was /\ was' = TRUE
FairDownlink == WF_up(SessionComes) /\ WF_was(PollSucceeds)

SpecDownlink == InitDownlink /\ [][NextDownlink]_downlinkVars /\ FairDownlink

-----------------------------------------------------------------------------
(* Properties.                                                             *)

\* No more than Burst intents of a kind and one per RefillEvery are admitted
\* over any stretch of a process's life, idle times before it or not
\* ("must still not be able to flood the local bus", downlink.go:78-81).
AllowanceKept ==
    \A k \in Intents : \A i, j \in DOMAIN admitted[k] :
        i <= j => (j - i + 1) <= Burst + (admitted[k][j] - admitted[k][i]) \div RefillEvery

\* What the hub acts on for the cloud was put on record first, also when the
\* forward was given up and arrived nevertheless: it is on disk, or in the buffer,
\* or its Append failed and was forwarded all the same, or the buffer was lost
\* before its next sync.  Such a loss, a crash or a failed write, takes less than
\* a batch of lines whose Append went well (downlink.go:376-385, journal.go:336-355).
AuditBeforeEffect ==
    /\ heard \ Requests
          \subseteq record.synced \cup OnLines(record.waiting) \cup record.refused \cup record.dropped
    /\ Cardinality(OnLines(record.waiting) \ record.refused) < SyncEvery
    /\ Cardinality(record.dropped \ record.refused) <= record.cuts * (SyncEvery - 1)

\* As long as a request may still be answered, its reply finds it; afterwards
\* nothing of it is left (resultwaiter.go's leak and race claims).
RepliesFindRequests ==
    \A r \in Requests :
        /\ req[r] \in {"sent", "waiting"} => r \in pending \cup box
        /\ r \in pending => req[r] \in {"publishing", "sent", "waiting"}

\* What the cloud and the app may ask for is bounded, on record and answered.
CommandsAreAccounted == AllowanceKept /\ AuditBeforeEffect /\ RepliesFindRequests

=============================================================================
