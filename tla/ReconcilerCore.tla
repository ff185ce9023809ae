--------------------------- MODULE ReconcilerCore ---------------------------
(***************************************************************************)
(* The per-device desired-state reconciler of internal/reconcile, as the   *)
(* package writes it: a pure machine that consumes an event and an         *)
(* injected clock and returns its next state, at most one write, and a     *)
(* list of reports.  Nothing here does I/O; the shells (BatteryShell,      *)
(* SolarShell) perform the writes and forward the reports.                 *)
(*                                                                         *)
(* A reconciler state is a record, so that a shell can hold one per        *)
(* device.  Every operation op(r, ..., now) returns                        *)
(*     [r |-> next state, write |-> reason or NoWrite, reports |-> <<..>>] *)
(* The fields a write carries are always the standing ones, r.fields.      *)
(* lastRead and lastWritten are left out: the code stores them and never   *)
(* reads them back.                                                        *)
(***************************************************************************)
EXTENDS Integers, Sequences

CONSTANTS
    Field,            \* the surfaces a document may have an opinion on
    Level,            \* the values a field can take: watts, amps, 0/1
    Tolerance,        \* Field -> allowed |read - desired|
    MRID,             \* identities of the controls behind the documents
    NoMRID,           \* "no control": the empty mRID
    ConvergeTimeout,  \* seconds of observed divergence before a report
    StaleAfter,       \* seconds after which a document is stale
    RetryBackoff,     \* the escalating gaps between corrective writes
    ReassertEvery     \* slow re-write cadence; 0 disables it

ASSUME ConfigAssumption ==
    /\ Level \subseteq Int
    /\ Tolerance \in [Field -> Nat]
    /\ NoMRID \in MRID
    /\ ConvergeTimeout \in Nat \ {0}
    /\ StaleAfter \in Nat \ {0}
    /\ ReassertEvery \in Nat
    /\ RetryBackoff \in Seq(Nat)
    /\ RetryBackoff # <<>>
    /\ \A i, j \in 1..Len(RetryBackoff) :
           i <= j => RetryBackoff[i] <= RetryBackoff[j]

Never == -1                     \* the zero time.Time
Times == Nat \cup {Never}
NoWrite == "none"

\* An opinion set: only the fields the document expresses are in the domain.
Opinions == UNION {[D -> Level] : D \in SUBSET Field}
NoOpinion == [f \in {} |-> 0]

Documents == [mrid : MRID, seq : Nat, issuedAt : Int, fields : Opinions,
              finite : BOOLEAN]
Samples == [read : Opinions, connected : BOOLEAN, plausible : BOOLEAN,
            finite : BOOLEAN]

States == [applied : BOOLEAN, mrid : MRID, fields : Opinions,
           seq : Nat, issuedAt : Int,
           converged : BOOLEAN, divergentSince : Times,
           inEpisode : BOOLEAN, episode : Nat,
           writeAttempts : Nat, lastWriteAt : Times,
           lastDocAt : Times, staleReported : BOOLEAN,
           lastReassertAt : Times]

\* New(): no document adopted yet.
New == [applied |-> FALSE, mrid |-> NoMRID, fields |-> NoOpinion,
        seq |-> 0, issuedAt |-> 0,
        converged |-> FALSE, divergentSince |-> Never,
        inEpisode |-> FALSE, episode |-> 0,
        writeAttempts |-> 0, lastWriteAt |-> Never,
        lastDocAt |-> Never, staleReported |-> FALSE,
        lastReassertAt |-> Never]
-----------------------------------------------------------------------------
Result(r, write, reports) == [r |-> r, write |-> write, reports |-> reports]
Idle(r) == Result(r, NoWrite, <<>>)

\* A report is attributed to the document standing when it is built ...
Report(r, kind) ==
    [kind |-> kind, mrid |-> r.mrid, episode |-> r.episode,
     reject |-> "None"]

\* ... and a rejection to the document that was refused.
RejectReport(r, doc, why) ==
    [kind |-> "RejectedDoc", mrid |-> doc.mrid, episode |-> r.episode,
     reject |-> why]

\* writeAction: record the write and advance the backoff cursor.
WriteAction(r, now) ==
    [r EXCEPT !.lastWriteAt = now, !.lastReassertAt = now,
              !.writeAttempts = r.writeAttempts + 1]

\* The first write of a divergence is immediate, the later ones follow
\* RetryBackoff, whose last entry repeats.
BackoffGap(attempts) ==
    RetryBackoff[IF attempts > Len(RetryBackoff)
                 THEN Len(RetryBackoff) ELSE attempts]

BackoffReady(r, now) ==
    \/ r.writeAttempts = 0
    \/ now - r.lastWriteAt >= BackoffGap(r.writeAttempts)

EpisodeDue(r, now) ==
    /\ r.divergentSince # Never
    /\ ~r.inEpisode
    /\ now - r.divergentSince >= ConvergeTimeout

\* checkEpisodeBegin, split into the state it leaves and what it reports.
EpisodeBegun(r, now) ==
    IF EpisodeDue(r, now)
    THEN [r EXCEPT !.inEpisode = TRUE, !.episode = r.episode + 1]
    ELSE r

EpisodeBeginReports(r, now) ==
    IF EpisodeDue(r, now)
    THEN <<Report(EpisodeBegun(r, now), "NonConvergedBegin")>>
    ELSE <<>>
-----------------------------------------------------------------------------
(* SetDesired: the acceptance gate, then adoption.                         *)

Regressed(r, doc) ==
    r.applied /\ doc.seq <= r.seq /\ doc.issuedAt <= r.issuedAt

RestartedPublisher(r, doc) ==
    r.applied /\ doc.seq <= r.seq /\ doc.issuedAt > r.issuedAt

GateVerdict(r, doc, now) ==
    CASE ~doc.finite                          -> "NaN"
      [] doc.finite /\ now - doc.issuedAt > StaleAfter -> "Stale"
      [] doc.finite /\ now - doc.issuedAt <= StaleAfter
                    /\ Regressed(r, doc)      -> "SeqRegression"
      [] OTHER                                -> "None"

Accepts(r, doc, now) == GateVerdict(r, doc, now) = "None"

\* Mutant: adoption forgets to withdraw the staleness verdict.
MutAdoptKeepsStale(r, doc, now) ==
    [r EXCEPT !.applied = TRUE, !.mrid = doc.mrid, !.fields = doc.fields,
              !.seq = doc.seq, !.issuedAt = doc.issuedAt,
              !.lastDocAt = now]

\* The document becomes the standing intent and the new baseline.
Adopt(r, doc, now) ==
    [r EXCEPT !.applied = TRUE, !.mrid = doc.mrid, !.fields = doc.fields,
              !.seq = doc.seq, !.issuedAt = doc.issuedAt,
              !.lastDocAt = now, !.staleReported = FALSE]

\* Mutant: a new target leaves the old target's episode open.
MutRetargetKeepsEpisode(a) ==
    [a EXCEPT !.divergentSince = Never, !.converged = FALSE,
              !.writeAttempts = 0]

\* A new target closes the episode that was about the old one and starts a
\* fresh convergence window.
Retarget(a) ==
    [a EXCEPT !.inEpisode = FALSE, !.divergentSince = Never,
              !.converged = FALSE, !.writeAttempts = 0]

SeqResetReports(r, a, doc) ==
    IF RestartedPublisher(r, doc) THEN <<Report(a, "SeqReset")>> ELSE <<>>

\* Mutant: the episode is closed without telling anyone.
MutEpisodeEndSilent(a) == <<>>

EpisodeEndReports(a) ==
    IF a.inEpisode THEN <<Report(a, "NonConvergedEnd")>> ELSE <<>>

\* Mutant: the refresh shortcut taken on an equal mRID, not on equal fields.
MutSetDesiredByMRID(r, doc, now) ==
    LET a == Adopt(r, doc, now)
    IN  IF ~Accepts(r, doc, now)
        THEN Result(r, NoWrite,
                    <<RejectReport(r, doc, GateVerdict(r, doc, now))>>)
        ELSE IF r.applied /\ r.mrid = doc.mrid
        THEN Result(a, NoWrite, SeqResetReports(r, a, doc))
        ELSE Result(WriteAction(Retarget(a), now), "new-desired",
                    SeqResetReports(r, a, doc) \o EpisodeEndReports(a))

SetDesired(r, doc, now) ==
    LET a == Adopt(r, doc, now)
    IN  IF ~Accepts(r, doc, now)
        THEN Result(r, NoWrite,
                    <<RejectReport(r, doc, GateVerdict(r, doc, now))>>)
        ELSE IF r.fields = doc.fields
        THEN Result(a, NoWrite, SeqResetReports(r, a, doc))
        ELSE Result(WriteAction(Retarget(a), now), "new-desired",
                    SeqResetReports(r, a, doc) \o EpisodeEndReports(a))
-----------------------------------------------------------------------------
(* Observe: verify by readback.                                            *)

Complete(r, read) == DOMAIN r.fields \subseteq DOMAIN read

Within(r, read, f) ==
    LET gap == read[f] - r.fields[f]
    IN  gap <= Tolerance[f] /\ -gap <= Tolerance[f]

Matches(r, read) == \A f \in DOMAIN r.fields : Within(r, read, f)

\* Only a connected, plausible sample that reads every commanded field is
\* evidence; any other holds the previous assessment.
Assessable(r, o) ==
    o.finite /\ r.applied /\ o.connected /\ o.plausible /\ Complete(r, o.read)

Converge(r) ==
    IF r.divergentSince = Never
    THEN [r EXCEPT !.converged = TRUE]
    ELSE [r EXCEPT !.converged = TRUE, !.divergentSince = Never,
                   !.writeAttempts = 0, !.inEpisode = FALSE]

ConvergeReports(r) ==
    IF r.divergentSince # Never /\ r.inEpisode
    THEN <<Report([r EXCEPT !.inEpisode = FALSE], "NonConvergedEnd")>>
    ELSE <<>>

Diverge(r, now) ==
    IF r.divergentSince = Never
    THEN [r EXCEPT !.converged = FALSE, !.divergentSince = now,
                   !.writeAttempts = 0]
    ELSE [r EXCEPT !.converged = FALSE]

Observe(r, o, now) ==
    LET d == Diverge(r, now)
        b == EpisodeBegun(d, now)
    IN  IF ~o.finite
        THEN Result(r, NoWrite,
                    <<[Report(r, "RejectedObs") EXCEPT !.reject = "NaN"]>>)
        ELSE IF ~Assessable(r, o)
        THEN Idle(r)
        ELSE IF Matches(r, o.read)
        THEN Result(Converge(r), NoWrite, ConvergeReports(r))
        ELSE IF BackoffReady(b, now)
        THEN Result(WriteAction(b, now), "write-on-diff",
                    EpisodeBeginReports(d, now))
        ELSE Result(b, NoWrite, EpisodeBeginReports(d, now))
-----------------------------------------------------------------------------
\* Mutant: a reconnect restarts the backoff of an open divergence window.
MutUnassessRestartsBackoff(r) ==
    [r EXCEPT !.converged = FALSE, !.writeAttempts = 0]

\* Reconnected: a reopened device may have rebooted to its defaults, so the
\* assessment is dropped and the standing intent written unconditionally.
Unassess(r) ==
    IF r.divergentSince = Never
    THEN [r EXCEPT !.converged = FALSE, !.writeAttempts = 0]
    ELSE [r EXCEPT !.converged = FALSE]

Reconnected(r, now) ==
    IF ~r.applied
    THEN Idle(r)
    ELSE Result(WriteAction(Unassess(r), now), "reconnect-reassert", <<>>)
-----------------------------------------------------------------------------
(* Tick: the wall-clock timers.                                            *)

StaleDue(r, now) ==
    /\ r.lastDocAt # Never
    /\ ~r.staleReported
    /\ now - r.lastDocAt >= StaleAfter

StaleMarked(r, now) ==
    IF StaleDue(r, now) THEN [r EXCEPT !.staleReported = TRUE] ELSE r

StaleReports(r, now) ==
    IF StaleDue(r, now) THEN <<Report(r, "StaleDesired")>> ELSE <<>>

ReassertDue(r, now) ==
    /\ ReassertEvery > 0
    /\ r.divergentSince = Never
    /\ r.lastReassertAt # Never
    /\ now - r.lastReassertAt >= ReassertEvery

Tick(r, now) ==
    LET s == StaleMarked(r, now)
        b == EpisodeBegun(s, now)
        reports == StaleReports(r, now) \o EpisodeBeginReports(s, now)
    IN  IF ~r.applied
        THEN Idle(r)
        ELSE IF b.divergentSince # Never /\ BackoffReady(b, now)
        THEN Result(WriteAction(b, now), "retry", reports)
        ELSE IF ReassertDue(b, now)
        THEN Result(WriteAction(b, now), "reassert", reports)
        ELSE Result(b, NoWrite, reports)
-----------------------------------------------------------------------------
(* What the outputs of a call mean to those who get them.                  *)

\* The writes that answer a readback or its absence.
Corrective == {"write-on-diff", "retry"}

\* The consumer's view after one more report.
Announced(open, report) ==
    CASE report.kind = "NonConvergedBegin" -> report.episode
      [] report.kind = "NonConvergedEnd"   -> 0
      [] OTHER                             -> open

\* A call returns at most two reports.
AnnouncedAll(open, reports) ==
    CASE Len(reports) = 0 -> open
      [] Len(reports) = 1 -> Announced(open, reports[1])
      [] OTHER            -> Announced(Announced(open, reports[1]), reports[2])
=============================================================================
