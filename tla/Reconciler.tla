----------------------------- MODULE Reconciler -----------------------------
(***************************************************************************)
(* One reconciler driven by everything its shell can feed it, in any       *)
(* order: documents that are new, repeated, late, stale or corrupt;        *)
(* readbacks that match, diverge, or say nothing; reconnects; ticks; and   *)
(* the passing of time.  The shell serialises the calls, so each call is   *)
(* one step.                                                               *)
(*                                                                         *)
(* Besides the reconciler itself the module keeps what an outside observer *)
(* of its outputs knows: the episode the report stream says is open, the   *)
(* last fields written, and the corrective writes of the current window.   *)
(***************************************************************************)
EXTENDS ReconcilerCore

CONSTANTS
    Targets,     \* the opinion sets documents carry
    Reads,       \* the field values a readback may decode
    Delays,      \* seconds between issuing a document and its delivery
    MaxSeq,      \* bound on document sequence numbers
    MaxAttempts, \* bound on the writes between two resets of the backoff
    MaxTime      \* bound on the clock

ASSUME EnvironmentAssumption ==
    /\ Targets \subseteq Opinions
    /\ Reads \subseteq Opinions
    /\ Delays \subseteq Nat
    /\ MaxSeq \in Nat
    /\ MaxAttempts \in Nat
    /\ MaxTime \in Nat

VARIABLES
    r,            \* the reconciler
    now,          \* the injected clock, in seconds
    openEpisode,  \* episode the reports announce as open; 0 when none is
    lastWritten,  \* fields of the most recent write
    window        \* corrective writes since divergence was first observed

vars == <<r, now, openEpisode, lastWritten, window>>

NoCorrection == [n |-> 0, at |-> Never]

Init ==
    /\ r = New
    /\ now = 0
    /\ openEpisode = 0
    /\ lastWritten = NoOpinion
    /\ window = NoCorrection

\* The observer's record of the corrective writes of one divergence window.
Counted(res) ==
    IF res.r.divergentSince = Never
    THEN NoCorrection
    ELSE IF res.write \in Corrective
    THEN [n |-> window.n + 1, at |-> now]
    ELSE window

\* Take the step res and note what it made visible.
Step(res) ==
    /\ r' = res.r
    /\ openEpisode' = AnnouncedAll(openEpisode, res.reports)
    /\ lastWritten' = IF res.write = NoWrite THEN lastWritten ELSE res.r.fields
    /\ window' = Counted(res)
    /\ UNCHANGED now

Deliver ==
    \E m \in MRID, s \in 0..MaxSeq, d \in Delays, t \in Targets,
       finite \in BOOLEAN :
        Step(SetDesired(r, [mrid |-> m, seq |-> s, issuedAt |-> now - d,
                            fields |-> t, finite |-> finite], now))

Poll ==
    \E x \in Reads, c \in BOOLEAN, p \in BOOLEAN, finite \in BOOLEAN :
        Step(Observe(r, [read |-> x, connected |-> c, plausible |-> p,
                         finite |-> finite], now))

Reconnect ==
    /\ r.writeAttempts < MaxAttempts
    /\ Step(Reconnected(r, now))

TickStep == Step(Tick(r, now))

Advance ==
    /\ now < MaxTime
    /\ now' = now + 1
    /\ UNCHANGED <<r, openEpisode, lastWritten, window>>

Next == Deliver \/ Poll \/ Reconnect \/ TickStep \/ Advance

Spec == Init /\ [][Next]_vars
-----------------------------------------------------------------------------
\* The reconciler stays within the types of its Go struct and its timers
\* never run ahead of the clock.
TypeOK ==
    /\ r \in States
    /\ now \in Nat
    /\ openEpisode \in Nat
    /\ lastWritten \in Opinions
    /\ window \in [n : Nat, at : Times]
    /\ r.divergentSince <= now
    /\ r.lastWriteAt <= now
    /\ r.lastDocAt <= now
    /\ r.lastReassertAt <= now

\* The reports alone tell a consumer exactly which episode is open: begins
\* and ends stay paired across target changes, publisher restarts,
\* reconnects and rejected input (checkEpisodeBegin, setDesiredCore, Observe).
StreamMirrorsEpisode ==
    openEpisode = IF r.inEpisode THEN r.episode ELSE 0

\* An open episode is one the code earned: a document stands, the last
\* assessable readback of it diverged, and divergence has been observed for
\* ConvergeTimeout without a matching readback in between.
EpisodeIsEarned ==
    r.inEpisode =>
        /\ r.applied
        /\ ~r.converged
        /\ r.divergentSince # Never
        /\ now - r.divergentSince >= ConvergeTimeout

\* No document becomes the standing intent without its fields having been
\* handed to the shell for writing, however it arrived (setDesiredCore's
\* same-target shortcut must compare with what was really written).
StandingWasWritten == lastWritten = r.fields

\* A document reported stale has not been refreshed for StaleAfter; an
\* accepted refresh withdraws the verdict (Tick, setDesiredCore).
StaleIsTrue ==
    r.staleReported => /\ r.lastDocAt # Never
                       /\ now - r.lastDocAt >= StaleAfter

\* Within one divergence window the (k+1)-th corrective write comes at least
\* the k-th backoff gap after the k-th, whatever reconnects, refreshes and
\* ticks fall in between: a device that will not converge is never written
\* in a tight loop.
CorrectivePacing ==
    [][window.n > 0 /\ window'.n > window.n
         => now - window.at >= BackoffGap(window.n)]_vars
=============================================================================
