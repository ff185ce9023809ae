----------------------------- MODULE SolarShell -----------------------------
(***************************************************************************)
(* One active inverter in lexa-modbus: the solar reconciler shell          *)
(* (cmd/modbus/reconcile_solar.go), its startup seed and the reconnecting  *)
(* device session, with the hub's documents, the broker and the inverter   *)
(* around it (external).                                                   *)
(*                                                                         *)
(* The shell differs from the battery's: divergence is one-sided, so it    *)
(* keeps a ceiling of its own to synthesise readbacks from, and a restarted*)
(* shell starts on a seeded release ceiling, or, when the first document   *)
(* it sees is stale, on that document's.  Inverters have no interlock, so  *)
(* an operation and its write are one step: what the session does in       *)
(* between is a reopen, which is followed by a reassert in any case.       *)
(***************************************************************************)
EXTENDS ReconcilerCore

CONSTANTS
    Caps,        \* the ceilings the hub may command
    Restore,     \* restoreCeilingW: no curtailment
    Sun,         \* the power the inverter could produce
    MaxSeq,      \* bound on the hub's sequence numbers
    MaxBacklog,  \* bound on documents delayed in the hub's client
    MaxRestarts, \* bound on restarts of lexa-modbus and of the hub
    MaxFaults,   \* bound on session losses and reboots
    MaxTime      \* bound on the clock

ASSUME SolarAssumption ==
    /\ Caps \subseteq Level /\ Restore \in Level /\ Sun \in Level
    /\ {MaxSeq, MaxBacklog, MaxRestarts, MaxFaults, MaxTime} \subseteq Nat

VARIABLES
    r,                  \* the reconciler
    now,
    desiredCeilingW,    \* the shell's own copy of the standing ceiling
    standingIsSeed,     \* no document of the hub was ever accepted
    reconnectPending,   \* set on reopen, consumed by observe
    sample,             \* power read by the poll goroutine, or NoSample
    session,            \* "up", "broken" (not noticed yet) or "down"
    cap,                \* the ceiling in the inverter's register
    seq,                \* the hub's next sequence number
    intent,             \* ceiling of the hub's latest document, or NoSample
    backlog,            \* documents the hub's client has not got through
    retained,           \* broker: the retained document, or NoDoc
    unread,             \* the retained document is about to be delivered
    restarts, faults    \* restarts and device faults so far

shellVars  == <<r, desiredCeilingW, standingIsSeed>>
deviceVars == <<session, cap>>
hubVars    == <<seq, intent, backlog>>
vars == <<shellVars, now, reconnectPending, sample, deviceVars, hubVars,
          retained, unread, restarts, faults>>

NoSample == -1
NoDoc == [seq |-> -1]
Ceiling(w) == [f \in {"CeilingW"} |-> w]

Document(w, s, at) ==
    [mrid |-> NoMRID, seq |-> s, issuedAt |-> at, fields |-> Ceiling(w),
     finite |-> TRUE]
-----------------------------------------------------------------------------

\* seedRestoreCeiling: adopted as the standing intent, its write dropped.
Seed(at) == SetDesired(New, Document(Restore, 0, at - 1), at).r

Init ==
    /\ now = 1
    /\ r = Seed(now) /\ desiredCeilingW = Restore /\ standingIsSeed = TRUE
    /\ reconnectPending = FALSE /\ sample = NoSample
    /\ session \in {"up", "down"} /\ cap \in Caps \cup {Restore}
    /\ seq = 0 /\ intent = NoSample
    /\ backlog = <<>> /\ retained = NoDoc /\ unread = FALSE
    /\ restarts = 0 /\ faults = 0

\* The register after a write through retryDevice.ApplyControl: dropped
\* silently without a session, and a failing write drops the session.
Apply(write, fields) ==
    /\ cap' = IF write # NoWrite /\ session = "up" THEN fields["CeilingW"]
              ELSE cap
    /\ session' = IF write # NoWrite /\ session = "broken" THEN "down"
                  ELSE session

\* A document refused as stale, while only the seed stands, is better than
\* the seed: its ceiling is re-seeded as of now.
Rejected(res) == \E i \in 1..Len(res.reports) :
                    res.reports[i].kind = "RejectedDoc"
StaleRejected(res) == \E i \in 1..Len(res.reports) :
                         res.reports[i].reject = "Stale"

setDesired(doc) ==
    LET res == SetDesired(r, doc, now)
        w == doc.fields["CeilingW"]
    IN  \/ /\ ~Rejected(res)
           /\ r' = res.r
           /\ desiredCeilingW' = w /\ standingIsSeed' = FALSE
           /\ Apply(res.write, res.r.fields)
        \/ /\ standingIsSeed /\ StaleRejected(res)
           /\ r' = SetDesired(res.r, Document(w, 1, now), now).r
           /\ desiredCeilingW' = w
           /\ UNCHANGED <<standingIsSeed, deviceVars>>
        \/ /\ Rejected(res) /\ ~(standingIsSeed /\ StaleRejected(res))
           /\ r' = res.r
           /\ UNCHANGED <<desiredCeilingW, standingIsSeed, deviceVars>>

\* The retained document arrives on the subscription ...
DeliverRetained ==
    /\ unread /\ unread' = FALSE
    /\ setDesired(retained)
    /\ UNCHANGED <<now, reconnectPending, sample, hubVars, retained, restarts,
                   faults>>

\* ... or one the hub's client gets through now.
DeliverLive ==
    /\ backlog # <<>> /\ ~unread
    /\ backlog' = Tail(backlog)
    /\ retained' = Head(backlog)
    /\ setDesired(Head(backlog))
    /\ UNCHANGED <<now, reconnectPending, sample, seq, intent, unread,
                   restarts, faults>>
-----------------------------------------------------------------------------
(* The poll goroutine and the ticker.                                      *)

Least(a, b) == IF a <= b THEN a ELSE b
Output == Least(Sun, cap)

\* ReadMeasurements: reopen if need be, announce it, read.
Read ==
    /\ sample = NoSample /\ session # "broken"
    /\ session' = "up"
    /\ reconnectPending' = (reconnectPending \/ session = "down")
    /\ sample' = Output
    /\ UNCHANGED <<shellVars, now, cap, hubVars, retained, unread, restarts,
                   faults>>

ReadError ==
    /\ sample = NoSample /\ session = "broken"
    /\ session' = "down"
    /\ UNCHANGED <<shellVars, now, reconnectPending, sample, cap, hubVars,
                   retained, unread, restarts, faults>>

\* Mutant: a reading over the ceiling is left out.
MutSynthesisedUnderOnly(w) ==
    IF w > desiredCeilingW + Tolerance["CeilingW"] THEN NoOpinion
    ELSE Ceiling(desiredCeilingW)

\* Producing less than the ceiling is no divergence: the reconciler reads
\* the ceiling itself then.
Synthesised(w) ==
    IF w > desiredCeilingW + Tolerance["CeilingW"] THEN Ceiling(w)
    ELSE Ceiling(desiredCeilingW)

Observed(x, plausible) ==
    Observe(x, [read |-> Synthesised(sample), connected |-> TRUE,
                plausible |-> plausible, finite |-> TRUE], now)

\* observe: a pending reconnect reasserts the standing intent, then the
\* sample, which predates the reassert, is assessed.
observe ==
    /\ sample # NoSample
    /\ sample' = NoSample /\ reconnectPending' = FALSE
    /\ \E plausible \in BOOLEAN :
        LET first == IF reconnectPending THEN Reconnected(r, now) ELSE Idle(r)
            second == Observed(first.r, plausible)
        IN  /\ r' = second.r
            /\ Apply(IF second.write = NoWrite THEN first.write
                     ELSE second.write, r.fields)
    /\ UNCHANGED <<now, desiredCeilingW, standingIsSeed, hubVars, retained,
                   unread, restarts, faults>>

tick ==
    /\ LET res == Tick(r, now) IN r' = res.r /\ Apply(res.write, r.fields)
    /\ UNCHANGED <<now, desiredCeilingW, standingIsSeed, reconnectPending,
                   sample, hubVars, retained, unread, restarts, faults>>

\* lexa-modbus starts over and opens the inverter if it answers.
ModbusRestart ==
    /\ restarts < MaxRestarts /\ restarts' = restarts + 1
    /\ r' = Seed(now) /\ desiredCeilingW' = Restore /\ standingIsSeed' = TRUE
    /\ reconnectPending' = FALSE /\ sample' = NoSample
    /\ session' \in {"up", "down"}
    /\ unread' = (retained # NoDoc)
    /\ UNCHANGED <<now, cap, hubVars, retained, faults>>
-----------------------------------------------------------------------------
(* The hub, the broker's session, the inverter and the clock.              *)

\* A document leaves the hub, at once or into its client's backlog.
Publish(w) ==
    /\ seq <= MaxSeq
    /\ seq' = seq + 1 /\ intent' = w
    /\ LET doc == Document(w, seq, now)
       IN  \/ /\ backlog = <<>> /\ ~unread
              /\ retained' = doc /\ setDesired(doc)
              /\ UNCHANGED backlog
           \/ /\ Len(backlog) < MaxBacklog
              /\ backlog' = Append(backlog, doc)
              /\ UNCHANGED <<retained, shellVars, deviceVars>>
    /\ UNCHANGED <<now, reconnectPending, sample, unread, restarts, faults>>

HubPublishes == \E w \in Caps \cup {Restore} : Publish(w)

HubRestart ==
    /\ restarts < MaxRestarts /\ restarts' = restarts + 1
    /\ seq' = 0 /\ backlog' = <<>>
    /\ UNCHANGED <<shellVars, now, reconnectPending, sample, deviceVars,
                   intent, retained, unread, faults>>

\* The subscription is renewed and the retained document delivered again.
Resubscribe ==
    /\ faults < MaxFaults /\ faults' = faults + 1
    /\ retained # NoDoc /\ unread' = TRUE
    /\ UNCHANGED <<shellVars, now, reconnectPending, sample, deviceVars,
                   hubVars, retained, restarts>>

\* The session dies unnoticed; with a reboot the register is lost too.
DeviceFault ==
    /\ session = "up"
    /\ faults < MaxFaults /\ faults' = faults + 1
    /\ session' = "broken"
    /\ cap' \in {cap, Restore}
    /\ UNCHANGED <<shellVars, now, reconnectPending, sample, hubVars,
                   retained, unread, restarts>>

Advance ==
    /\ now < MaxTime /\ now' = now + 1
    /\ UNCHANGED <<shellVars, reconnectPending, sample, deviceVars, hubVars,
                   retained, unread, restarts, faults>>

Next ==
    \/ DeliverRetained \/ DeliverLive \/ Read \/ ReadError \/ observe \/ tick
    \/ ModbusRestart \/ HubPublishes \/ HubRestart \/ Resubscribe
    \/ DeviceFault \/ Advance

\* Polling goes on, one reading in a while is plausible, and the broker
\* delivers.
ObservePlausibly == observe /\ r' \in {Observed(x, TRUE).r : x \in
                                          {r, Reconnected(r, now).r}}

Fairness ==
    /\ WF_vars(Read \/ ReadError) /\ SF_vars(ObservePlausibly)
    /\ WF_vars(DeliverRetained) /\ WF_vars(DeliverLive)

Spec == Init /\ [][Next]_vars /\ Fairness
-----------------------------------------------------------------------------
\* Sequence numbers stay natural (uint64); the rest is types.
TypeOK ==
    /\ r \in States
    /\ now \in Nat
    /\ desiredCeilingW \in Caps \cup {Restore}
    /\ cap \in Caps \cup {Restore}
    /\ session \in {"up", "broken", "down"}

\* Once the hub has been heard, the ceiling the shell synthesises readbacks
\* from is the one the reconciler stands on, whatever is refused, repeated or
\* late: two copies that drift apart turn obedience into divergence and back.
\* Before that the two may part: a second re-seed within one second is
\* refused by the core and tracked by the shell (reseedFromStaleDoc).
TrackedIsStanding ==
    ~standingIsSeed => r.applied /\ r.fields = Ceiling(desiredCeilingW)

\* "Under-ceiling is never a write and never counted a divergence": once the
\* hub has been heard, no reading at or under the standing ceiling opens a
\* divergence window.
OneSided ==
    [][~standingIsSeed /\ r.divergentSince = Never
            /\ r'.divergentSince # Never
         => sample > r.fields["CeilingW"] + Tolerance["CeilingW"]]_vars

\* Once restarts, faults and documents are over, the inverter stays under
\* the ceiling that stands, although seeds are never written: the first
\* reading over it is corrected (observe).
CapObeyed == <>[](Output <= r.fields["CeilingW"] + Tolerance["CeilingW"])

=============================================================================
