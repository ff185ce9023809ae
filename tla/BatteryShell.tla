---------------------------- MODULE BatteryShell ----------------------------
(***************************************************************************)
(* One active battery in lexa-modbus: the reconciler shell (cmd/modbus/    *)
(* reconcile_shell.go), the Tier-0 safety interlock (interlock.go) and the *)
(* reconnecting device session (retryDevice in main.go), with the pack     *)
(* itself (external).                                                      *)
(*                                                                         *)
(* Three goroutines share them: the poll goroutine reads the pack, runs    *)
(* the interlock and then the shell's observe; the MQTT goroutine runs     *)
(* setDesired; a ticker runs tick.  The shell's mutex is the variable job: *)
(* it is held from the reconciler's decision until the write is done.  The *)
(* interlock has a mutex of its own, which nobody holds while writing to   *)
(* the pack, so its steps interleave with a shell operation's.             *)
(***************************************************************************)
EXTENDS ReconcilerCore

CONSTANTS
    Targets,        \* opinion sets of the hub's documents
    DischargeAbove, \* interlockDischargeW
    MaxDocs,        \* bound on documents delivered
    MaxFaults,      \* bound on reboots and session losses
    MaxTime         \* bound on the clock

\* Watts are signed, and a pack can run its setpoint backwards.
ASSUME ShellAssumption ==
    /\ "SetpointW" \in Field
    /\ 0 \in Level /\ \A w \in Level : -w \in Level
    /\ Targets \subseteq Opinions
    /\ DischargeAbove \in Nat
    /\ MaxDocs \in Nat /\ MaxFaults \in Nat /\ MaxTime \in Nat

VARIABLES
    r,                \* the reconciler
    now,
    docs,             \* documents delivered so far; the next one's seq
    job,              \* the shell operation holding the mutex, or NoJob
    reconnectPending, \* set by the session on reopen, swapped by observe
    poll,             \* the poll goroutine: where it is and what it read
    chargeCmd,        \* interlock: the hub's last command was a charge
    tripped,          \* interlock: force-disconnected by it
    session,          \* "up", "broken" (not noticed yet) or "down"
    pack,             \* the pack's contactor and setpoint
    inverted,         \* the pack runs its setpoint backwards
    low,              \* the pack is at or near its reserve
    written,          \* ghost: fields written in this session
    held,             \* ghost: the last write decided on was suppressed
    faults

shellVars == <<r, docs, job, reconnectPending, written, held>>
lockVars  == <<chargeCmd, tripped>>
packVars  == <<session, pack, inverted, low, faults>>
vars == <<shellVars, now, poll, lockVars, packVars>>

NoJob == [owner |-> "none", stage |-> "none"]
NoSample == [w |-> 0, low |-> FALSE]
Defaults == [connected |-> TRUE, setpoint |-> 0]

Init ==
    /\ r = New /\ now = 0 /\ docs = 0
    /\ job = NoJob
    /\ reconnectPending = FALSE
    /\ poll = [pc |-> "idle", m |-> NoSample]
    /\ chargeCmd = FALSE /\ tripped = FALSE
    /\ session = "up" /\ pack = Defaults
    /\ inverted \in BOOLEAN /\ low \in BOOLEAN
    /\ written = NoOpinion /\ held = FALSE /\ faults = 0
-----------------------------------------------------------------------------
(* The shell's operations.  Each takes the mutex, decides, and leaves a    *)
(* write, if any, to the two steps of applyActionLocked.                   *)

Locked(owner, write) ==
    IF write = NoWrite THEN NoJob ELSE [owner |-> owner, stage |-> "gate"]

\* noteControl: a negative setpoint that is not a disconnect.
Charges(fields) ==
    /\ "SetpointW" \in DOMAIN fields /\ fields["SetpointW"] < 0
    /\ ~("Connect" \in DOMAIN fields /\ fields["Connect"] = 0)

setDesired ==
    /\ job = NoJob /\ docs < MaxDocs
    /\ \E t \in Targets :
        LET res == SetDesired(r, [mrid |-> NoMRID, seq |-> docs, fields |-> t,
                                  issuedAt |-> now, finite |-> TRUE], now)
        IN  /\ r' = res.r
            /\ job' = IF res.write = NoWrite THEN NoJob
                      ELSE [owner |-> "mqtt", stage |-> "note"]
    /\ docs' = docs + 1
    /\ UNCHANGED <<now, reconnectPending, poll, lockVars, packVars, written,
                   held>>

\* A new target is noted to the interlock before it is written.
Note ==
    /\ job.stage = "note"
    /\ chargeCmd' = Charges(r.fields)
    /\ job' = [job EXCEPT !.stage = "gate"]
    /\ UNCHANGED <<r, now, docs, reconnectPending, poll, tripped, packVars,
                   written, held>>

tick ==
    /\ job = NoJob
    /\ LET res == Tick(r, now)
       IN  r' = res.r /\ job' = Locked("ticker", res.write)
    /\ UNCHANGED <<now, docs, reconnectPending, poll, lockVars, packVars,
                   written, held>>

\* After a write the mutex is released, or kept for the rest of observe.
Done == IF job.owner = "poll" /\ poll.pc = "assess"
        THEN [owner |-> "poll", stage |-> "observe"] ELSE NoJob

RestoresConnect(fields) == "Connect" \in DOMAIN fields /\ fields["Connect"] = 1

\* applyActionLocked, first half: Tier-0 seniority.  A suppressed write is
\* reported and forgotten.
Gate ==
    /\ job.stage = "gate"
    /\ IF RestoresConnect(r.fields) /\ tripped
       THEN job' = Done /\ held' = TRUE
       ELSE job' = [job EXCEPT !.stage = "write"] /\ held' = FALSE
    /\ UNCHANGED <<r, now, docs, reconnectPending, poll, lockVars, packVars,
                   written>>

\* What a control leaves of the pack: a field without an opinion stays.
Controlled(p, fields) ==
    [connected |-> IF "Connect" \in DOMAIN fields
                   THEN fields["Connect"] = 1 ELSE p.connected,
     setpoint |-> IF "SetpointW" \in DOMAIN fields
                  THEN fields["SetpointW"] ELSE p.setpoint]

\* applyActionLocked, second half, through retryDevice.ApplyControl: without
\* a session the write is dropped silently; a write error drops the session.
Write ==
    /\ job.stage = "write"
    /\ job' = Done
    /\ IF session = "up"
       THEN pack' = Controlled(pack, r.fields) /\ written' = r.fields
       ELSE UNCHANGED <<pack, written>>
    /\ session' = IF session = "broken" THEN "down" ELSE session
    /\ UNCHANGED <<r, now, docs, reconnectPending, poll, lockVars, inverted,
                   low, held, faults>>
-----------------------------------------------------------------------------
(* The poll goroutine.                                                     *)

PowerOut ==
    IF ~pack.connected THEN 0
    ELSE IF inverted THEN -pack.setpoint ELSE pack.setpoint

\* Mutant: a reopened session is not announced to the shell.
MutReadSilentReopen ==
    /\ poll.pc = "idle" /\ session # "broken"
    /\ session' = "up"
    /\ written' = IF session = "down" THEN NoOpinion ELSE written
    /\ poll' = [pc |-> "check", m |-> [w |-> PowerOut, low |-> low]]
    /\ UNCHANGED <<r, now, docs, job, reconnectPending, lockVars, pack,
                   inverted, low, held, faults>>

\* ReadMeasurements: reopen if need be, and announce it; then read.
Read ==
    /\ poll.pc = "idle" /\ session # "broken"
    /\ session' = "up"
    /\ reconnectPending' = (reconnectPending \/ session = "down")
    /\ written' = IF session = "down" THEN NoOpinion ELSE written
    /\ poll' = [pc |-> "check", m |-> [w |-> PowerOut, low |-> low]]
    /\ UNCHANGED <<r, now, docs, job, lockVars, pack, inverted, low, held,
                   faults>>

\* A read on a dead session drops it; nothing else happens this poll.
ReadError ==
    /\ poll.pc = "idle" /\ session = "broken"
    /\ session' = "down"
    /\ UNCHANGED <<shellVars, now, poll, lockVars, pack, inverted, low, faults>>

\* check: decide on the sample and the intent known now ...
SampleUnsafe(m) == chargeCmd /\ m.w > DischargeAbove /\ m.low

\* Mutant: a pack already tripped is not disconnected again.
MutCheckOnce ==
    /\ poll.pc = "check"
    /\ IF SampleUnsafe(poll.m)
       THEN /\ poll' = [poll EXCEPT !.pc = IF tripped THEN "observe" ELSE "trip"]
            /\ UNCHANGED tripped
       ELSE poll' = [poll EXCEPT !.pc = "observe"] /\ tripped' = FALSE
    /\ UNCHANGED <<shellVars, now, chargeCmd, packVars>>

Check ==
    /\ poll.pc = "check"
    /\ IF SampleUnsafe(poll.m)
       THEN poll' = [poll EXCEPT !.pc = "trip"] /\ UNCHANGED tripped
       ELSE poll' = [poll EXCEPT !.pc = "observe"] /\ tripped' = FALSE
    /\ UNCHANGED <<shellVars, now, chargeCmd, packVars>>

\* ... disconnect the pack through the session ...
Trip ==
    /\ poll.pc = "trip"
    /\ pack' = IF session = "up" THEN [pack EXCEPT !.connected = FALSE]
                                 ELSE pack
    /\ session' = IF session = "broken" THEN "down" ELSE session
    /\ poll' = [poll EXCEPT !.pc = IF session = "broken" THEN "observe"
                                                         ELSE "mark"]
    /\ UNCHANGED <<shellVars, now, lockVars, inverted, low, faults>>

\* ... and only then record the trip.
Mark ==
    /\ poll.pc = "mark"
    /\ tripped' = TRUE
    /\ poll' = [poll EXCEPT !.pc = "observe"]
    /\ UNCHANGED <<shellVars, now, chargeCmd, packVars>>

\* observe: a pending reconnect reasserts the standing intent first ...
Reassert ==
    /\ poll.pc = "observe" /\ job = NoJob /\ reconnectPending
    /\ reconnectPending' = FALSE
    /\ LET res == Reconnected(r, now)
       IN  /\ r' = res.r
           /\ job' = [owner |-> "poll", stage |-> IF res.write = NoWrite
                                                  THEN "observe" ELSE "gate"]
    /\ poll' = [poll EXCEPT !.pc = "assess"]
    /\ UNCHANGED <<now, docs, lockVars, packVars, written, held>>

\* ... then the sample is assessed.  Connect has no register to read back.
Assess ==
    /\ \/ poll.pc = "observe" /\ job = NoJob /\ ~reconnectPending
       \/ poll.pc = "assess" /\ job.owner = "poll" /\ job.stage = "observe"
    /\ \E plausible \in BOOLEAN :
        LET res == Observe(r, [read |-> [f \in {"SetpointW"} |-> poll.m.w],
                               connected |-> TRUE, plausible |-> plausible,
                               finite |-> TRUE], now)
        IN  r' = res.r /\ job' = Locked("poll", res.write)
    /\ poll' = [pc |-> "idle", m |-> NoSample]
    /\ UNCHANGED <<now, docs, reconnectPending, lockVars, packVars, written,
                   held>>
-----------------------------------------------------------------------------
(* The pack and the clock.                                                 *)

\* The pack reboots to its defaults and its session dies unnoticed.
Reboot ==
    /\ session = "up" /\ faults < MaxFaults
    /\ session' = "broken" /\ pack' = Defaults
    /\ faults' = faults + 1
    /\ UNCHANGED <<shellVars, now, poll, lockVars, inverted, low>>

\* Only the session dies.
SessionLost ==
    /\ session = "up" /\ faults < MaxFaults
    /\ session' = "broken"
    /\ faults' = faults + 1
    /\ UNCHANGED <<shellVars, now, poll, lockVars, pack, inverted, low>>

Drain ==
    /\ ~low /\ low' = TRUE
    /\ UNCHANGED <<shellVars, now, poll, lockVars, session, pack, inverted,
                   faults>>

Advance ==
    /\ now < MaxTime /\ now' = now + 1
    /\ UNCHANGED <<shellVars, poll, lockVars, packVars>>

PollStep == Read \/ ReadError \/ Check \/ Trip \/ Mark \/ Reassert \/ Assess
JobStep == Note \/ Gate \/ Write

Next ==
    \/ setDesired \/ tick \/ JobStep \/ PollStep
    \/ Reboot \/ SessionLost \/ Drain \/ Advance

\* The poll goroutine keeps polling and a goroutine holding the mutex runs.
Fairness == WF_vars(PollStep) /\ WF_vars(JobStep)

Spec == Init /\ [][Next]_vars /\ Fairness
-----------------------------------------------------------------------------
\* Between the reassert of observe and its assessment the poll goroutine
\* keeps the shell's mutex; the rest is types.
TypeOK ==
    /\ r \in States
    /\ now \in Nat /\ docs \in Nat
    /\ job \in {NoJob} \cup [owner : {"mqtt", "ticker", "poll"},
                             stage : {"note", "gate", "write", "observe"}]
    /\ poll.pc \in {"idle", "check", "trip", "mark", "observe", "assess"}
    /\ session \in {"up", "broken", "down"}
    /\ pack \in [connected : BOOLEAN, setpoint : Level]
    /\ poll.pc = "assess" => job.owner = "poll"

\* From before a document's write until after it, the interlock judges the
\* pack by that document: a stale charge note would disconnect a pack that
\* discharges as told, a missing one would spare a pack that runs backwards
\* (setDesired notes, under the shell's mutex, before it writes).
NoteMatchesStanding == job.stage # "note" => chargeCmd = Charges(r.fields)

\* Between polls, a session that is open has been given the standing intent
\* since it was opened, unless the interlock suppressed the write: neither a
\* reboot nor a write dropped for want of a session leaves the pack on its
\* defaults (retryDevice.onReconnect, markReconnected, observe).
SessionCarriesStanding ==
    session = "up" /\ job = NoJob /\ ~reconnectPending /\ ~held
        => written = r.fields

Unsafe == pack.connected /\ chargeCmd /\ low /\ PowerOut > DischargeAbove

\* A pack that discharges against a charge command at its reserve does not
\* go on doing so: some poll disconnects it, whatever the shell writes in
\* between (check runs before observe on every poll).
UnsafeEnds == Unsafe ~> ~Unsafe

\* "while a pack is tripped, the reconciler must NOT issue a
\* connect-restoring write".
NoRestoreWhileTripped ==
    [][tripped /\ ~pack.connected => ~pack'.connected \/ session' = "broken"]_vars

=============================================================================
