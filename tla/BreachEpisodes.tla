--------------------------- MODULE BreachEpisodes ---------------------------
(***************************************************************************)
(* The hub's CannotComply episodes (cmd/hub/breach.go): two kinds of       *)
(* evidence, the optimizer's meter-level breach and the reconciler shells' *)
(* non-convergence reports, are merged into one episode whose edges are    *)
(* published as alerts; a snapshot of the episode's identity survives a    *)
(* restart of the hub (snapshot.go, main.go).                              *)
(*                                                                         *)
(* The engine goroutine feeds plans and the MQTT goroutine feeds reports.  *)
(* The component's mutex covers the decision only: each goroutine then     *)
(* publishes its alert (outbox) outside the mutex.                         *)
(***************************************************************************)
EXTENDS Integers, Sequences, FiniteSets

CONSTANTS
    Reporter,    \* the reporting shells, one per class and device
    Device,      \* the device ids they report under
    DeviceOf,    \* DeviceOf[p]: the device id in the reports of shell p
    MRIDs,       \* the controls' mRIDs, as numbers in their string order
    OnsetTicks,  \* passes over the limit before the optimizer sees a breach
    Freshness,   \* may a restart find the snapshot fresh, or too old?
    MaxChanges,  \* bound on what the grid, the site and the shells do
    MaxRestarts, \* bound on restarts of the hub and of the shells
    MaxBlind,    \* bound on losses of the meter
    MaxLosses    \* bound on failed publishes and on disk failures

ASSUME BreachAssumption ==
    /\ DeviceOf \in [Reporter -> Device]
    /\ MRIDs \subseteq Nat \ {0}
    /\ OnsetTicks \in Nat \ {0}
    /\ Freshness \subseteq BOOLEAN
    /\ {MaxChanges, MaxRestarts, MaxBlind, MaxLosses} \subseteq Nat

NoMRID == 0
Goroutine == {"engine", "mqtt"}

VARIABLES
    control,        \* mRID of the control in force, or NoMRID
    over,           \* does the site exceed its limit?
    adrBound,       \* is the exceeded limit an OpenADR one?
    meter,          \* is there a fresh meter reading?
    disk,           \* do snapshot writes succeed?
    diverged,       \* diverged[p]: mRID of the episode shell p has open
    retained,       \* broker: the retained report of each shell
    inbox,          \* reports on their way to the hub, by topic
    overTicks,      \* the optimizer's leaky counter
    planBreach,     \* mRID of the latest assessed plan's breach, or NoMRID
    deviceReports,  \* latest convergence state by device id
    activeMRID,     \* mRID of the open episode, or NoMRID
    snapshot,       \* the snapshot file's episode, or NoMRID
    outbox,         \* alerts decided on and not yet published
    alerted,        \* northbound: mRIDs of the current breach episode
    heard,          \* ghost: what each shell last told this hub process
    announced,      \* ghost: control whose meter breach was published as an
                    \* alert and has lasted ever since
    budget          \* what is left of each bound

siteVars  == <<control, over, adrBound, meter, disk>>
shellVars == <<diverged, retained>>
hubVars   == <<overTicks, planBreach, deviceReports, activeMRID, snapshot>>
ghostVars == <<heard, announced>>
vars == <<siteVars, shellVars, inbox, hubVars, outbox, alerted, ghostVars,
          budget>>

NoReport == [kind |-> "None", mrid |-> NoMRID]
NoAlert == [kind |-> "None", mrid |-> NoMRID]
Converged == [mrid |-> NoMRID, nonConverged |-> FALSE]

Spend(what) ==
    /\ budget[what] > 0
    /\ budget' = [budget EXCEPT ![what] = @ - 1]

Init ==
    /\ control = NoMRID /\ over = FALSE /\ adrBound = FALSE
    /\ meter = TRUE /\ disk = TRUE
    /\ diverged = [p \in Reporter |-> NoMRID]
    /\ retained = [p \in Reporter |-> NoReport]
    /\ inbox = [p \in Reporter |-> <<>>]
    /\ overTicks = 0 /\ planBreach = NoMRID
    /\ deviceReports = [d \in Device |-> Converged]
    /\ activeMRID = NoMRID /\ snapshot = NoMRID
    /\ outbox = [g \in Goroutine |-> NoAlert]
    /\ alerted = {}
    /\ heard = [p \in Reporter |-> NoMRID]
    /\ announced = NoMRID
    /\ budget = [changes |-> MaxChanges, restarts |-> MaxRestarts,
                 blind |-> MaxBlind, losses |-> MaxLosses]
-----------------------------------------------------------------------------
(* Arbitration: effectiveBreach and emit.                                  *)

Lowest(S) == CHOOSE m \in S : \A n \in S : m <= n

DeviceEvidence(reports) ==
    {reports[d].mrid : d \in {e \in Device : reports[e].nonConverged}}
        \ {NoMRID}

\* Mutant: the meter alone decides once it has spoken.
MutEffectiveBreachMeterOnly(plan, reports, active) ==
    LET devices == DeviceEvidence(reports)
    IN  IF plan # NoMRID \/ active # NoMRID THEN plan
        ELSE IF devices = {} THEN NoMRID
        ELSE Lowest(devices)

\* The meter decides; else a device under the open episode's control keeps
\* it; else the lowest mRID.
EffectiveBreach(plan, reports, active) ==
    LET devices == DeviceEvidence(reports)
    IN  IF plan # NoMRID THEN plan
        ELSE IF devices = {} THEN NoMRID
        ELSE IF active \in devices THEN active
        ELSE Lowest(devices)

Edge(from, to) ==
    IF from = to THEN NoAlert
    ELSE IF to = NoMRID THEN [kind |-> "Clear", mrid |-> from]
    ELSE [kind |-> "Active", mrid |-> to]

\* An edge moves the episode, writes the snapshot (a failure is only logged)
\* and leaves the alert to goroutine g.
Emit(g, plan, reports) ==
    LET m == EffectiveBreach(plan, reports, activeMRID)
    IN  /\ planBreach' = plan
        /\ deviceReports' = reports
        /\ activeMRID' = m
        /\ outbox' = [outbox EXCEPT ![g] = Edge(activeMRID, m)]
        /\ snapshot' = IF m # activeMRID /\ disk THEN m ELSE snapshot
-----------------------------------------------------------------------------
(* The engine goroutine.                                                   *)

\* The optimizer's leaky counter: reset without a limit, held without a
\* meter reading.
Leak(ticks) ==
    CASE control = NoMRID                         -> 0
      [] control # NoMRID /\ ~meter               -> ticks
      [] control # NoMRID /\ meter /\ over        ->
            IF ticks < OnsetTicks THEN ticks + 1 ELSE ticks
      [] OTHER -> IF ticks > 0 THEN ticks - 1 ELSE 0

\* Without a reading no breach is recorded; one that an OpenADR limit alone
\* explains is withheld from the component.
Assessed(ticks) ==
    IF control # NoMRID /\ meter /\ ticks >= OnsetTicks /\ ~adrBound
    THEN control ELSE NoMRID

PlanPass ==
    /\ outbox["engine"] = NoAlert
    /\ overTicks' = Leak(overTicks)
    /\ Emit("engine", Assessed(Leak(overTicks)), deviceReports)
    /\ UNCHANGED <<siteVars, shellVars, inbox, alerted, ghostVars, budget>>

\* Mutant: a safety plan's nil breach is taken for an assessment.
MutSafetyPassAssessed ==
    /\ outbox["engine"] = NoAlert
    /\ Emit("engine", NoMRID, deviceReports)
    /\ UNCHANGED <<siteVars, shellVars, inbox, overTicks, alerted, ghostVars,
                   budget>>

\* A plan of the fast loop is not assessed.
SafetyPass ==
    /\ outbox["engine"] = NoAlert
    /\ UNCHANGED vars

\* The 60 s refresh rewrites the snapshot of an open episode.
ResaveIfActive ==
    /\ activeMRID # NoMRID /\ disk /\ snapshot # activeMRID
    /\ snapshot' = activeMRID
    /\ UNCHANGED <<siteVars, shellVars, inbox, overTicks, planBreach,
                   deviceReports, activeMRID, outbox, alerted, ghostVars,
                   budget>>
-----------------------------------------------------------------------------
(* The MQTT goroutine.                                                     *)

\* A begin without a control is dropped; an end keeps the entry's mRID.
Noted(reports, p, rep) ==
    LET d == DeviceOf[p]
    IN  CASE rep.kind = "Begin" /\ rep.mrid # NoMRID ->
               [reports EXCEPT ![d] = [mrid |-> rep.mrid, nonConverged |-> TRUE]]
          [] rep.kind = "End" ->
               [reports EXCEPT ![d].nonConverged = FALSE]
          [] OTHER -> reports

OnReport(p) ==
    LET rep == Head(inbox[p])
    IN  /\ inbox[p] # <<>> /\ outbox["mqtt"] = NoAlert
        /\ inbox' = [inbox EXCEPT ![p] = Tail(@)]
        /\ IF rep.kind = "Begin" /\ rep.mrid = NoMRID
           THEN UNCHANGED <<planBreach, deviceReports, activeMRID, snapshot,
                            outbox>>
           ELSE Emit("mqtt", planBreach, Noted(deviceReports, p, rep))
        /\ heard' = [heard EXCEPT ![p] =
                        IF rep.kind = "Begin" THEN rep.mrid ELSE NoMRID]
        /\ UNCHANGED <<siteVars, shellVars, overTicks, alerted, announced,
                       budget>>

\* emitAlerts: the alert reaches northbound, which records an active one
\* and forgets everything on a clear ...
Publish(g) ==
    /\ outbox[g] # NoAlert
    /\ alerted' = IF outbox[g].kind = "Active"
                  THEN alerted \cup {outbox[g].mrid} ELSE {}
    /\ announced' = IF /\ g = "engine" /\ outbox[g].kind = "Active"
                       /\ planBreach = outbox[g].mrid
                       /\ control = outbox[g].mrid /\ over /\ ~adrBound
                    THEN control ELSE announced
    /\ outbox' = [outbox EXCEPT ![g] = NoAlert]
    /\ UNCHANGED <<siteVars, shellVars, inbox, hubVars, heard, budget>>

\* ... or times out, which is only logged.
PublishFails(g) ==
    /\ outbox[g] # NoAlert
    /\ outbox' = [outbox EXCEPT ![g] = NoAlert]
    /\ Spend("losses")
    /\ UNCHANGED <<siteVars, shellVars, inbox, hubVars, alerted, ghostVars>>
-----------------------------------------------------------------------------
(* The shells, the site and the grid.                                      *)

Report(p, kind, m) ==
    /\ retained' = [retained EXCEPT ![p] = [kind |-> kind, mrid |-> m]]
    /\ inbox' = [inbox EXCEPT ![p] = Append(@, [kind |-> kind, mrid |-> m])]

NonConvergedBegin(p) ==
    /\ diverged[p] = NoMRID /\ retained[p].kind # "Begin"
    /\ Report(p, "Begin", control)
    /\ diverged' = [diverged EXCEPT ![p] = control]
    /\ Spend("changes")
    /\ UNCHANGED <<siteVars, hubVars, outbox, alerted, ghostVars>>

NonConvergedEnd(p) ==
    /\ retained[p].kind = "Begin"
    /\ Report(p, "End", retained[p].mrid)
    /\ diverged' = [diverged EXCEPT ![p] = NoMRID]
    /\ UNCHANGED <<siteVars, hubVars, outbox, alerted, ghostVars, budget>>

\* decideStaleHeal: a restarted shell ends the episode it no longer knows of.
ShellRestart(p) ==
    /\ diverged' = [diverged EXCEPT ![p] = NoMRID]
    /\ IF retained[p].kind = "Begin" THEN Report(p, "End", retained[p].mrid)
       ELSE UNCHANGED <<retained, inbox>>
    /\ Spend("restarts")
    /\ UNCHANGED <<siteVars, hubVars, outbox, alerted, ghostVars>>

\* The hub starts over: the identity comes from a snapshot that is not too
\* old, the device evidence from the retained reports, in time.
HubRestart ==
    /\ \E fresh \in Freshness :
          activeMRID' = IF fresh THEN snapshot ELSE NoMRID
    /\ overTicks' = 0 /\ planBreach' = NoMRID
    /\ deviceReports' = [d \in Device |-> Converged]
    /\ outbox' = [g \in Goroutine |-> NoAlert]
    /\ inbox' = [p \in Reporter |-> IF retained[p] = NoReport THEN <<>>
                                    ELSE <<retained[p]>>]
    /\ heard' = [p \in Reporter |-> NoMRID]
    /\ Spend("restarts")
    /\ UNCHANGED <<siteVars, shellVars, snapshot, alerted, announced>>

\* The control, the load and the OpenADR limit change.
SiteChanges ==
    /\ control' \in MRIDs \cup {NoMRID}
    /\ over' \in BOOLEAN
    /\ adrBound' \in BOOLEAN
    /\ <<control', over', adrBound'>> # <<control, over, adrBound>>
    /\ announced' = IF announced = control' /\ over' /\ ~adrBound'
                    THEN announced ELSE NoMRID
    /\ Spend("changes")
    /\ UNCHANGED <<meter, disk, shellVars, inbox, hubVars, outbox, alerted,
                   heard>>

MeterLost ==
    /\ meter /\ meter' = FALSE
    /\ Spend("blind")
    /\ UNCHANGED <<control, over, adrBound, disk, shellVars, inbox, hubVars,
                   outbox, alerted, ghostVars>>

MeterBack ==
    /\ ~meter /\ meter' = TRUE
    /\ UNCHANGED <<control, over, adrBound, disk, shellVars, inbox, hubVars,
                   outbox, alerted, ghostVars, budget>>

DiskFails ==
    /\ disk /\ disk' = FALSE
    /\ Spend("losses")
    /\ UNCHANGED <<control, over, adrBound, meter, shellVars, inbox, hubVars,
                   outbox, alerted, ghostVars>>

DiskBack ==
    /\ ~disk /\ disk' = TRUE
    /\ UNCHANGED <<control, over, adrBound, meter, shellVars, inbox, hubVars,
                   outbox, alerted, ghostVars, budget>>

HubStep ==
    \/ PlanPass \/ SafetyPass \/ ResaveIfActive
    \/ \E p \in Reporter : OnReport(p)
    \/ \E g \in Goroutine : Publish(g) \/ PublishFails(g)

Environment ==
    \/ \E p \in Reporter : \/ NonConvergedBegin(p) \/ NonConvergedEnd(p)
                           \/ ShellRestart(p)
    \/ HubRestart \/ SiteChanges
    \/ MeterLost \/ MeterBack \/ DiskFails \/ DiskBack

Next == HubStep \/ Environment

\* The engine keeps ticking, the broker delivers, a publish ends, and a lost
\* meter comes back.
Fairness ==
    /\ WF_vars(PlanPass)
    /\ \A p \in Reporter : WF_vars(OnReport(p))
    /\ \A g \in Goroutine : WF_vars(Publish(g))
    /\ WF_vars(MeterBack)

Spec == Init /\ [][Next]_vars /\ Fairness
-----------------------------------------------------------------------------
\* The counter stays within its cap; the rest is types.
TypeOK ==
    LET M == MRIDs \cup {NoMRID} IN
    /\ {control, planBreach, activeMRID, snapshot, announced} \subseteq M
    /\ deviceReports \in [Device -> [mrid : M, nonConverged : BOOLEAN]]
    /\ overTicks \in 0..OnsetTicks
    /\ outbox \in [Goroutine -> [kind : {"None", "Active", "Clear"}, mrid : M]]
    /\ alerted \subseteq MRIDs
    /\ {diverged, heard} \subseteq [Reporter -> M]

\* An episode ends only when no source holds evidence: the last assessed
\* plan had no breach and every shell's last report, by shell and not by
\* device id, is not a begin (emit, effectiveBreach, OnReport).
EndsWhenAllClear ==
    [][activeMRID # NoMRID /\ activeMRID' = NoMRID
         => /\ planBreach' = NoMRID
            /\ \A s \in Reporter : heard'[s] = NoMRID]_vars

Settled == [][UNCHANGED <<control, over, adrBound, diverged, retained>>]_vars
MeterBreach == control # NoMRID /\ over /\ ~adrBound
AnyBreach == MeterBreach \/ \E p \in Reporter : diverged[p] # NoMRID

\* Once the grid, the site and the shells settle, the episode agrees with
\* what they settled on: a lasting breach of a control has an episode and a
\* site in order has none, through restarts, lost meters, full disks and
\* reports that arrive late (OnPlan, OnReport, Restore).
EpisodeSettles ==
    <>Settled => <>[]((activeMRID # NoMRID) <=> AnyBreach)

Repeats == announced # NoMRID /\ outbox'["engine"] # outbox["engine"]
               /\ outbox'["engine"] = [kind |-> "Active", mrid |-> announced]
Undisturbed == budget.restarts = MaxRestarts /\ budget.blind = MaxBlind

\* While the site stays over the limit of one control, a hub that has not
\* been restarted and has not lost its meter announces that control's breach
\* once, whatever safety plans, reports, resaves, disk failures and lost
\* alerts fall in between ("one episode is reported once, not per tick", emit).
OneAlertPerBreach == [][Undisturbed /\ Undisturbed' => ~Repeats]_vars

=============================================================================
