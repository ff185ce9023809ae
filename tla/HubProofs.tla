----------------------------- MODULE HubProofs ------------------------------
(***************************************************************************)
(* Proofs about the hub: its breach episodes (BreachEpisodes), for any     *)
(* number of shells, devices and controls, the editing of its              *)
(* configuration (Commission), for any number of services, writers and     *)
(* failures, the intents it adopts (Intents), for any goals, modes,        *)
(* messages and faults, and its day-ahead plan (Planner), for any controls,*)
(* tariff, horizon and grid.                                               *)
(*                                                                         *)
(* That an episode ends only without evidence needs to know that what the  *)
(* hub has heard is still what it holds; that a breach is announced once,  *)
(* that the open episode is the announced one; that a file is whole, who   *)
(* may be writing where and what a migration has staged; that an answer is *)
(* true, what the oneshot started each service from; that the inputs are   *)
(* kept, which message of a kind is the last on its way, and that an id    *)
(* is never given twice; that a plan is the cheapest, what the table holds *)
(* of all the runs there are.                                              *)
(***************************************************************************)
EXTENDS Intents, BreachEpisodes, Commission, Planner, WellFoundedInduction,
        FiniteSetTheorems, SequenceTheorems, TLAPS

MRID == MRIDs \cup {NoMRID}
ReportType == [kind : {"None", "Begin", "End"}, mrid : MRID]
AlertType == [kind : {"None", "Clear"}, mrid : MRID]
                \cup [kind : {"Active"}, mrid : MRIDs]
Evidence == [mrid : MRID, nonConverged : BOOLEAN]
BudgetType == [changes : Nat, restarts : 0..MaxRestarts, blind : 0..MaxBlind,
               losses : Nat]

\* TypeOK, the reports and budgets it rests on, and that an active alert
\* names a control.
BreachTypes ==
    /\ {control, planBreach, activeMRID, snapshot, announced} \subseteq MRID
    /\ {meter, disk, over, adrBound} \subseteq BOOLEAN
    /\ deviceReports \in [Device -> Evidence]
    /\ overTicks \in 0..OnsetTicks
    /\ outbox \in [Goroutine -> AlertType]
    /\ alerted \subseteq MRIDs
    /\ {diverged, heard} \subseteq [Reporter -> MRID]
    /\ retained \in [Reporter -> ReportType]
    /\ inbox \in [Reporter -> Seq(ReportType)]
    /\ budget \in BudgetType

LEMMA BreachTypesGiveTypeOK == BreachTypes => TypeOK
  <1>1. AlertType \subseteq [kind : {"None", "Active", "Clear"}, mrid : MRID]
    BY DEF AlertType, MRID
  <1> QED
    BY <1>1 DEF BreachTypes, TypeOK, MRID, Evidence

LEMMA MRIDType == MRID \subseteq Nat /\ NoMRID \in MRID /\ NoMRID \notin MRIDs
  BY BreachAssumption DEF MRID, NoMRID

\* Among naturals there is a lowest.
LEMMA LowestIsOne ==
  ASSUME NEW S \in SUBSET Nat, S # {}
  PROVE  Lowest(S) \in S
  <1> DEFINE Lesser == {ss \in Nat \X Nat : ss[1] < ss[2]}
  <1>1. IsWellFoundedOn(Lesser, Nat)
    BY NatLessThanWellFounded DEF OpToRel
  <1> HIDE DEF Lesser
  <1>2. PICK m \in S : \A n \in S : ~(<<n, m>> \in Lesser)
    BY <1>1, WFMin
  <1>3. ASSUME NEW n \in S PROVE m <= n
    <2>1. n \in Nat /\ m \in Nat
      OBVIOUS
    <2>2. n < m => <<n, m>> \in Lesser
      BY <2>1 DEF Lesser
    <2> QED
      BY <1>2, <2>1, <2>2
  <1> QED
    BY <1>3 DEF Lowest
-----------------------------------------------------------------------------
(* Types.                                                                  *)

LEMMA SpendType ==
  ASSUME budget \in BudgetType,
         NEW what \in {"changes", "restarts", "blind", "losses"}, Spend(what)
  PROVE  /\ budget' \in BudgetType
         /\ what # "restarts" => budget'.restarts = budget.restarts
         /\ what # "blind" => budget'.blind = budget.blind
         /\ what = "restarts" => budget'.restarts < budget.restarts
         /\ what = "blind" => budget'.blind < budget.blind
  BY BreachAssumption DEF BudgetType, Spend

LEMMA BreachTypesStart == Init => BreachTypes
  <1> SUFFICES ASSUME Init PROVE BreachTypes
    OBVIOUS
  <1>1. NoReport \in ReportType /\ NoMRID \in MRID
    BY MRIDType DEF NoReport, ReportType
  <1>2. /\ NoAlert \in AlertType /\ Converged \in Evidence
        /\ 0 \in 0..OnsetTicks
    BY BreachAssumption, MRIDType
       DEF NoAlert, AlertType, Converged, Evidence
  <1>3. budget \in BudgetType
    BY BreachAssumption DEF Init, BudgetType
  <1>4. <<>> \in Seq(ReportType)
    OBVIOUS
  <1>5. /\ retained \in [Reporter -> ReportType]
        /\ inbox \in [Reporter -> Seq(ReportType)]
    BY <1>1, <1>4 DEF Init
  <1> QED
    BY <1>1, <1>2, <1>3, <1>5 DEF Init, BreachTypes

\* Every mRID an arbitration can settle on is one the evidence names.
LEMMA EffectiveBreachType ==
  ASSUME NEW seen \in MRID, NEW active \in MRID,
         NEW reports \in [Device -> Evidence]
  PROVE  /\ EffectiveBreach(seen, reports, active) \in MRID
         /\ seen # NoMRID => EffectiveBreach(seen, reports, active) = seen
         /\ EffectiveBreach(seen, reports, active) = NoMRID =>
               seen = NoMRID /\ DeviceEvidence(reports) = {}
  <1> DEFINE devices == DeviceEvidence(reports)
  <1>1. devices \subseteq MRID /\ NoMRID \notin devices
    BY DEF DeviceEvidence, Evidence
  <1>2. devices # {} => Lowest(devices) \in devices
    BY <1>1, MRIDType, LowestIsOne
  <1> HIDE DEF devices
  <1> QED
    BY <1>1, <1>2, MRIDType DEF EffectiveBreach, devices

\* An edge's alert names the episode it begins or ends.
LEMMA EmitTypes ==
  ASSUME BreachTypes, NEW g \in Goroutine, NEW seen \in MRID,
         NEW reports \in [Device -> Evidence],
         Emit(g, seen, reports)
  PROVE  /\ {planBreach', activeMRID', snapshot'} \subseteq MRID
         /\ deviceReports' \in [Device -> Evidence]
         /\ outbox' \in [Goroutine -> AlertType]
  <1>1. activeMRID \in MRID /\ snapshot \in MRID
        /\ outbox \in [Goroutine -> AlertType]
    BY DEF BreachTypes, MRID
  <1>2. EffectiveBreach(seen, reports, activeMRID) \in MRID
    BY <1>1, EffectiveBreachType
  <1>3. Edge(activeMRID, EffectiveBreach(seen, reports, activeMRID))
            \in AlertType
    BY <1>1, <1>2, MRIDType DEF Edge, NoAlert, AlertType, MRID
  <1> QED
    BY <1>1, <1>2, <1>3 DEF Emit

\* The engine's pass and its tick counter.
LEMMA PlanPassTypes ==
  ASSUME BreachTypes, PlanPass
  PROVE  BreachTypes'
  <1>1. Leak(overTicks) \in 0..OnsetTicks
    BY BreachAssumption DEF BreachTypes, Leak
  <1>2. Assessed(Leak(overTicks)) \in MRID
    BY DEF BreachTypes, Assessed, MRID
  <1>3. "engine" \in Goroutine
    BY DEF Goroutine
  <1>4. /\ {planBreach', activeMRID', snapshot'} \subseteq MRID
        /\ deviceReports' \in [Device -> Evidence]
        /\ outbox' \in [Goroutine -> AlertType]
    BY <1>2, <1>3, EmitTypes DEF PlanPass, BreachTypes, MRID
  <1> QED
    BY <1>1, <1>4
       DEF PlanPass, BreachTypes, MRID, siteVars, shellVars, ghostVars

\* A report on its way is one that some shell made.
LEMMA OnReportTypes ==
  ASSUME BreachTypes, NEW s \in Reporter, OnReport(s)
  PROVE  BreachTypes'
  <1> DEFINE rep == Head(inbox[s])
  <1>1. rep \in ReportType /\ Tail(inbox[s]) \in Seq(ReportType)
    BY DEF OnReport, BreachTypes
  <1> HIDE DEF rep
  <1>2. DeviceOf[s] \in Device
    BY BreachAssumption
  <1>3. Noted(deviceReports, s, rep)
            \in [Device -> Evidence]
    BY <1>1, <1>2 DEF Noted, BreachTypes, Evidence, ReportType
  <1>4. /\ {planBreach', activeMRID', snapshot'} \subseteq MRID
        /\ deviceReports' \in [Device -> Evidence]
        /\ outbox' \in [Goroutine -> AlertType]
    <2>1. CASE rep.kind = "Begin" /\ rep.mrid = NoMRID
      BY <2>1 DEF OnReport, rep, BreachTypes, MRID
    <2>2. CASE Emit("mqtt", planBreach, Noted(deviceReports, s, rep))
      BY <1>3, <2>2, EmitTypes DEF BreachTypes, MRID, Goroutine
    <2> QED
      BY <2>1, <2>2 DEF OnReport, rep
  <1>5. inbox' \in [Reporter -> Seq(ReportType)]
    BY <1>1 DEF OnReport, BreachTypes
  <1>6. heard' \in [Reporter -> MRID]
    <2>1. (IF rep.kind = "Begin" THEN rep.mrid ELSE NoMRID) \in MRID
      BY <1>1, MRIDType DEF ReportType
    <2>2. heard \in [Reporter -> MRID]
      BY DEF BreachTypes, MRID
    <2> QED
      BY <2>1, <2>2 DEF OnReport, rep
  <1> QED
    BY <1>4, <1>5, <1>6
       DEF OnReport, BreachTypes, MRID, siteVars, shellVars

LEMMA PublishTypes ==
  ASSUME BreachTypes, NEW g \in Goroutine, Publish(g) \/ PublishFails(g)
  PROVE  BreachTypes'
  <1>1. NoAlert \in AlertType
    BY MRIDType DEF NoAlert, AlertType
  <1>2. outbox' \in [Goroutine -> AlertType]
    BY <1>1 DEF Publish, PublishFails, BreachTypes, MRID
  <1>3. budget' \in BudgetType
    BY SpendType DEF Publish, PublishFails, BreachTypes
  <1>4. alerted' \subseteq MRIDs /\ announced' \in MRID
    BY DEF Publish, PublishFails, BreachTypes, MRID, ghostVars, AlertType
  <1> QED
    BY <1>2, <1>3, <1>4 DEF Publish, PublishFails, BreachTypes, MRID,
       siteVars, shellVars, hubVars, ghostVars

\* The shells report; what was retained is what they reported.
LEMMA ShellTypes ==
  ASSUME BreachTypes, NEW s \in Reporter,
         NonConvergedBegin(s) \/ NonConvergedEnd(s) \/ ShellRestart(s)
  PROVE  BreachTypes'
  <1>1. ASSUME NEW kind \in {"Begin", "End"}, NEW m \in MRID, Report(s, kind, m)
        PROVE  /\ retained' \in [Reporter -> ReportType]
               /\ inbox' \in [Reporter -> Seq(ReportType)]
    <2>1. [kind |-> kind, mrid |-> m] \in ReportType
      BY DEF ReportType
    <2>2. Append(inbox[s], [kind |-> kind, mrid |-> m]) \in Seq(ReportType)
      BY <2>1 DEF BreachTypes
    <2> QED
      BY <1>1, <2>1, <2>2 DEF Report, BreachTypes
  <1>2. retained[s].mrid \in MRID /\ control \in MRID
    BY DEF BreachTypes, ReportType
  <1>3. /\ retained' \in [Reporter -> ReportType]
        /\ inbox' \in [Reporter -> Seq(ReportType)]
    BY <1>1, <1>2
       DEF NonConvergedBegin, NonConvergedEnd, ShellRestart, BreachTypes
  <1>4. diverged' \in [Reporter -> MRID]
    BY <1>2, MRIDType
       DEF NonConvergedBegin, NonConvergedEnd, ShellRestart, BreachTypes
  <1>5. budget' \in BudgetType
    BY SpendType
       DEF NonConvergedBegin, NonConvergedEnd, ShellRestart, BreachTypes
  <1> QED
    BY <1>3, <1>4, <1>5 DEF NonConvergedBegin, NonConvergedEnd, ShellRestart,
       BreachTypes, siteVars, hubVars, ghostVars

LEMMA HubRestartTypes ==
  ASSUME BreachTypes, HubRestart
  PROVE  BreachTypes'
  <1>1. /\ NoAlert \in AlertType /\ Converged \in Evidence
        /\ NoMRID \in MRID /\ 0 \in 0..OnsetTicks
    BY BreachAssumption, MRIDType
       DEF NoAlert, AlertType, Converged, Evidence
  <1>2. inbox' \in [Reporter -> Seq(ReportType)]
    <2>1. \A s \in Reporter : /\ <<>> \in Seq(ReportType)
                              /\ <<retained[s]>> \in Seq(ReportType)
      BY DEF BreachTypes
    <2> QED
      BY <2>1 DEF HubRestart
  <1>3. budget' \in BudgetType
    BY SpendType DEF HubRestart, BreachTypes
  <1>4. {planBreach', activeMRID', snapshot'} \subseteq MRID
    BY <1>1 DEF HubRestart, BreachTypes
  <1> QED
    BY <1>1, <1>2, <1>3, <1>4
       DEF HubRestart, BreachTypes, siteVars, shellVars

LEMMA SiteTypes ==
  ASSUME BreachTypes,
         SiteChanges \/ MeterLost \/ MeterBack \/ DiskFails \/ DiskBack
         \/ ResaveIfActive
  PROVE  BreachTypes'
  <1>1. budget' \in BudgetType
    BY SpendType DEF SiteChanges, MeterLost, MeterBack, DiskFails, DiskBack,
       ResaveIfActive, BreachTypes
  <1>2. {control', announced', snapshot'} \subseteq MRID
    BY MRIDType DEF SiteChanges, MeterLost, MeterBack, DiskFails, DiskBack,
       ResaveIfActive, BreachTypes, siteVars, hubVars, ghostVars, MRID
  <1>3. {meter', disk', over', adrBound'} \subseteq BOOLEAN
    BY DEF SiteChanges, MeterLost, MeterBack, DiskFails, DiskBack,
           ResaveIfActive, BreachTypes, siteVars
  <1> QED
    BY <1>1, <1>2, <1>3 DEF SiteChanges, MeterLost, MeterBack, DiskFails,
       DiskBack, ResaveIfActive, BreachTypes, shellVars, hubVars, ghostVars

LEMMA BreachTypesStep == BreachTypes /\ [Next]_vars => BreachTypes'
  <1>1. BreachTypes /\ UNCHANGED vars => BreachTypes'
    BY DEF BreachTypes, vars, siteVars, shellVars, hubVars, ghostVars
  <1> QED
    BY <1>1, PlanPassTypes, OnReportTypes, PublishTypes, ShellTypes,
       HubRestartTypes, SiteTypes DEF Next, HubStep, Environment, SafetyPass

LEMMA BreachTyped == Spec => []BreachTypes
  BY BreachTypesStart, BreachTypesStep, PTL DEF Spec

\* The hub's breach component keeps to its types, an active alert always names
\* a control, and the optimizer's counter keeps to its cap, for any number of
\* shells, devices and controls.
THEOREM BreachTypeCorrect == Spec => []TypeOK
  BY BreachTyped, BreachTypesGiveTypeOK, PTL
-----------------------------------------------------------------------------
(* An episode ends when all is clear.                                      *)

\* Each device is reported on by one shell.
OneShellPerDevice == \A s, q \in Reporter : DeviceOf[s] = DeviceOf[q] => s = q

\* A begin that the hub has heard is held as evidence under its device, until
\* the same shell says otherwise.
HeardIsHeld ==
    \A s \in Reporter :
        heard[s] # NoMRID =>
            /\ deviceReports[DeviceOf[s]].nonConverged
            /\ deviceReports[DeviceOf[s]].mrid # NoMRID

LEMMA HeardStarts == Init => HeardIsHeld
  BY DEF Init, HeardIsHeld

LEMMA HeardStep ==
  ASSUME OneShellPerDevice, BreachTypes, HeardIsHeld, [Next]_vars
  PROVE  HeardIsHeld'
  <1>1. CASE UNCHANGED <<heard, deviceReports>>
    BY <1>1 DEF HeardIsHeld
  <1>2. CASE PlanPass
    BY <1>2 DEF PlanPass, Emit, ghostVars, HeardIsHeld
  <1>3. ASSUME NEW s \in Reporter, OnReport(s) PROVE HeardIsHeld'
    <2> DEFINE rep == Head(inbox[s])
               said == IF rep.kind = "Begin" THEN rep.mrid ELSE NoMRID
    <2>1. /\ heard' = [heard EXCEPT ![s] = said]
          /\ heard \in [Reporter -> MRID]
          /\ deviceReports \in [Device -> Evidence]
      BY <1>3 DEF OnReport, BreachTypes
    <2>2. \A q \in Reporter : DeviceOf[q] \in Device
      BY BreachAssumption
    <2>3. CASE rep.kind = "Begin" /\ rep.mrid = NoMRID
      <3>1. deviceReports' = deviceReports
        BY <1>3, <2>3 DEF OnReport
      <3> QED
        BY <2>1, <2>3, <3>1 DEF HeardIsHeld
    <2>4. CASE ~(rep.kind = "Begin" /\ rep.mrid = NoMRID)
      <3>1. deviceReports' = Noted(deviceReports, s, rep)
        BY <1>3, <2>4 DEF OnReport, Emit
      <3> HIDE DEF rep
      <3>2. \A q \in Reporter : q # s =>
               Noted(deviceReports, s, rep)[DeviceOf[q]]
                    = deviceReports[DeviceOf[q]]
        BY <2>1, <2>2 DEF Noted, OneShellPerDevice
      <3>3. said # NoMRID =>
               /\ Noted(deviceReports, s, rep)[DeviceOf[s]].nonConverged
               /\ Noted(deviceReports, s, rep)[DeviceOf[s]].mrid # NoMRID
        BY <2>1, <2>2, <2>4 DEF Noted
      <3> QED
        BY <2>1, <3>1, <3>2, <3>3 DEF HeardIsHeld
    <2> QED
      BY <2>3, <2>4
  <1>4. CASE HubRestart
    BY <1>4 DEF HubRestart, HeardIsHeld
  <1>5. CASE UNCHANGED vars
    BY <1>1, <1>5 DEF vars, hubVars, ghostVars
  <1>6. CASE SafetyPass \/ ResaveIfActive \/ SiteChanges \/ MeterLost
             \/ MeterBack \/ DiskFails \/ DiskBack
    BY <1>1, <1>5, <1>6 DEF SafetyPass, ResaveIfActive, SiteChanges,
       MeterLost, MeterBack, DiskFails, DiskBack, hubVars, ghostVars
  <1>7. ASSUME NEW g \in Goroutine, Publish(g) \/ PublishFails(g)
        PROVE  HeardIsHeld'
    BY <1>1, <1>7 DEF Publish, PublishFails, hubVars, ghostVars
  <1>8. ASSUME NEW s \in Reporter,
               NonConvergedBegin(s) \/ NonConvergedEnd(s) \/ ShellRestart(s)
        PROVE  HeardIsHeld'
    BY <1>1, <1>8 DEF NonConvergedBegin, NonConvergedEnd, ShellRestart,
       hubVars, ghostVars
  <1> QED
    BY <1>2, <1>3, <1>4, <1>5, <1>6, <1>7, <1>8
       DEF Next, HubStep, Environment

\* Whoever arbitrates, no episode ends against evidence.
LEMMA EmitEndsWhenClear ==
  ASSUME BreachTypes, HeardIsHeld', NEW g, NEW seen \in MRID,
         NEW reports \in [Device -> Evidence], Emit(g, seen, reports),
         activeMRID' = NoMRID
  PROVE  planBreach' = NoMRID /\ \A s \in Reporter : heard'[s] = NoMRID
  <1>1. activeMRID \in MRID
    BY DEF BreachTypes
  <1>2. seen = NoMRID /\ DeviceEvidence(reports) = {}
    BY <1>1, EffectiveBreachType DEF Emit
  <1>3. \A d \in Device : reports[d].nonConverged => reports[d].mrid = NoMRID
    BY <1>2 DEF DeviceEvidence
  <1>4. \A s \in Reporter : DeviceOf[s] \in Device
    BY BreachAssumption
  <1> QED
    BY <1>2, <1>3, <1>4 DEF Emit, HeardIsHeld

LEMMA EndStep ==
  ASSUME BreachTypes, HeardIsHeld', [Next]_vars,
         activeMRID # NoMRID, activeMRID' = NoMRID
  PROVE  planBreach' = NoMRID /\ \A s \in Reporter : heard'[s] = NoMRID
  <1>1. CASE PlanPass
    <2>1. Assessed(Leak(overTicks)) \in MRID
      BY DEF BreachTypes, Assessed, MRID
    <2> QED
      BY <1>1, <2>1, EmitEndsWhenClear DEF PlanPass, BreachTypes
  <1>2. ASSUME NEW s \in Reporter, OnReport(s)
        PROVE  planBreach' = NoMRID /\ \A q \in Reporter : heard'[q] = NoMRID
    <2> DEFINE rep == Head(inbox[s])
    <2>1. Emit("mqtt", planBreach, Noted(deviceReports, s, rep))
      BY <1>2 DEF OnReport
    <2>2. rep \in ReportType
      BY <1>2 DEF OnReport, BreachTypes
    <2> HIDE DEF rep
    <2>3. DeviceOf[s] \in Device
      BY BreachAssumption
    <2>4. Noted(deviceReports, s, rep) \in [Device -> Evidence]
      BY <2>2, <2>3 DEF Noted, BreachTypes, Evidence, ReportType
    <2> QED
      BY <2>1, <2>4, EmitEndsWhenClear DEF BreachTypes
  <1>3. CASE HubRestart
    BY <1>3 DEF HubRestart
  <1>4. ASSUME UNCHANGED activeMRID PROVE FALSE
    BY <1>4
  <1>5. CASE UNCHANGED vars
    BY <1>4, <1>5 DEF vars, hubVars
  <1>6. CASE SafetyPass \/ ResaveIfActive \/ SiteChanges \/ MeterLost
             \/ MeterBack \/ DiskFails \/ DiskBack
    BY <1>4, <1>5, <1>6 DEF SafetyPass, ResaveIfActive, SiteChanges,
       MeterLost, MeterBack, DiskFails, DiskBack, hubVars
  <1>7. ASSUME NEW g \in Goroutine, Publish(g) \/ PublishFails(g) PROVE FALSE
    BY <1>4, <1>7 DEF Publish, PublishFails, hubVars
  <1>8. ASSUME NEW s \in Reporter,
               NonConvergedBegin(s) \/ NonConvergedEnd(s) \/ ShellRestart(s)
        PROVE  FALSE
    BY <1>4, <1>8 DEF NonConvergedBegin, NonConvergedEnd, ShellRestart,
       hubVars
  <1> QED
    BY <1>1, <1>2, <1>3, <1>5, <1>6, <1>7, <1>8
       DEF Next, HubStep, Environment

\* Where each device is reported on by one shell, an episode ends only when no
\* source holds evidence (breach.go's emit), through restarts, reordered
\* goroutines and lost alerts.
THEOREM EpisodesEndWhenClear == ASSUME OneShellPerDevice PROVE Spec => EndsWhenAllClear
  <1>1. BreachTypes /\ HeardIsHeld /\ [Next]_vars => HeardIsHeld'
    BY HeardStep
  <1>2. BreachTypes /\ HeardIsHeld' /\ [Next]_vars =>
           [activeMRID # NoMRID /\ activeMRID' = NoMRID
             => /\ planBreach' = NoMRID
                /\ \A s \in Reporter : heard'[s] = NoMRID]_vars
    BY EndStep
  <1>3. Spec => []HeardIsHeld
    BY <1>1, HeardStarts, BreachTyped, PTL DEF Spec
  <1> QED
    BY <1>2, <1>3, BreachTyped, PTL DEF Spec, EndsWhenAllClear
-----------------------------------------------------------------------------
(* One alert per breach.                                                   *)

\* The plan's breach is the episode, and the counter that found it is full.
MeterDecides ==
    planBreach # NoMRID =>
        activeMRID = planBreach /\ overTicks = OnsetTicks

\* A breach that has been announced lasts; the meter has been there as long
\* as none was lost; and without a restart the plan has seen no end of it.
AnnouncedLasts ==
    /\ announced # NoMRID => announced = control /\ over /\ ~adrBound
    /\ budget.blind = MaxBlind => meter
    /\ announced # NoMRID /\ Undisturbed => planBreach = announced

AlertInv == BreachTypes /\ MeterDecides /\ AnnouncedLasts

LEMMA AlertStarts == Init => AlertInv
  <1>1. Init => MeterDecides /\ AnnouncedLasts
    BY DEF Init, MeterDecides, AnnouncedLasts
  <1> QED
    BY <1>1, BreachTypesStart DEF AlertInv

\* What a pass of the optimizer finds while the announced breach lasts.
LEMMA PassFindsBreach ==
  ASSUME AlertInv, announced # NoMRID, Undisturbed
  PROVE  /\ Leak(overTicks) = overTicks
         /\ Assessed(overTicks) = announced
         /\ activeMRID = announced
  <1>1. /\ control = announced /\ over /\ ~adrBound /\ meter
        /\ activeMRID = announced /\ overTicks = OnsetTicks
    BY DEF AlertInv, MeterDecides, AnnouncedLasts, Undisturbed
  <1> QED
    BY <1>1, BreachAssumption DEF Leak, Assessed

\* An arbitration keeps what the meter has decided.
LEMMA EmitMeterDecides ==
  ASSUME BreachTypes, NEW g, NEW seen \in MRID,
         NEW reports \in [Device -> Evidence], Emit(g, seen, reports)
  PROVE  /\ planBreach' = seen
         /\ seen # NoMRID => activeMRID' = seen
         /\ seen = activeMRID /\ seen # NoMRID =>
               outbox' = [outbox EXCEPT ![g] = NoAlert]
  <1>1. activeMRID \in MRID
    BY DEF BreachTypes
  <1> QED
    BY <1>1, EffectiveBreachType DEF Emit, Edge

LEMMA PlanPassAlerts ==
  ASSUME AlertInv, PlanPass
  PROVE  MeterDecides' /\ AnnouncedLasts'
  <1> DEFINE ticks == Leak(overTicks)
             seen == Assessed(ticks)
  <1>1. seen \in MRID
    BY DEF AlertInv, BreachTypes, Assessed, MRID
  <1>2. ticks \in 0..OnsetTicks
    BY BreachAssumption DEF AlertInv, BreachTypes, Leak
  <1>3. planBreach' = seen /\ (seen # NoMRID => activeMRID' = seen)
    BY <1>1, EmitMeterDecides DEF PlanPass, AlertInv, BreachTypes
  <1>4. seen # NoMRID => ticks = OnsetTicks
    BY <1>2, BreachAssumption DEF Assessed
  <1>5. MeterDecides'
    BY <1>3, <1>4 DEF MeterDecides, PlanPass
  <1>6. AnnouncedLasts'
    <2>1. UNCHANGED <<control, over, adrBound, meter, announced, budget>>
      BY DEF PlanPass, siteVars, ghostVars
    <2>2. announced # NoMRID /\ Undisturbed => planBreach' = announced
      BY <1>3, PassFindsBreach
    <2> QED
      BY <2>1, <2>2 DEF AlertInv, AnnouncedLasts, Undisturbed
  <1> QED
    BY <1>5, <1>6

LEMMA OnReportAlerts ==
  ASSUME AlertInv, NEW s \in Reporter, OnReport(s)
  PROVE  MeterDecides' /\ AnnouncedLasts'
  <1>1. UNCHANGED <<control, over, adrBound, meter, announced, budget,
                    overTicks>>
    BY DEF OnReport, siteVars
  <1>2. planBreach' = planBreach
        /\ (planBreach # NoMRID => activeMRID' = planBreach)
    <2> DEFINE rep == Head(inbox[s])
    <2>1. CASE rep.kind = "Begin" /\ rep.mrid = NoMRID
      BY <2>1 DEF OnReport, AlertInv, MeterDecides
    <2>2. CASE Emit("mqtt", planBreach, Noted(deviceReports, s, rep))
      <3>1. rep \in ReportType
        BY DEF OnReport, AlertInv, BreachTypes
      <3> HIDE DEF rep
      <3>2. DeviceOf[s] \in Device
        BY BreachAssumption
      <3>3. Noted(deviceReports, s, rep) \in [Device -> Evidence]
        BY <3>1, <3>2
           DEF Noted, AlertInv, BreachTypes, Evidence, ReportType
      <3> QED
        BY <2>2, <3>3, EmitMeterDecides DEF AlertInv, BreachTypes
    <2> QED
      BY <2>1, <2>2 DEF OnReport
  <1> QED
    BY <1>1, <1>2 DEF AlertInv, MeterDecides, AnnouncedLasts, Undisturbed

\* The ghost records a breach that the engine alerted and that lasts.
LEMMA PublishAlerts ==
  ASSUME AlertInv, NEW g \in Goroutine, Publish(g) \/ PublishFails(g)
  PROVE  MeterDecides' /\ AnnouncedLasts'
  <1>1. UNCHANGED <<control, over, adrBound, meter, planBreach, activeMRID,
                    overTicks>>
    BY DEF Publish, PublishFails, siteVars, hubVars
  <1>2. budget'.blind = budget.blind /\ budget'.restarts = budget.restarts
    BY SpendType DEF Publish, PublishFails, AlertInv, BreachTypes
  <1>3. \/ announced' = announced
        \/ /\ announced' = control /\ over /\ ~adrBound
           /\ planBreach = control
    BY DEF Publish, PublishFails, ghostVars
  <1> QED
    BY <1>1, <1>2, <1>3 DEF AlertInv, MeterDecides, AnnouncedLasts,
       Undisturbed

LEMMA OthersAlerts ==
  ASSUME AlertInv,
         \/ HubRestart \/ SiteChanges \/ MeterLost \/ MeterBack \/ DiskFails
         \/ DiskBack \/ ResaveIfActive
         \/ \E s \in Reporter : \/ NonConvergedBegin(s) \/ NonConvergedEnd(s)
                                \/ ShellRestart(s)
  PROVE  MeterDecides' /\ AnnouncedLasts'
  <1>1. budget \in BudgetType
    BY DEF AlertInv, BreachTypes
  <1>2. CASE HubRestart
    <2>1. budget'.restarts < budget.restarts /\ budget'.blind = budget.blind
      BY <1>1, <1>2, SpendType DEF HubRestart
    <2>2. budget.restarts \in 0..MaxRestarts /\ ~Undisturbed'
      BY <1>1, <1>2, <2>1, SpendType, BreachAssumption
         DEF HubRestart, BudgetType, Undisturbed
    <2> QED
      BY <1>2, <2>1, <2>2 DEF HubRestart, AlertInv, MeterDecides,
         AnnouncedLasts, siteVars
  <1>3. CASE MeterLost
    <2>1. budget'.blind < budget.blind
      BY <1>1, <1>3, SpendType DEF MeterLost
    <2>2. budget'.blind # MaxBlind
      BY <1>1, <1>3, <2>1, SpendType, BreachAssumption
         DEF MeterLost, BudgetType
    <2> QED
      BY <1>3, <2>2 DEF MeterLost, AlertInv, MeterDecides, AnnouncedLasts,
         Undisturbed, hubVars, ghostVars
  <1>4. CASE SiteChanges
    <2>1. budget'.blind = budget.blind /\ budget'.restarts = budget.restarts
      BY <1>1, <1>4, SpendType DEF SiteChanges
    <2> QED
      BY <1>4, <2>1 DEF SiteChanges, AlertInv, MeterDecides, AnnouncedLasts,
         Undisturbed, hubVars
  <1>5. CASE MeterBack \/ DiskFails \/ DiskBack \/ ResaveIfActive
    <2>1. budget'.blind = budget.blind /\ budget'.restarts = budget.restarts
      BY <1>1, <1>5, SpendType
         DEF MeterBack, DiskFails, DiskBack, ResaveIfActive
    <2> QED
      BY <1>5, <2>1 DEF MeterBack, DiskFails, DiskBack, ResaveIfActive,
         AlertInv, MeterDecides, AnnouncedLasts, Undisturbed, siteVars,
         hubVars, ghostVars
  <1>6. ASSUME NEW s \in Reporter,
               \/ NonConvergedBegin(s) \/ NonConvergedEnd(s)
               \/ ShellRestart(s)
        PROVE  MeterDecides' /\ AnnouncedLasts'
    <2>1. /\ budget'.blind = budget.blind
          /\ budget'.restarts = MaxRestarts => budget.restarts = MaxRestarts
      BY <1>1, <1>6, SpendType, BreachAssumption
         DEF NonConvergedBegin, NonConvergedEnd, ShellRestart, BudgetType
    <2> QED
      BY <1>6, <2>1 DEF NonConvergedBegin, NonConvergedEnd, ShellRestart,
         AlertInv, MeterDecides, AnnouncedLasts, Undisturbed, siteVars,
         hubVars, ghostVars
  <1> QED
    BY <1>2, <1>3, <1>4, <1>5, <1>6

LEMMA AlertStep == AlertInv /\ [Next]_vars => AlertInv'
  <1>1. AlertInv /\ UNCHANGED vars => MeterDecides' /\ AnnouncedLasts'
    BY DEF AlertInv, MeterDecides, AnnouncedLasts, Undisturbed, vars,
           siteVars, hubVars, ghostVars
  <1>2. AlertInv /\ [Next]_vars => MeterDecides' /\ AnnouncedLasts'
    BY <1>1, PlanPassAlerts, OnReportAlerts, PublishAlerts, OthersAlerts
       DEF Next, HubStep, Environment, SafetyPass
  <1> QED
    BY <1>2, BreachTypesStep DEF AlertInv

\* No step of a hub that is neither restarted nor blind repeats the alert.
LEMMA NoRepeat ==
  ASSUME AlertInv, AlertInv', [Next]_vars, Undisturbed, Undisturbed'
  PROVE  ~Repeats
  <1> SUFFICES ASSUME Repeats PROVE FALSE
    OBVIOUS
  <1>1. /\ announced # NoMRID
        /\ outbox'["engine"] # outbox["engine"]
        /\ outbox'["engine"].kind = "Active"
    <2>1. NoAlert.kind # "Active"
      BY DEF NoAlert
    <2>2. announced = NoMRID => FALSE
      BY DEF Repeats
    <2> QED
      BY <2>2 DEF Repeats
  <1>2. outbox \in [Goroutine -> AlertType] /\ "engine" \in Goroutine
    BY DEF AlertInv, BreachTypes, Goroutine
  <1>3. CASE PlanPass
    <2>1. Assessed(Leak(overTicks)) = announced /\ activeMRID = announced
      BY <1>1, PassFindsBreach
    <2>2. announced \in MRID
      BY DEF AlertInv, BreachTypes
    <2>3. outbox' = [outbox EXCEPT !["engine"] = NoAlert]
      BY <1>1, <1>3, <2>1, <2>2, EmitMeterDecides
         DEF PlanPass, AlertInv, BreachTypes
    <2> QED
      BY <1>1, <1>2, <2>3 DEF NoAlert
  <1>4. ASSUME outbox' = outbox \/ outbox'["engine"] = outbox["engine"]
               \/ outbox'["engine"] = NoAlert
        PROVE  FALSE
    BY <1>1, <1>4 DEF NoAlert
  <1>5. ASSUME NEW s \in Reporter, OnReport(s) PROVE FALSE
    <2>1. \/ outbox' = outbox
          \/ \E m : outbox' = [outbox EXCEPT !["mqtt"] = m]
      BY <1>5 DEF OnReport, Emit
    <2> QED
      BY <1>2, <1>4, <2>1
  <1>6. ASSUME NEW g \in Goroutine, Publish(g) \/ PublishFails(g) PROVE FALSE
    <2>1. outbox' = [outbox EXCEPT ![g] = NoAlert]
      BY <1>6 DEF Publish, PublishFails
    <2> QED
      BY <1>2, <1>4, <2>1
  <1>7. CASE HubRestart
    BY <1>2, <1>4, <1>7 DEF HubRestart
  <1>8. CASE UNCHANGED vars
    BY <1>4, <1>8 DEF vars
  <1>9. CASE SafetyPass \/ ResaveIfActive \/ SiteChanges \/ MeterLost
             \/ MeterBack \/ DiskFails \/ DiskBack
    BY <1>4, <1>8, <1>9 DEF SafetyPass, ResaveIfActive, SiteChanges,
       MeterLost, MeterBack, DiskFails, DiskBack
  <1>10. ASSUME NEW s \in Reporter,
                NonConvergedBegin(s) \/ NonConvergedEnd(s) \/ ShellRestart(s)
         PROVE  FALSE
    BY <1>4, <1>10 DEF NonConvergedBegin, NonConvergedEnd, ShellRestart
  <1> QED
    BY <1>3, <1>5, <1>6, <1>7, <1>8, <1>9, <1>10
       DEF Next, HubStep, Environment

\* A lasting breach of one control is announced once by a hub that is neither
\* restarted nor blind (breach.go's emit: "one episode is reported once, not
\* per tick"), whatever passes, reports and lost alerts fall in between.
THEOREM BreachIsAnnouncedOnce == Spec => OneAlertPerBreach
  <1>1. AlertInv /\ AlertInv' /\ [Next]_vars =>
           [Undisturbed /\ Undisturbed' => ~Repeats]_vars
    BY NoRepeat
  <1>2. Spec => []AlertInv
    BY AlertStarts, AlertStep, PTL DEF Spec
  <1> QED
    BY <1>1, <1>2, PTL DEF Spec, OneAlertPerBreach
-----------------------------------------------------------------------------
(* A service's configuration is never torn.                                *)

Docs == [by : Writers \cup {"factory"}, v : Nat]
AtWork(w) == pc[w] \notin Finished
Processed == CHOOSE f \in todo : TRUE

\* The live files hold documents; the staged ones also what a write leaves
\* behind.
FileTypes ==
    /\ live \in [Services -> Docs]
    /\ staged \in [Services -> Docs \cup {NoFile, Torn}]
    /\ todo \subseteq Services
    /\ pc \in [Writers -> Finished \cup {"write", "rename", "request", "poll"}]
    /\ fd \in [Writers -> {"none", "staged", "live"}]
    /\ scene \in Scenes /\ Apart

\* No write of the API is under way while a boot runs, which has a document
\* in its hands from the time it has read one and in the staged file before
\* it renames it.
BootAlone ==
    Booting =>
        /\ \A w \in Writers : ~AtWork(w)
        /\ fileStep # "recover" => doc \in Docs
        /\ fileStep = "rename" => staged[Processed] \in Docs

\* A write has its service's staged file for itself and its descriptor open
\* on it, and what it renames is a document.
WriteAlone ==
    /\ \A w, o \in Writing :
          w # o /\ AtWork(w) /\ AtWork(o) => Target(w).service # Target(o).service
    /\ \A w \in Writing :
          /\ pc[w] = "write" => fd[w] = "staged"
          /\ pc[w] = "rename" => staged[Target(w).service] \in Docs

FilesInv == FileTypes /\ BootAlone /\ WriteAlone

LEMMA WritingType ==
  ASSUME scene \in Scenes
  PROVE  /\ Writing \subseteq Writers
         /\ \A w \in Writing : Target(w).service \in Services
                               /\ Target(w).v \in Nat
  BY ScenesAssumption DEF Writing, Target

LEMMA DocsAreWhole ==
  /\ \A d \in Docs : Whole(d)
  /\ \A c \in Docs \cup {NoFile, Torn} : Whole(c) => c \in Docs
  /\ NoFile \notin Docs
  /\ \A d \in Docs : [d EXCEPT !.v = @ + 1] \in Docs
  BY MigrateAssumption DEF Docs, Whole, NoFile, Torn

LEMMA FilesStart == InitCommission /\ Apart => FilesInv
  <1> SUFFICES ASSUME InitCommission, Apart PROVE FilesInv
    OBVIOUS
  <1>1. \A v \in 0..MaxV + 1 : Doc("factory", v) \in Docs
    BY MigrateAssumption DEF Doc, Docs
  <1>2. FileTypes
    BY <1>1 DEF InitCommission, InitMigrate, FileTypes, Finished
  <1>3. BootAlone
    BY DEF InitCommission, InitMigrate, BootAlone, AtWork, Finished
  <1>4. WriteAlone
    BY WritingType DEF InitCommission, WriteAlone, AtWork, Finished
  <1> QED
    BY <1>2, <1>3, <1>4 DEF FilesInv

\* A boot's steps on the file it processes.
LEMMA BootKeepsFiles ==
  ASSUME FilesInv, Boot
  PROVE  FilesInv'
  <1> DEFINE f == Processed
  <1>1. f \in todo /\ f \in Services /\ Booting
    BY DEF Boot, ProcessFile, Booting, FilesInv, FileTypes, Processed
  <1>2. UNCHANGED <<pc, fd, scene>>
    BY DEF Boot, apiVars
  <1>3. \A w \in Writers : ~AtWork(w)
    BY <1>1 DEF FilesInv, BootAlone
  <1>4. \/ Recover(f) \/ OpenBackup(f) \/ WriteBackup(f)
        \/ OpenStaged(f) \/ WriteStaged(f) \/ CommitStaged(f)
    BY DEF Boot, ProcessFile, Processed
  <1>5. live[f] \in Docs /\ staged[f] \in Docs \cup {NoFile, Torn}
    BY <1>1 DEF FilesInv, FileTypes
  <1>6. fileStep # "recover" => doc \in Docs
    BY <1>1 DEF FilesInv, BootAlone
  <1>7. fileStep = "rename" => staged[f] \in Docs
    BY <1>1 DEF FilesInv, BootAlone
  <1>8. todo' \subseteq todo /\ (fileStep' # "recover" => todo' = todo)
    BY <1>4 DEF Recover, OpenBackup, WriteBackup, OpenStaged, WriteStaged,
       CommitStaged
  <1> HIDE DEF f
  <1>9. /\ live' \in [Services -> Docs]
        /\ staged' \in [Services -> Docs \cup {NoFile, Torn}]
        /\ fileStep' # "recover" => doc' \in Docs
        /\ fileStep' = "rename" => staged'[f] \in Docs
    <2>1. live \in [Services -> Docs]
          /\ staged \in [Services -> Docs \cup {NoFile, Torn}]
      BY DEF FilesInv, FileTypes
    <2>2. CASE Recover(f)
      BY <1>1, <1>5, <2>1, <2>2, DocsAreWhole DEF Recover, RecoverStaged
    <2>3. CASE OpenBackup(f)
      BY <1>6, <2>1, <2>3 DEF OpenBackup
    <2>4. CASE WriteBackup(f)
      BY <1>6, <2>1, <2>4 DEF WriteBackup
    <2>5. CASE OpenStaged(f)
      BY <1>1, <1>6, <2>1, <2>5, DocsAreWhole DEF OpenStaged
    <2>6. CASE WriteStaged(f)
      BY <1>1, <1>6, <2>1, <2>6 DEF WriteStaged
    <2>7. CASE CommitStaged(f)
      <3>1. live' \in [Services -> Docs]
            /\ staged' \in [Services -> Docs \cup {NoFile, Torn}]
        BY <1>1, <1>7, <2>1, <2>7 DEF CommitStaged
      <3>2. \/ fileStep' = "backup" /\ doc' = doc
            \/ fileStep' = "recover"
        BY <2>7 DEF CommitStaged
      <3>3. doc \in Docs
        BY <1>6, <2>7 DEF CommitStaged
      <3> QED
        BY <3>1, <3>2, <3>3
    <2> QED
      BY <1>4, <2>2, <2>3, <2>4, <2>5, <2>6, <2>7
  <1>10. FileTypes'
    BY <1>2, <1>8, <1>9
       DEF FilesInv, FileTypes, Apart, Writing, Target
  <1>11. BootAlone'
    <2>1. fileStep' # "recover" => Processed' = f
      BY <1>8 DEF f, Processed
    <2> QED
      BY <1>2, <1>3, <1>9, <2>1 DEF BootAlone, AtWork
  <1>12. WriteAlone'
    <2>1. \A w \in Writing : w \in Writers
      BY WritingType DEF FilesInv, FileTypes
    <2> QED
      BY <1>2, <1>3, <2>1
         DEF WriteAlone, AtWork, Writing, Target, Finished
  <1> QED
    BY <1>10, <1>11, <1>12 DEF FilesInv

\* The steps of a write; the others on its service are over or yet to begin.
LEMMA WriteKeepsFiles ==
  ASSUME FilesInv, ApiWrites
  PROVE  FilesInv'
  <1>1. UNCHANGED <<todo, fileStep, doc, scene>>
    BY DEF ApiWrites
  <1>2. /\ scene \in Scenes /\ Apart
        /\ live \in [Services -> Docs]
        /\ staged \in [Services -> Docs \cup {NoFile, Torn}]
        /\ pc \in [Writers -> Finished
                              \cup {"write", "rename", "request", "poll"}]
        /\ fd \in [Writers -> {"none", "staged", "live"}]
    BY DEF FilesInv, FileTypes
  <1>3. PICK w \in Writing :
           Begin(w) \/ Write(w) \/ Rename(w) \/ Request(w) \/ PollResult(w)
    BY DEF ApiWrites
  <1> DEFINE s == Target(w).service
  <1>4. /\ Writing \subseteq Writers /\ w \in Writers /\ s \in Services
        /\ \A o \in Writing : Target(o).service \in Services
        /\ Target(w).v \in Nat
    BY <1>2, WritingType
  <1>5. ~Booting
    BY <1>3, <1>4 DEF FilesInv, BootAlone, AtWork, Begin, Write, Rename,
       Request, PollResult, Finished
  <1>6. ASSUME NEW o \in Writing, o # w, AtWork(o)
        PROVE  Target(o).service # s
    BY <1>2, <1>3, <1>6 DEF FilesInv, WriteAlone, AtWork, Begin, Write, Rename,
       Request, PollResult, Finished, Apart
  <1> HIDE DEF s
  \* What any of the steps may do: only to w, and to w's service.
  <1>7. /\ \A o \in Writers \ {w} : pc'[o] = pc[o]
        /\ pc' \in [Writers -> Finished
                               \cup {"write", "rename", "request", "poll"}]
    BY <1>2, <1>3, <1>4 DEF Begin, Write, Rename, Request, PollResult, Goto,
       Finished
  <1>8. /\ live' \in [Services -> Docs]
        /\ staged' \in [Services -> Docs \cup {NoFile, Torn}]
        /\ \A r \in Services \ {s} : staged'[r] = staged[r]
        /\ pc'[w] = "rename" => staged'[s] \in Docs
    <2>1. CASE Begin(w)
      BY <1>2, <1>4, <2>1 DEF Begin, Goto, files, s
    <2>2. CASE Write(w)
      <3>1. fd[w] = "staged"
        BY <2>2 DEF FilesInv, WriteAlone, Write
      <3>2. Doc(w, Target(w).v) \in Docs
        BY <1>4 DEF Doc, Docs
      <3>3. \/ Filled(w, Doc(w, Target(w).v))
            \/ Filled(w, Torn) /\ pc' = [pc EXCEPT ![w] = "failed"]
        BY <2>2 DEF Write, Goto
      <3>4. live' = live
            /\ \/ staged' = [staged EXCEPT ![s] = Doc(w, Target(w).v)]
               \/ /\ staged' = [staged EXCEPT ![s] = Torn]
                  /\ pc'[w] = "failed"
        BY <1>2, <1>4, <3>1, <3>3 DEF Filled, s
      <3> QED
        BY <1>2, <1>4, <3>2, <3>4
    <2>3. CASE Rename(w)
      <3>1. staged[s] \in Docs
        BY <2>3 DEF FilesInv, WriteAlone, Rename, s
      <3>2. pc'[w] # "rename"
        BY <1>2, <1>4, <2>3 DEF Rename, Goto
      <3>3. \/ UNCHANGED <<live, staged>>
            \/ /\ live' = [live EXCEPT ![s] = staged[s]]
               /\ staged' = [staged EXCEPT ![s] = NoFile]
        BY <2>3 DEF Rename, s
      <3> QED
        BY <1>2, <1>4, <3>1, <3>2, <3>3
    <2>4. CASE Request(w) \/ PollResult(w)
      BY <1>2, <1>4, <2>4 DEF Request, PollResult, Goto, files
    <2> QED
      BY <1>3, <2>1, <2>2, <2>3, <2>4
  <1>9. /\ fd' \in [Writers -> {"none", "staged", "live"}]
        /\ \A o \in Writing :
              o # w /\ Target(o).service # s => fd'[o] = fd[o]
        /\ pc'[w] = "write" => fd'[w] = "staged"
    BY <1>2, <1>3, <1>4
       DEF Begin, Write, Rename, Request, PollResult, Goto, s
  <1>10. FileTypes'
    BY <1>1, <1>2, <1>7, <1>8, <1>9
       DEF FilesInv, FileTypes, Apart, Writing, Target
  <1>11. BootAlone'
    BY <1>1, <1>5 DEF BootAlone, Booting
  <1>12. WriteAlone'
    <2>1. Writing' = Writing /\ \A o : Target(o)' = Target(o)
      BY <1>1 DEF Writing, Target
    <2>2. \A o, q \in Writing : o # q /\ AtWork(o)' /\ AtWork(q)' =>
             Target(o).service # Target(q).service
      BY <1>4, <1>6, <1>7 DEF FilesInv, WriteAlone, AtWork, s
    <2>3. ASSUME NEW o \in Writing
          PROVE  /\ pc'[o] = "write" => fd'[o] = "staged"
                 /\ pc'[o] = "rename" => staged'[Target(o).service] \in Docs
      <3>1. CASE o = w
        BY <1>8, <1>9, <3>1 DEF s
      <3>2. CASE o # w /\ AtWork(o)
        BY <1>4, <1>6, <1>7, <1>8, <1>9, <3>2 DEF FilesInv, WriteAlone
      <3>3. CASE o # w /\ ~AtWork(o)
        BY <1>4, <1>7, <3>3 DEF AtWork, Finished
      <3> QED
        BY <3>1, <3>2, <3>3
    <2> QED
      BY <2>1, <2>2, <2>3 DEF WriteAlone
  <1> QED
    BY <1>10, <1>11, <1>12 DEF FilesInv

\* A crash of the API or of the box leaves the files as they are and no write
\* under way.
LEMMA CrashKeepsFiles ==
  ASSUME FilesInv, ApiDies \/ PowerFails
  PROVE  FilesInv'
  <1>1. /\ UNCHANGED <<live, staged, scene>>
        /\ pc' = [w \in Writers |-> IF pc[w] \in Finished THEN pc[w]
                                    ELSE "failed"]
        /\ fd' = [w \in Writers |-> "none"]
        /\ \/ todo' = todo /\ ~Booting
           \/ todo' = Services /\ fileStep' = "recover"
    BY DEF ApiDies, PowerFails, Reboot, migrateVars, files
  <1>2. \A w \in Writers : pc'[w] \in Finished
    BY <1>1 DEF Finished
  <1>3. FileTypes'
    BY <1>1, <1>2 DEF FilesInv, FileTypes, Apart, Writing, Target
  <1>4. BootAlone'
    BY <1>1, <1>2 DEF BootAlone, Booting, AtWork
  <1>5. WriteAlone'
    <2>1. Writing' = Writing /\ Writing \subseteq Writers
      BY <1>1, WritingType DEF FilesInv, FileTypes, Writing
    <2> QED
      BY <1>2, <2>1 DEF WriteAlone, AtWork, Finished
  <1> QED
    BY <1>3, <1>4, <1>5 DEF FilesInv

LEMMA FilesStep == FilesInv /\ [NextCommission]_commissionVars => FilesInv'
  <1> SUFFICES ASSUME FilesInv, [NextCommission]_commissionVars
               PROVE  FilesInv'
    OBVIOUS
  <1>1. CASE UNCHANGED <<live, staged, todo, fileStep, doc, pc, fd, scene>>
    BY <1>1 DEF FilesInv, FileTypes, BootAlone, WriteAlone, Apart, Writing,
       Target, AtWork, Booting, Processed
  <1>2. CASE UNCHANGED Rest
    BY <1>1, <1>2 DEF Rest, migrateVars, files, apiVars
  <1>3. CASE \/ Start \/ WriteResult \/ RemoveRequest
             \/ \E s \in Services : RestartService(s)
             \/ Second \/ Commissioned
    BY <1>2, <1>3 DEF Start, WriteResult, RemoveRequest, RestartService,
       Second, Commissioned
  <1>4. CASE UNCHANGED commissionVars
    BY <1>1, <1>4 DEF commissionVars, migrateVars, files, apiVars
  <1> QED
    BY <1>3, <1>4, BootKeepsFiles, WriteKeepsFiles, CrashKeepsFiles
       DEF NextCommission

\* Which writes there are is settled from the start.
LEMMA ScenesStand == [NextCommission]_commissionVars => (Apart' <=> Apart)
  <1>1. [NextCommission]_commissionVars => scene' = scene
    BY DEF NextCommission, ApiWrites, Start, WriteResult, RemoveRequest,
       RestartService, Second, Commissioned, ApiDies, PowerFails, Boot, Rest,
       commissionVars
  <1> QED
    BY <1>1 DEF Apart, Writing, Target

\* As long as no service is written by two requests at once, its configuration
\* file holds a whole document at every moment (configwrite.go's staged write,
\* migrate.go's promise never to tear the live file), for any number of
\* services, writers and faults.
THEOREM ConfigurationIsWhole == SpecCommission => []ConfigIsWhole
  <1>1. FilesInv => NeverTorn
    BY DocsAreWhole DEF FilesInv, FileTypes, NeverTorn
  <1>2. InitCommission => (Apart => FilesInv)
    BY FilesStart
  <1>3. (Apart => FilesInv) /\ [NextCommission]_commissionVars
            => (Apart => FilesInv)'
    BY FilesStep, ScenesStand
  <1>4. (Apart => FilesInv) => ConfigIsWhole
    BY <1>1 DEF ConfigIsWhole
  <1> QED
    BY <1>2, <1>3, <1>4, PTL DEF SpecCommission
-----------------------------------------------------------------------------
(* What a migration changes is kept.  This needs nothing of the requests:  *)
(* two of them may write one service at once.                              *)

Contents == Docs \cup {NoFile, Torn}
Unbegun == {"idle", "write"}

DiskTypes ==
    /\ live \in [Services -> Docs \cup {Torn}]
    /\ staged \in [Services -> Contents]
    /\ backup \in [Services -> [0..MaxV - 1 -> Contents]]
    /\ todo \subseteq Services
    /\ pc \in [Writers -> Finished \cup {"write", "rename", "request", "poll"}]
    /\ fd \in [Writers -> {"none", "staged", "live"}]
    /\ scene \in Scenes

\* A boot has no write beside it and leaves no staged file behind it; of the
\* file in its hands it knows the content, and has the backup before it stages
\* the next version.
BootKnows ==
    LET f == Processed
    IN  /\ Booting => \A w \in Writers : ~AtWork(w)
        /\ Booting => \A s \in Services \ todo : staged[s] = NoFile
        /\ ~Booting => fileStep = "recover"
        /\ fileStep \in {"recover", "backup", "backing", "stage", "staging", "rename"}
        /\ fileStep # "recover" =>
              live[f] \in Docs /\ live[f].v < MaxV
        /\ fileStep \in {"backup", "backing", "stage"} => doc = live[f]
        /\ fileStep = "backing" => backup[f][live[f].v] = Torn
        /\ fileStep \in {"stage", "staging", "rename"} =>
              backup[f][live[f].v] # NoFile
        /\ fileStep \in {"staging", "rename"} =>
              doc = [live[f] EXCEPT !.v = @ + 1]
        /\ fileStep = "rename" => staged[f] = doc

\* Who has yet to write has written nothing.
Unwritten ==
    \A w \in Writers : pc[w] \in Unbegun =>
        \A s \in Services : live[s].by # w /\ staged[s].by # w

\* A staged document of the live one's author is of its version too, or the
\* step of a migration from a version that has its backup.
StagedIsKnown ==
    \A s \in Services : staged[s].by = live[s].by =>
        \/ staged[s].v = live[s].v
        \/ /\ Booting /\ staged[s].v = live[s].v + 1
           /\ live[s].v < MaxV => backup[s][live[s].v] # NoFile

KeepInv == DiskTypes /\ BootKnows /\ Unwritten /\ StagedIsKnown

OriginalStep ==
    \A s \in Services, v \in 0..MaxV - 1 :
        /\ Whole(backup[s][v]) => backup'[s][v] = backup[s][v]
        /\ live'[s].by = live[s].by /\ live'[s].v = v + 1 /\ live[s].v = v
              => backup[s][v] # NoFile

LEMMA KeepStarts == InitCommission => KeepInv
  <1> SUFFICES ASSUME InitCommission PROVE KeepInv
    OBVIOUS
  <1>1. \A v \in 0..MaxV + 1 : Doc("factory", v) \in Docs /\ Doc("factory", v).by = "factory"
    BY MigrateAssumption DEF Doc, Docs
  <1>2. DiskTypes
    BY <1>1 DEF InitCommission, InitMigrate, DiskTypes, Finished, Contents, NoBackups
  <1>3. BootKnows
    BY DEF InitCommission, InitMigrate, BootKnows, AtWork, Finished
  <1>4. \A s \in Services : live[s].by = "factory" /\ staged[s].by = "nobody"
    BY <1>1 DEF InitCommission, InitMigrate, NoFile
  <1>5. Unwritten /\ StagedIsKnown
    BY <1>4, MigrateAssumption DEF Unwritten, StagedIsKnown
  <1> QED
    BY <1>2, <1>3, <1>5 DEF KeepInv

LEMMA ContentsAre ==
  /\ Docs \subseteq Contents /\ NoFile \in Contents /\ Torn \in Contents
  /\ \A c \in Contents : Whole(c) => c \in Docs
  /\ \A c \in Docs : Whole(c) /\ c.v \in Nat /\ c.by \in Writers \cup {"factory"}
  /\ \A c \in Contents : c.v \in Nat
  /\ NoFile.by = "nobody" /\ Torn.by = "torn" /\ Torn # NoFile /\ Torn.v = 0
  /\ \A c \in Docs : LET d == [c EXCEPT !.v = @ + 1]
                     IN  d \in Docs /\ d.by = c.by /\ d.v = c.v + 1
  BY MigrateAssumption DEF Contents, Docs, Whole, NoFile, Torn

\* A boot's steps, on the file f it processes.
LEMMA BootKeeps ==
  ASSUME KeepInv, Boot
  PROVE  KeepInv' /\ OriginalStep
  <1> DEFINE f == Processed
  <1>1. f \in todo /\ f \in Services /\ Booting /\ todo \subseteq Services
    BY DEF Boot, ProcessFile, Booting, KeepInv, DiskTypes, Processed
  <1>2. UNCHANGED <<pc, fd, scene>> /\ \A w \in Writers : ~AtWork(w)
    BY <1>1 DEF Boot, apiVars, KeepInv, BootKnows
  <1>3. \/ Recover(f) \/ OpenBackup(f) \/ WriteBackup(f)
        \/ OpenStaged(f) \/ WriteStaged(f) \/ CommitStaged(f)
    BY DEF Boot, ProcessFile, Processed
  <1>4. todo' = todo => Processed' = f
    BY DEF Processed
  <1>5. /\ live \in [Services -> Docs \cup {Torn}]
        /\ staged \in [Services -> Contents]
        /\ backup \in [Services -> [0..MaxV - 1 -> Contents]]
        /\ pc \in [Writers -> Finished \cup {"write", "rename", "request", "poll"}]
        /\ fd \in [Writers -> {"none", "staged", "live"}]
        /\ scene \in Scenes /\ MaxV \in Nat
    BY MigrateAssumption DEF KeepInv, DiskTypes
  <1>6. /\ \A s \in Services \ todo : staged[s] = NoFile
        /\ fileStep # "recover" => live[f] \in Docs /\ live[f].v < MaxV
        /\ fileStep \in {"backup", "backing", "stage"} => doc = live[f]
        /\ fileStep = "backing" => backup[f][live[f].v] = Torn
        /\ fileStep \in {"stage", "staging", "rename"} => backup[f][live[f].v] # NoFile
        /\ fileStep \in {"staging", "rename"} => doc = [live[f] EXCEPT !.v = @ + 1]
        /\ fileStep = "rename" => staged[f] = doc
    BY <1>1 DEF KeepInv, BootKnows
  <1>7. /\ \A w \in Writers : pc[w] \in Unbegun =>
              \A s \in Services : live[s].by # w /\ staged[s].by # w
        /\ \A s \in Services : staged[s].by = live[s].by =>
              \/ staged[s].v = live[s].v
              \/ /\ staged[s].v = live[s].v + 1
                 /\ live[s].v < MaxV => backup[s][live[s].v] # NoFile
    BY DEF KeepInv, Unwritten, StagedIsKnown
  <1> HIDE DEF f
  \* What a step must leave of f; of the other files it leaves everything.
  <1>8. SUFFICES
          /\ \A s \in Services \ {f} :
                live'[s] = live[s] /\ staged'[s] = staged[s] /\ backup'[s] = backup[s]
          /\ live' \in [Services -> Docs \cup {Torn}]
          /\ staged' \in [Services -> Contents]
          /\ backup' \in [Services -> [0..MaxV - 1 -> Contents]]
          /\ \/ todo' = todo
             \/ todo' = todo \ {f} /\ staged'[f] = NoFile /\ fileStep' = "recover"
          /\ fileStep' \in {"recover", "backup", "backing", "stage", "staging", "rename"}
          /\ fileStep' # "recover" => live'[f] \in Docs /\ live'[f].v < MaxV
          /\ fileStep' \in {"backup", "backing", "stage"} => doc' = live'[f]
          /\ fileStep' = "backing" => backup'[f][live'[f].v] = Torn
          /\ fileStep' \in {"stage", "staging", "rename"} => backup'[f][live'[f].v] # NoFile
          /\ fileStep' \in {"staging", "rename"} => doc' = [live'[f] EXCEPT !.v = @ + 1]
          /\ fileStep' = "rename" => staged'[f] = doc'
          /\ live'[f].by \in {live[f].by, staged[f].by}
          /\ staged'[f].by \in {live[f].by, staged[f].by, "nobody", "torn"}
          /\ staged'[f].by = live'[f].by =>
                \/ staged'[f].v = live'[f].v
                \/ /\ todo' = todo
                   /\ staged'[f].v = live'[f].v + 1
                   /\ live'[f].v < MaxV => backup'[f][live'[f].v] # NoFile
          /\ \A v \in 0..MaxV - 1 :
                /\ Whole(backup[f][v]) => backup'[f][v] = backup[f][v]
                /\ live'[f].by = live[f].by /\ live'[f].v = v + 1 /\ live[f].v = v
                      => backup[f][v] # NoFile
    <2>1. DiskTypes'
      BY <1>1, <1>2, <1>5, <1>8 DEF DiskTypes
    <2>2. BootKnows'
      <3>1. CASE todo' = todo
        BY <1>1, <1>2, <1>4, <1>6, <1>8, <3>1 DEF BootKnows, Booting, AtWork, f
      <3>2. CASE todo' = todo \ {f} /\ staged'[f] = NoFile /\ fileStep' = "recover"
        BY <1>1, <1>2, <1>6, <1>8, <3>2 DEF BootKnows, Booting, AtWork
      <3> QED
        BY <1>8, <3>1, <3>2
    <2>3. Unwritten'
      <3> SUFFICES ASSUME NEW w \in Writers, pc[w] \in Unbegun, NEW s \in Services
                   PROVE  live'[s].by # w /\ staged'[s].by # w
        BY <1>2 DEF Unwritten
      <3>1. live[s].by # w /\ staged[s].by # w
        BY <1>7
      <3>2. w # "nobody" /\ w # "torn"
        BY MigrateAssumption
      <3> QED
        BY <1>1, <1>8, <3>1, <3>2
    <2>4. StagedIsKnown'
      <3> SUFFICES ASSUME NEW s \in Services, staged'[s].by = live'[s].by
                   PROVE  \/ staged'[s].v = live'[s].v
                          \/ /\ Booting' /\ staged'[s].v = live'[s].v + 1
                             /\ live'[s].v < MaxV => backup'[s][live'[s].v] # NoFile
        BY DEF StagedIsKnown
      <3>1. CASE s = f
        BY <1>1, <1>8, <3>1 DEF Booting
      <3>2. CASE s # f /\ s \in todo
        BY <1>7, <1>8, <3>2 DEF Booting
      <3>3. CASE s # f /\ s \notin todo
        <4>1. staged'[s].by = "nobody" /\ live'[s].by # "nobody"
          <5>1. staged'[s] = NoFile /\ live'[s] \in Docs \cup {Torn}
            BY <1>5, <1>6, <1>8, <3>3
          <5>2. \A c \in Docs \cup {Torn} : c.by # "nobody"
            BY ContentsAre, MigrateAssumption
          <5> QED
            BY <5>1, <5>2, ContentsAre
        <4> QED
          BY <4>1
      <3> QED
        BY <3>1, <3>2, <3>3
    <2>5. OriginalStep
      <3> SUFFICES ASSUME NEW s \in Services, NEW v \in 0..MaxV - 1
                   PROVE  /\ Whole(backup[s][v]) => backup'[s][v] = backup[s][v]
                          /\ live'[s].by = live[s].by /\ live'[s].v = v + 1 /\ live[s].v = v
                                => backup[s][v] # NoFile
        BY DEF OriginalStep
      <3>1. CASE s = f
        BY <1>8, <3>1
      <3>2. CASE s # f
        BY <1>5, <1>8, <3>2
      <3> QED
        BY <3>1, <3>2
    <2> QED
      BY <2>1, <2>2, <2>3, <2>4, <2>5 DEF KeepInv
  <1> USE <1>5, <1>6, <1>7
  <1>a. live[f] \in Docs \cup {Torn} /\ staged[f] \in Contents
        /\ (live[f] \in Docs => live[f].v \in Nat)
    BY <1>1, ContentsAre
  <1>b. fileStep # "recover" => live[f] \in Docs /\ live[f].v \in 0..MaxV - 1
    BY <1>a
  <1> DEFINE next == [live[f] EXCEPT !.v = @ + 1]
  <1>c. live[f] \in Docs => next \in Docs /\ next.by = live[f].by /\ next.v = live[f].v + 1
    BY ContentsAre
  <1> HIDE DEF next
  <1>d. fileStep \in {"staging", "rename"} => doc = next
    BY DEF next
  <1>9. CASE Recover(f)
    <2>1. /\ live' = [live EXCEPT ![f] = IF Whole(staged[f]) THEN staged[f] ELSE @]
          /\ staged' = [staged EXCEPT ![f] = NoFile] /\ backup' = backup
      BY <1>9 DEF Recover, RecoverStaged
    <2>2. /\ live'[f] = live[f] \/ (live'[f] = staged[f] /\ staged[f] \in Docs)
          /\ staged'[f] = NoFile
          /\ \A s \in Services \ {f} : live'[s] = live[s] /\ staged'[s] = staged[s]
          /\ live' \in [Services -> Docs \cup {Torn}] /\ staged' \in [Services -> Contents]
      BY <1>1, <1>a, <2>1, ContentsAre
    <2>3. \/ /\ fileStep' = "backup" /\ doc' = live'[f] /\ todo' = todo
             /\ live'[f].v < MaxV /\ live'[f] \in Docs
          \/ fileStep' = "recover" /\ todo' = todo \ {f}
      BY <1>1, <1>9, <2>2, ContentsAre DEF Recover
    <2>4. staged'[f].by = "nobody" /\ live'[f].by # "nobody"
      <3>1. \A c \in Docs \cup {Torn} : c.by # "nobody"
        BY ContentsAre, MigrateAssumption
      <3> QED
        BY <1>1, <2>2, <3>1, ContentsAre
    <2>5. ASSUME NEW v \in 0..MaxV - 1,
                 live'[f].by = live[f].by, live'[f].v = v + 1, live[f].v = v
          PROVE  backup[f][v] # NoFile
      <3>1. live'[f] = staged[f] /\ staged[f].by = live[f].by /\ staged[f].v # live[f].v
        BY <2>2, <2>5
      <3> QED
        BY <1>1, <2>5, <3>1
    <2> QED
      BY <2>1, <2>2, <2>3, <2>4, <2>5
  <1>10. CASE OpenBackup(f)
    <2>1. UNCHANGED <<live, staged, doc, todo>> /\ fileStep = "backup"
      BY <1>10 DEF OpenBackup
    <2>2. doc = live[f] /\ live[f] \in Docs /\ live[f].v \in 0..MaxV - 1
      BY <1>a, <2>1
    <2>3. \/ backup' = backup /\ backup[f][live[f].v] # NoFile /\ fileStep' = "stage"
          \/ /\ backup[f][live[f].v] = NoFile /\ fileStep' = "backing"
             /\ backup' = [backup EXCEPT ![f][live[f].v] = Torn]
      BY <1>10, <2>2 DEF OpenBackup, Taken
    <2>4. /\ \A s \in Services \ {f} : backup'[s] = backup[s]
          /\ backup' \in [Services -> [0..MaxV - 1 -> Contents]]
          /\ fileStep' = "backing" => backup'[f][live[f].v] = Torn
          /\ fileStep' = "stage" => backup'[f][live[f].v] # NoFile
          /\ \A v \in 0..MaxV - 1 :
                /\ backup[f][v] # NoFile => backup'[f][v] = backup[f][v]
                /\ backup'[f][v] = NoFile => backup[f][v] = NoFile
      <3>1. CASE backup' = backup /\ backup[f][live[f].v] # NoFile /\ fileStep' = "stage"
        BY <3>1
      <3>2. CASE /\ backup[f][live[f].v] = NoFile /\ fileStep' = "backing"
                 /\ backup' = [backup EXCEPT ![f][live[f].v] = Torn]
        <4>1. /\ \A s \in Services \ {f} : backup'[s] = backup[s]
              /\ backup'[f] = [backup[f] EXCEPT ![live[f].v] = Torn]
              /\ backup' = [s \in Services |-> IF s = f THEN backup'[f] ELSE backup[s]]
          BY <1>1, <3>2
        <4>2. backup[f] \in [0..MaxV - 1 -> Contents]
          BY <1>1
        <4>3. /\ backup'[f] \in [0..MaxV - 1 -> Contents]
              /\ backup'[f][live[f].v] = Torn
              /\ \A v \in 0..MaxV - 1 : v # live[f].v => backup'[f][v] = backup[f][v]
          BY <2>2, <4>1, <4>2, ContentsAre
        <4>4. backup' \in [Services -> [0..MaxV - 1 -> Contents]]
          BY <4>1, <4>3
        <4> QED
          BY <3>2, <4>1, <4>3, <4>4, ContentsAre
      <3> QED
        BY <2>3, <3>1, <3>2
    <2>5. \A v \in 0..MaxV - 1 : Whole(backup[f][v]) => backup'[f][v] = backup[f][v]
      BY <2>4 DEF Whole
    <2>6. live[f].v # live[f].v + 1
      BY <2>2
    <2>7. fileStep' \in {"stage", "backing"}
      BY <2>3
    <2>8. staged[f].by = live[f].by =>
             \/ staged[f].v = live[f].v
             \/ /\ staged[f].v = live[f].v + 1
                /\ live[f].v < MaxV => backup'[f][live[f].v] # NoFile
      BY <1>1, <2>2, <2>4
    <2> QED
      BY <1>a, <2>1, <2>2, <2>4, <2>5, <2>6, <2>7, <2>8
  <1>11. CASE WriteBackup(f)
    <2>1. UNCHANGED <<live, staged, doc, todo>> /\ fileStep = "backing" /\ fileStep' = "stage"
      BY <1>11 DEF WriteBackup
    <2>2. doc = live[f] /\ live[f] \in Docs /\ live[f].v \in 0..MaxV - 1
          /\ backup[f][live[f].v] = Torn
      BY <1>a, <2>1
    <2>3. backup' = [backup EXCEPT ![f][live[f].v] = live[f]]
      BY <1>11, <2>2 DEF WriteBackup
    <2>4. /\ \A s \in Services \ {f} : backup'[s] = backup[s]
          /\ backup' \in [Services -> [0..MaxV - 1 -> Contents]]
          /\ backup'[f][live[f].v] = live[f]
          /\ \A v \in 0..MaxV - 1 : v # live[f].v => backup'[f][v] = backup[f][v]
      BY <1>1, <2>2, <2>3, ContentsAre
    <2>5. live[f] # NoFile
      BY <2>2, ContentsAre DEF Whole
    <2>6. \A v \in 0..MaxV - 1 : Whole(backup[f][v]) => backup'[f][v] = backup[f][v]
      BY <2>2, <2>4 DEF Whole
    <2>7. backup'[f][live[f].v] # NoFile
      BY <2>4, <2>5
    <2>8. \A v \in 0..MaxV - 1 :
             live'[f].by = live[f].by /\ live'[f].v = v + 1 /\ live[f].v = v => FALSE
      BY <2>1
    <2>9. staged[f].by = live[f].by =>
             \/ staged[f].v = live[f].v
             \/ staged[f].v = live[f].v + 1 /\ backup'[f][live[f].v] # NoFile
      BY <1>1, <2>7
    <2> QED
      BY <1>1, <1>a, <2>1, <2>2, <2>4, <2>6, <2>7, <2>8, <2>9
  <1>12. CASE OpenStaged(f)
    <2>1. UNCHANGED <<live, backup, todo>> /\ fileStep = "stage" /\ fileStep' = "staging"
      BY <1>12 DEF OpenStaged
    <2>a. live[f] \in Docs /\ live[f].v \in 0..MaxV - 1 /\ doc = live[f]
      BY <1>b, <2>1
    <2>2. doc' = [live[f] EXCEPT !.v = @ + 1]
      BY <1>12, <2>a DEF OpenStaged
    <2>3. staged'[f] = Torn /\ staged' \in [Services -> Contents]
          /\ \A s \in Services \ {f} : staged'[s] = staged[s]
      BY <1>1, <1>12, ContentsAre DEF OpenStaged
    <2>4. staged'[f].by = "torn" /\ live[f].by # "torn"
      BY <2>a, <2>3, ContentsAre, MigrateAssumption
    <2> QED
      BY <2>1, <2>2, <2>3, <2>4, <2>a
  <1>13. CASE WriteStaged(f)
    <2>1. UNCHANGED <<live, backup, doc, todo>> /\ fileStep = "staging" /\ fileStep' = "rename"
      BY <1>13 DEF WriteStaged
    <2>2. /\ doc = next /\ live[f] \in Docs /\ live[f].v \in 0..MaxV - 1
          /\ doc \in Docs /\ doc.by = live[f].by /\ doc.v = live[f].v + 1
      BY <1>b, <1>c, <1>d, <2>1
    <2>3. staged'[f] = doc /\ staged' \in [Services -> Contents]
          /\ \A s \in Services \ {f} : staged'[s] = staged[s]
      BY <1>1, <1>13, <2>2, ContentsAre DEF WriteStaged
    <2> QED
      BY <2>1, <2>2, <2>3 DEF next
  <1>14. CASE CommitStaged(f)
    <2>1. backup' = backup /\ fileStep = "rename"
      BY <1>14 DEF CommitStaged
    <2>2. /\ staged[f] = doc /\ live[f] \in Docs /\ live[f].v \in 0..MaxV - 1
          /\ doc \in Docs /\ doc.by = live[f].by /\ doc.v = live[f].v + 1
      BY <1>b, <1>c, <1>d, <2>1
    <2>3. /\ live'[f] = doc /\ staged'[f] = NoFile
          /\ live' \in [Services -> Docs \cup {Torn}] /\ staged' \in [Services -> Contents]
          /\ \A s \in Services \ {f} : live'[s] = live[s] /\ staged'[s] = staged[s]
      BY <1>1, <1>14, <2>2, ContentsAre DEF CommitStaged
    <2>4. \/ fileStep' = "backup" /\ doc' = doc /\ todo' = todo /\ doc.v < MaxV
          \/ fileStep' = "recover" /\ todo' = todo \ {f}
      BY <1>14 DEF CommitStaged
    <2>5. staged'[f].by = "nobody" /\ live'[f].by # "nobody"
      BY <2>2, <2>3, ContentsAre, MigrateAssumption
    <2>6. backup[f][live[f].v] # NoFile
      BY <2>1
    <2> QED
      BY <2>1, <2>2, <2>3, <2>4, <2>5, <2>6
  <1> QED
    BY <1>3, <1>9, <1>10, <1>11, <1>12, <1>13, <1>14

\* The steps of a write: outside a boot, so no document in the files is the
\* migrated one, and of a writer's own there is only one version.
LEMMA WriteKeeps ==
  ASSUME KeepInv, ApiWrites
  PROVE  KeepInv' /\ OriginalStep
  <1>1. UNCHANGED <<todo, fileStep, doc, scene>>
    BY DEF ApiWrites
  <1>2. PICK w \in Writing :
           Begin(w) \/ Write(w) \/ Rename(w) \/ Request(w) \/ PollResult(w)
    BY DEF ApiWrites
  <1> DEFINE r == Target(w).service
             mine == Doc(w, Target(w).v)
  <1>3. /\ w \in Writers /\ Writing \subseteq Writers /\ r \in Services
        /\ Target(w).v \in Nat
    BY WritingType DEF KeepInv, DiskTypes
  <1>4. mine \in Docs /\ mine.by = w
    BY <1>3 DEF Doc, Docs
  <1>5. /\ live \in [Services -> Docs \cup {Torn}]
        /\ staged \in [Services -> Contents]
        /\ pc \in [Writers -> Finished \cup {"write", "rename", "request", "poll"}]
        /\ fd \in [Writers -> {"none", "staged", "live"}]
    BY DEF KeepInv, DiskTypes
  <1>6. ~Booting /\ fileStep = "recover"
    BY <1>2, <1>3 DEF KeepInv, BootKnows, AtWork, Begin, Write, Rename,
       Request, PollResult, Finished
  <1>7. /\ \A o \in Writers : pc[o] \in Unbegun =>
              \A s \in Services : live[s].by # o /\ staged[s].by # o
        /\ \A s \in Services : staged[s].by = live[s].by => staged[s].v = live[s].v
    BY <1>6 DEF KeepInv, Unwritten, StagedIsKnown
  <1> HIDE DEF r, mine
  \* What a write may do to the files, and to its own progress.
  <1>8. /\ pc' \in [Writers -> Finished \cup {"write", "rename", "request", "poll"}]
        /\ fd' \in [Writers -> {"none", "staged", "live"}]
        /\ backup' = backup
        /\ \A o \in Writers \ {w} : pc'[o] = pc[o]
        /\ pc'[w] \in Unbegun => pc[w] \in Unbegun
    BY <1>2, <1>3, <1>5
       DEF Begin, Write, Rename, Request, PollResult, Goto, Finished, Unbegun, files
  <1>9. \/ UNCHANGED <<live, staged>>
        \/ /\ pc[w] \in Unbegun
           /\ \/ live' = live /\ staged' = [staged EXCEPT ![r] = Torn]
              \/ staged' = staged /\ live' = [live EXCEPT ![r] = Torn]
              \/ /\ pc'[w] \notin Unbegun
                 /\ \/ live' = live /\ staged' = [staged EXCEPT ![r] = mine]
                    \/ staged' = staged /\ live' = [live EXCEPT ![r] = mine]
        \/ /\ staged[r] # NoFile
           /\ live' = [live EXCEPT ![r] = staged[r]]
           /\ staged' = [staged EXCEPT ![r] = NoFile]
    <2>1. CASE Begin(w)
      BY <2>1 DEF Begin, Unbegun, files, r
    <2>2. CASE Write(w)
      <3>1. pc[w] \in Unbegun
        BY <2>2 DEF Write, Unbegun
      <3>2. \/ Filled(w, mine) /\ pc'[w] = "rename"
            \/ Filled(w, Torn)
        BY <1>3, <1>5, <2>2 DEF Write, Goto, mine
      <3>3. CASE Filled(w, mine) /\ pc'[w] = "rename"
        BY <3>1, <3>3 DEF Filled, r, Unbegun
      <3>4. CASE Filled(w, Torn)
        BY <3>1, <3>4 DEF Filled, r
      <3> QED
        BY <3>2, <3>3, <3>4
    <2>3. CASE Rename(w)
      BY <2>3 DEF Rename, r
    <2>4. CASE Request(w) \/ PollResult(w)
      BY <2>4 DEF Request, PollResult, files
    <2> QED
      BY <1>2, <2>1, <2>2, <2>3, <2>4
  <1>10. /\ live' \in [Services -> Docs \cup {Torn}]
         /\ staged' \in [Services -> Contents]
         /\ \A s \in Services \ {r} : live'[s] = live[s] /\ staged'[s] = staged[s]
         /\ live'[r].by \in {live[r].by, staged[r].by, w, "torn"}
         /\ staged'[r].by \in {live[r].by, staged[r].by, w, "torn", "nobody"}
         /\ pc'[w] \in Unbegun => live'[r].by # w /\ staged'[r].by # w
         /\ staged'[r].by = live'[r].by => staged'[r].v = live'[r].v
         /\ live'[r].by = live[r].by => live'[r].v = live[r].v \/ live'[r].v = 0
    <2>0. /\ w \notin {"torn", "nobody"} /\ Docs \subseteq Contents
          /\ Torn \in Contents /\ NoFile \in Contents
          /\ Torn.by = "torn" /\ NoFile.by = "nobody" /\ Torn.v = 0
          /\ \A c \in Docs \cup {Torn} : c.by # "nobody"
          /\ \A c \in Docs : c.by # "torn"
          /\ \A c \in Contents : c \in Docs \cup {Torn} \/ c = NoFile
      BY <1>3, ContentsAre, MigrateAssumption DEF Contents
    <2>1. CASE UNCHANGED <<live, staged>>
      BY <1>3, <1>5, <1>7, <1>8, <2>1
    <2>2. CASE /\ pc[w] \in Unbegun /\ live' = live
               /\ staged' = [staged EXCEPT ![r] = Torn]
      <3>1. live[r].by = "torn" => live[r].v = 0
        BY <1>3, <1>5, <2>0
      <3> QED
        BY <1>3, <1>5, <1>7, <2>0, <2>2, <3>1
    <2>3. CASE /\ pc[w] \in Unbegun /\ staged' = staged
               /\ live' = [live EXCEPT ![r] = Torn]
      <3>1. staged[r].by = "torn" => staged[r].v = 0
        BY <1>3, <1>5, <2>0
      <3> QED
        BY <1>3, <1>5, <1>7, <2>0, <2>3, <3>1
    <2>4. CASE /\ pc[w] \in Unbegun /\ pc'[w] \notin Unbegun
               /\ live' = live /\ staged' = [staged EXCEPT ![r] = mine]
      BY <1>3, <1>4, <1>5, <1>7, <2>0, <2>4
    <2>5. CASE /\ pc[w] \in Unbegun /\ pc'[w] \notin Unbegun
               /\ staged' = staged /\ live' = [live EXCEPT ![r] = mine]
      BY <1>3, <1>4, <1>5, <1>7, <2>0, <2>5
    <2>6. CASE /\ staged[r] # NoFile
               /\ live' = [live EXCEPT ![r] = staged[r]]
               /\ staged' = [staged EXCEPT ![r] = NoFile]
      <3>1. /\ live'[r] = staged[r] /\ staged'[r] = NoFile
            /\ staged[r] \in Docs \cup {Torn}
            /\ live' \in [Services -> Docs \cup {Torn}]
            /\ staged' \in [Services -> Contents]
            /\ \A s \in Services \ {r} : live'[s] = live[s] /\ staged'[s] = staged[s]
        BY <1>3, <1>5, <2>0, <2>6
      <3> QED
        BY <1>3, <1>7, <1>8, <2>0, <3>1
    <2> QED
      BY <1>9, <2>1, <2>2, <2>3, <2>4, <2>5, <2>6
  <1>11. DiskTypes'
    BY <1>1, <1>8, <1>10 DEF KeepInv, DiskTypes
  <1>12. BootKnows'
    BY <1>1, <1>6 DEF BootKnows, Booting
  <1>13. Unwritten'
    <2> SUFFICES ASSUME NEW o \in Writers, pc'[o] \in Unbegun, NEW s \in Services
                 PROVE  live'[s].by # o /\ staged'[s].by # o
      BY DEF Unwritten
    <2>1. pc[o] \in Unbegun /\ o # "torn" /\ o # "nobody"
      BY <1>8, MigrateAssumption
    <2> QED
      BY <1>3, <1>7, <1>10, <2>1
  <1>14. StagedIsKnown'
    BY <1>7, <1>10 DEF StagedIsKnown
  <1>15. OriginalStep
    <2> SUFFICES ASSUME NEW s \in Services, NEW v \in 0..MaxV - 1,
                        live'[s].by = live[s].by, live'[s].v = v + 1, live[s].v = v
                 PROVE  FALSE
      BY <1>8 DEF OriginalStep
    <2>1. live'[s].v = live[s].v \/ live'[s].v = 0
      BY <1>10
    <2> QED
      BY <2>1
  <1> QED
    BY <1>11, <1>12, <1>13, <1>14, <1>15 DEF KeepInv

\* After a crash a boot takes up all files, or no file is touched; who had
\* begun to write will not go on.
LEMMA CrashKeeps ==
  ASSUME KeepInv, ApiDies \/ PowerFails
  PROVE  KeepInv' /\ OriginalStep
  <1>1. /\ UNCHANGED <<live, staged, backup, scene>>
        /\ pc' = [w \in Writers |-> IF pc[w] \in Finished THEN pc[w]
                                    ELSE "failed"]
        /\ fd' = [w \in Writers |-> "none"]
        /\ \/ UNCHANGED <<todo, fileStep, doc>> /\ ~Booting
           \/ todo' = Services /\ fileStep' = "recover"
    BY DEF ApiDies, PowerFails, Reboot, migrateVars, files
  <1>2. \A w \in Writers : pc'[w] \in Finished /\ (pc'[w] \in Unbegun => pc[w] \in Unbegun)
    BY <1>1 DEF Finished, Unbegun
  <1>3. DiskTypes'
    BY <1>1, <1>2 DEF KeepInv, DiskTypes
  <1>4. BootKnows'
    BY <1>1, <1>2 DEF KeepInv, BootKnows, Booting, AtWork, Processed
  <1>5. Unwritten'
    BY <1>1, <1>2 DEF KeepInv, Unwritten
  <1>6. StagedIsKnown'
    <2> SUFFICES ASSUME NEW s \in Services, staged[s].by = live[s].by,
                        staged[s].v # live[s].v
                 PROVE  /\ Booting' /\ staged[s].v = live[s].v + 1
                        /\ live[s].v < MaxV => backup[s][live[s].v] # NoFile
      BY <1>1 DEF StagedIsKnown
    <2>1. Booting /\ staged[s].v = live[s].v + 1
          /\ (live[s].v < MaxV => backup[s][live[s].v] # NoFile)
      BY DEF KeepInv, StagedIsKnown
    <2> QED
      BY <1>1, <2>1 DEF Booting
  <1>7. OriginalStep
    BY <1>1 DEF OriginalStep
  <1> QED
    BY <1>3, <1>4, <1>5, <1>6, <1>7 DEF KeepInv

LEMMA KeepStep ==
  ASSUME KeepInv, [NextCommission]_commissionVars
  PROVE  KeepInv' /\ OriginalStep
  <1>1. CASE UNCHANGED <<migrateVars, pc, fd, scene>>
    BY <1>1 DEF KeepInv, DiskTypes, BootKnows, Unwritten, StagedIsKnown, OriginalStep,
       AtWork, Booting, Processed, migrateVars, files
  <1>2. CASE \/ Start \/ WriteResult \/ RemoveRequest
             \/ \E s \in Services : RestartService(s)
             \/ Second \/ Commissioned
    BY <1>1, <1>2 DEF Start, WriteResult, RemoveRequest, RestartService,
       Second, Commissioned, Rest, apiVars
  <1>3. CASE UNCHANGED commissionVars
    BY <1>1, <1>3 DEF commissionVars, apiVars
  <1> QED
    BY <1>2, <1>3, BootKeeps, WriteKeeps, CrashKeeps DEF NextCommission

LEMMA OriginalStays == SpecCommission => OriginalIsKept
  <1>1. KeepInv /\ [NextCommission]_commissionVars => KeepInv'
    BY KeepStep
  <1>2. KeepInv /\ [NextCommission]_commissionVars =>
          [\A s \in Services, v \in 0..MaxV - 1 :
              /\ Whole(backup[s][v]) => backup'[s][v] = backup[s][v]
              /\ live'[s].by = live[s].by /\ live'[s].v = v + 1 /\ live[s].v = v
                    => backup[s][v] # NoFile]_commissionVars
    BY KeepStep DEF OriginalStep
  <1> QED
    BY <1>1, <1>2, KeepStarts, PTL DEF SpecCommission, OriginalIsKept
-----------------------------------------------------------------------------
(* "restarted" was a restart.  What the oneshot has reported "ok" of a     *)
(* service whose request met no batch under way was started from the file  *)
(* that the request's write had renamed into place.                        *)

Answer == Statuses \cup {"absent"}

AnswerTypes ==
    /\ body \in [Services -> Answer]
    /\ result \in [ts : Nat, of : [Services -> Answer]]
    /\ running \in [Services -> Docs \cup {NoFile}]
    /\ now \in Nat /\ reqAt \in [Writers -> Nat]
    /\ batchOf = {} => body = NoResult.of /\ left = {}

WroteIt ==
    \A w \in Writing :
        /\ pc[w] = "rename" => staged[Target(w).service].by = w
        /\ pc[w] \in {"request", "poll"} => live[Target(w).service].by = w

RanIt ==
    \A w \in Writing \ overlap : pc[w] = "poll" =>
        LET s == Target(w).service
        IN  /\ body[s] = "ok" => running[s].by = w
            /\ result.of[s] = "ok" /\ result.ts >= reqAt[w] => running[s].by = w

HonestInv == FilesInv /\ AnswerTypes /\ WroteIt /\ RanIt

LEMMA HonestStarts == InitCommission /\ Apart => HonestInv
  <1> SUFFICES ASSUME InitCommission, Apart PROVE HonestInv
    OBVIOUS
  <1>1. FilesInv
    BY FilesStart
  <1>2. AnswerTypes
    BY DEF InitCommission, AnswerTypes, Answer, NoResult, Idle
  <1>3. \A w \in Writing : pc[w] = "idle"
    BY <1>1, WritingType DEF InitCommission, FilesInv, FileTypes
  <1>4. WroteIt /\ RanIt
    BY <1>3 DEF WroteIt, RanIt
  <1> QED
    BY <1>1, <1>2, <1>4 DEF HonestInv

\* A step of one write, seen from the others that are under way.
LEMMA WriteIsHonest ==
  ASSUME HonestInv, ApiWrites, FilesInv'
  PROVE  HonestInv'
  <1>1. UNCHANGED <<todo, fileStep, doc, scene, now, result, body, left, batchOf, running>>
    BY DEF ApiWrites, oneshotVars
  <1>2. PICK w \in Writing :
           Begin(w) \/ Write(w) \/ Rename(w) \/ Request(w) \/ PollResult(w)
    BY DEF ApiWrites
  <1> DEFINE r == Target(w).service
             mine == Doc(w, Target(w).v)
  <1>3. /\ w \in Writers /\ Writing \subseteq Writers /\ r \in Services
        /\ \A o \in Writing : Target(o).service \in Services
        /\ Writing' = Writing /\ \A o : Target(o)' = Target(o)
    BY <1>1, WritingType DEF HonestInv, FilesInv, FileTypes, Writing, Target
  <1>4. /\ live \in [Services -> Docs]
        /\ staged \in [Services -> Docs \cup {NoFile, Torn}]
        /\ pc \in [Writers -> Finished \cup {"write", "rename", "request", "poll"}]
        /\ reqAt \in [Writers -> Nat] /\ now \in Nat
        /\ result.ts \in Nat /\ body \in [Services -> Answer]
    BY DEF HonestInv, FilesInv, FileTypes, AnswerTypes
  <1>5. ASSUME NEW o \in Writing, o # w, AtWork(o)
        PROVE  Target(o).service # r
    BY <1>2, <1>5 DEF HonestInv, FilesInv, FileTypes, WriteAlone, AtWork, Begin, Write,
       Rename, Request, PollResult, Finished, Apart
  <1>6. mine.by = w
    BY DEF Doc
  <1>7. /\ pc[w] = "write" => fd[w] = "staged"
        /\ pc[w] = "rename" => staged[r].by = w
        /\ pc[w] \in {"request", "poll"} => live[r].by = w
    BY DEF HonestInv, FilesInv, WriteAlone, WroteIt
  <1> HIDE DEF r, mine
  <1>8. /\ \A o \in Writers \ {w} : pc'[o] = pc[o] /\ reqAt'[o] = reqAt[o]
        /\ reqAt' \in [Writers -> Nat]
        /\ overlap \subseteq overlap'
    BY <1>2, <1>3, <1>4 DEF Begin, Write, Rename, Request, PollResult, Goto
  <1>9. /\ \A s \in Services \ {r} : live'[s] = live[s] /\ staged'[s] = staged[s]
        /\ pc'[w] = "rename" => staged'[r].by = w
        /\ pc'[w] \in {"request", "poll"} => live'[r].by = w
    <2>1. CASE Begin(w)
      BY <1>3, <1>4, <2>1 DEF Begin, Goto, files, r
    <2>2. CASE Write(w)
      <3>1. \/ Filled(w, mine) /\ pc'[w] = "rename"
            \/ Filled(w, Torn) /\ pc'[w] = "failed"
        BY <1>3, <1>4, <2>2 DEF Write, Goto, mine
      <3>2. /\ live' = live
            /\ \/ staged' = [staged EXCEPT ![r] = mine] /\ pc'[w] = "rename"
               \/ staged' = [staged EXCEPT ![r] = Torn] /\ pc'[w] = "failed"
        <4>1. fd[w] = "staged"
          BY <1>7, <2>2 DEF Write
        <4>2. CASE Filled(w, mine) /\ pc'[w] = "rename"
          BY <4>1, <4>2 DEF Filled, r
        <4>3. CASE Filled(w, Torn) /\ pc'[w] = "failed"
          BY <4>1, <4>3 DEF Filled, r
        <4> QED
          BY <3>1, <4>2, <4>3
      <3> QED
        BY <1>3, <1>4, <1>6, <3>2
    <2>3. CASE Rename(w)
      <3>1. /\ pc[w] = "rename"
            /\ \/ /\ live' = [live EXCEPT ![r] = staged[r]]
                  /\ staged' = [staged EXCEPT ![r] = NoFile] /\ pc'[w] = "request"
               \/ UNCHANGED <<live, staged>> /\ pc'[w] = "failed"
        BY <1>3, <1>4, <2>3 DEF Rename, Goto, r
      <3> QED
        BY <1>3, <1>4, <1>7, <3>1
    <2>4. CASE Request(w)
      <3>1. UNCHANGED <<live, staged>> /\ pc[w] = "request" /\ pc'[w] = "poll"
        BY <1>3, <1>4, <2>4 DEF Request, Goto, files
      <3> QED
        BY <1>7, <3>1
    <2>5. CASE PollResult(w)
      <3>1. UNCHANGED <<live, staged>> /\ pc'[w] \in {"yes", "no", "late"}
        BY <1>3, <1>4, <2>5 DEF PollResult, Goto, files
      <3> QED
        BY <3>1
    <2> QED
      BY <1>2, <2>1, <2>2, <2>3, <2>4, <2>5
  <1>10. AnswerTypes'
    BY <1>1, <1>8 DEF HonestInv, AnswerTypes
  <1>11. WroteIt'
    <2> SUFFICES ASSUME NEW o \in Writing, pc'[o] \in {"rename", "request", "poll"}
                 PROVE  /\ pc'[o] = "rename" => staged'[Target(o).service].by = o
                        /\ pc'[o] \in {"request", "poll"} => live'[Target(o).service].by = o
      BY <1>3 DEF WroteIt
    <2>1. CASE o = w
      BY <1>9, <2>1 DEF r
    <2>2. CASE o # w
      <3>1. pc'[o] = pc[o] /\ AtWork(o)
        BY <1>3, <1>8, <2>2 DEF AtWork, Finished
      <3> QED
        BY <1>3, <1>5, <1>9, <2>2, <3>1 DEF HonestInv, WroteIt
    <2> QED
      BY <2>1, <2>2
  <1>12. RanIt'
    <2> SUFFICES ASSUME NEW o \in Writing, o \notin overlap', pc'[o] = "poll"
                 PROVE  LET s == Target(o).service
                        IN  /\ body[s] = "ok" => running[s].by = o
                            /\ result.of[s] = "ok" /\ result.ts >= reqAt'[o]
                                  => running[s].by = o
      BY <1>1, <1>3 DEF RanIt
    <2>1. CASE o = w
      <3>1. Request(w)
        BY <1>2, <1>3, <1>4, <2>1 DEF Begin, Write, Rename, PollResult, Goto
      <3>2. batchOf = {} /\ result.ts < now /\ reqAt'[w] = now
        BY <1>3, <1>4, <2>1, <3>1 DEF Request
      <3>3. body[r] = "absent"
        BY <1>3, <3>2 DEF HonestInv, AnswerTypes, NoResult
      <3> QED
        BY <1>4, <2>1, <3>2, <3>3 DEF r
    <2>2. CASE o # w
      BY <1>3, <1>8, <2>2 DEF HonestInv, RanIt
    <2> QED
      BY <2>1, <2>2
  <1> QED
    BY <1>10, <1>11, <1>12 DEF HonestInv

\* The oneshot's steps: it starts from what is in the files.
LEMMA OneshotIsHonest ==
  ASSUME HonestInv, FilesInv',
         \/ Start \/ WriteResult \/ RemoveRequest \/ Second \/ Commissioned
         \/ \E s \in Services : RestartService(s)
  PROVE  HonestInv'
  <1>1. UNCHANGED <<live, staged, scene, pc, reqAt, overlap>>
    BY DEF Start, WriteResult, RemoveRequest, RestartService, Second, Commissioned,
           Rest, migrateVars, files, apiVars
  <1>2. /\ Writing' = Writing /\ \A o : Target(o)' = Target(o)
        /\ \A o \in Writing : Target(o).service \in Services
    BY <1>1, WritingType DEF HonestInv, FilesInv, FileTypes, Writing, Target
  <1>3. WroteIt'
    BY <1>1, <1>2 DEF HonestInv, WroteIt
  <1>4. CASE Start \/ RemoveRequest \/ Second \/ Commissioned
    <2>1. /\ UNCHANGED <<result, running>> /\ now' \in {now, now + 1}
          /\ body' = NoResult.of \/ body' = body
          /\ batchOf' = {} => body' = NoResult.of /\ left' = {}
      BY <1>4 DEF Start, RemoveRequest, Second, Commissioned, oneshotVars, Idle,
                  HonestInv, AnswerTypes
    <2>2. \A s \in Services : NoResult.of[s] = "absent"
      BY DEF NoResult
    <2>3. NoResult.of \in [Services -> Answer]
      BY DEF NoResult, Answer
    <2>4. AnswerTypes'
      BY <1>1, <2>1, <2>3 DEF HonestInv, AnswerTypes
    <2>5. RanIt'
      BY <1>1, <1>2, <2>1, <2>2 DEF HonestInv, RanIt
    <2> QED
      BY <1>3, <2>4, <2>5 DEF HonestInv
  <1>5. CASE WriteResult
    <2>1. /\ result' = [ts |-> now, of |-> body] /\ body' = NoResult.of
          /\ batchOf # {} /\ UNCHANGED <<now, batchOf, left, running>>
      BY <1>5 DEF WriteResult
    <2>2. \A s \in Services : NoResult.of[s] = "absent"
      BY DEF NoResult
    <2>3. NoResult.of \in [Services -> Answer]
      BY DEF NoResult, Answer
    <2>4. AnswerTypes'
      BY <1>1, <2>1, <2>3 DEF HonestInv, AnswerTypes
    <2>5. RanIt'
      BY <1>1, <1>2, <2>1, <2>2 DEF HonestInv, RanIt
    <2> QED
      BY <1>3, <2>4, <2>5 DEF HonestInv
  <1>6. ASSUME NEW s \in Services, RestartService(s) PROVE HonestInv'
    <2>1. /\ UNCHANGED <<now, result, batchOf>> /\ s \in left
          /\ \/ /\ running' = [running EXCEPT ![s] = live[s]]
                /\ body' = [body EXCEPT ![s] = "ok"]
             \/ body' = [body EXCEPT ![s] = "failed"] /\ running' = running
      BY <1>6 DEF RestartService
    <2>2. /\ live \in [Services -> Docs] /\ running \in [Services -> Docs \cup {NoFile}]
          /\ body \in [Services -> Answer] /\ batchOf # {}
      BY <2>1 DEF HonestInv, FilesInv, FileTypes, AnswerTypes
    <2>3. AnswerTypes'
      BY <1>1, <2>1, <2>2 DEF HonestInv, AnswerTypes, Answer, Statuses
    <2>4. RanIt'
      <3> SUFFICES ASSUME NEW w \in Writing, w \notin overlap, pc[w] = "poll"
                   PROVE  LET v == Target(w).service
                          IN  /\ body'[v] = "ok" => running'[v].by = w
                              /\ result.of[v] = "ok" /\ result.ts >= reqAt[w]
                                    => running'[v].by = w
        BY <1>1, <1>2, <2>1 DEF RanIt
      <3>1. /\ live[Target(w).service].by = w
            /\ body[Target(w).service] = "ok" => running[Target(w).service].by = w
            /\ result.of[Target(w).service] = "ok" /\ result.ts >= reqAt[w]
                  => running[Target(w).service].by = w
        BY DEF HonestInv, WroteIt, RanIt
      <3>2. CASE Target(w).service = s
        BY <2>1, <2>2, <3>1, <3>2
      <3>3. CASE Target(w).service # s
        BY <1>2, <2>1, <2>2, <3>1, <3>3
      <3> QED
        BY <3>2, <3>3
    <2> QED
      BY <1>3, <2>3, <2>4 DEF HonestInv
  <1> QED
    BY <1>4, <1>5, <1>6

\* While a boot runs and after a crash no write is under way.
LEMMA BootIsHonest ==
  ASSUME HonestInv, FilesInv', Boot \/ ApiDies \/ PowerFails
  PROVE  HonestInv'
  <1>1. UNCHANGED <<scene, now, result, reqAt>>
    BY DEF Boot, ApiDies, PowerFails, apiVars
  <1>2. Writing' = Writing /\ Writing \subseteq Writers
    BY <1>1, WritingType DEF HonestInv, FilesInv, FileTypes, Writing
  <1>3. \A w \in Writing : pc'[w] \notin {"rename", "request", "poll"}
    <2>1. CASE Boot
      <3>1. \A w \in Writers : ~AtWork(w)
        BY <2>1 DEF Boot, ProcessFile, HonestInv, FilesInv, BootAlone
      <3> QED
        BY <1>2, <2>1, <3>1 DEF Boot, apiVars, AtWork, Finished
    <2>2. CASE ApiDies \/ PowerFails
      BY <1>2, <2>2 DEF ApiDies, PowerFails, Finished
    <2> QED
      BY <2>1, <2>2
  <1>4. AnswerTypes'
    <2>1. /\ running' \in [Services -> Docs \cup {NoFile}]
          /\ body' \in [Services -> Answer]
          /\ batchOf' = {} => body' = NoResult.of /\ left' = {}
      <3>1. CASE Boot
        <4>1. running' = running \/ running' = live'
          BY <3>1 DEF Boot
        <4>2. running \in [Services -> Docs \cup {NoFile}] /\ live' \in [Services -> Docs]
          BY DEF HonestInv, AnswerTypes, FilesInv, FileTypes
        <4>3. running' \in [Services -> Docs \cup {NoFile}]
          BY <4>1, <4>2
        <4> QED
          BY <3>1, <4>3 DEF Boot, oneshotVars, HonestInv, AnswerTypes
      <3>2. CASE ApiDies
        BY <3>2 DEF ApiDies, oneshotVars, HonestInv, AnswerTypes
      <3>3. CASE PowerFails
        BY <3>3 DEF PowerFails, NoResult, Answer, Idle
      <3> QED
        BY <3>1, <3>2, <3>3
    <2> QED
      BY <1>1, <2>1 DEF HonestInv, AnswerTypes
  <1>5. WroteIt' /\ RanIt'
    BY <1>2, <1>3 DEF WroteIt, RanIt
  <1> QED
    BY <1>4, <1>5 DEF HonestInv

LEMMA HonestStep ==
  HonestInv /\ [NextCommission]_commissionVars => HonestInv'
  <1> SUFFICES ASSUME HonestInv, [NextCommission]_commissionVars
               PROVE  HonestInv'
    OBVIOUS
  <1>1. FilesInv'
    BY FilesStep DEF HonestInv
  <1>2. CASE UNCHANGED commissionVars
    <2>1. UNCHANGED <<live, staged, scene, pc, now, reqAt, result, body, left, batchOf,
                      running, overlap>>
      BY <1>2 DEF commissionVars, migrateVars, files, apiVars, oneshotVars
    <2> QED
      BY <1>1, <2>1 DEF HonestInv, AnswerTypes, WroteIt, RanIt, Writing, Target
  <1> QED
    BY <1>1, <1>2, WriteIsHonest, OneshotIsHonest, BootIsHonest DEF NextCommission

\* Only the poll of w's own request answers w.
LEMMA YesIsHonest ==
  ASSUME HonestInv, [NextCommission]_commissionVars,
         NEW w \in Writing \ overlap, pc[w] = "poll", pc'[w] = "yes"
  PROVE  running[Target(w).service].by = w
  <1>1. w \in Writers /\ Writing \subseteq Writers
        /\ pc \in [Writers -> Finished \cup {"write", "rename", "request", "poll"}]
    BY WritingType DEF HonestInv, FilesInv, FileTypes
  <1>2. pc'[w] # pc[w]
    OBVIOUS
  <1>3. ApiWrites
    <2>1. CASE ApiDies \/ PowerFails
      BY <1>1, <2>1 DEF ApiDies, PowerFails
    <2>2. CASE UNCHANGED pc
      BY <1>2, <2>2
    <2> QED
      BY <2>1, <2>2 DEF NextCommission, Start, WriteResult, RemoveRequest, RestartService,
         Second, Commissioned, Boot, Rest, apiVars, commissionVars
  <1>4. PICK o \in Writing :
           Begin(o) \/ Write(o) \/ Rename(o) \/ Request(o) \/ PollResult(o)
    BY <1>3 DEF ApiWrites
  <1>5. o = w
    BY <1>1, <1>2, <1>4 DEF Begin, Write, Rename, Request, PollResult, Goto
  <1>6. Answered(w) /\ result.of[Target(w).service] = "ok"
    BY <1>1, <1>4, <1>5 DEF Begin, Write, Rename, Request, PollResult, Goto
  <1> QED
    BY <1>6 DEF HonestInv, RanIt, Answered

LEMMA RestartReal == SpecCommission => RestartWasReal
  <1>1. (Apart => HonestInv) /\ [NextCommission]_commissionVars
            => (Apart => HonestInv)'
    BY HonestStep, ScenesStand
  <1>2. (Apart => HonestInv) /\ [NextCommission]_commissionVars =>
          [\A w \in Writing \ overlap :
              pc[w] = "poll" /\ pc'[w] = "yes" /\ Apart /\ ~Booting =>
                  running[Target(w).service].by = w]_commissionVars
    BY YesIsHonest
  <1> QED
    BY <1>1, <1>2, HonestStarts, PTL DEF SpecCommission, RestartWasReal

\* What the API answers is true and what a migration changes is kept
\* (configwrite.go's requestRestart and its poll, the oneshot's result file,
\* migrate.go's backupOnce and recoverStaged): "restarted" means that the
\* service runs what was written, and every version a migration left has its
\* backup, through failed writes, crashes of the API and power cuts.
THEOREM AnswersCanBeTrusted == SpecCommission => AnswersAreHonest
  BY OriginalStays, RestartReal DEF AnswersAreHonest

-----------------------------------------------------------------------------
(* Recursion over an interval, which Applied is: each command goes on from *)
(* what the one before left.                                               *)

\* Among naturals there is a least.
LEMMA LeastNumber ==
  ASSUME NEW T \in SUBSET Nat, T # {}
  PROVE  \E m \in T : \A n \in T : m <= n
  <1> DEFINE Lesser == {ss \in Nat \X Nat : ss[1] < ss[2]}
  <1>1. IsWellFoundedOn(Lesser, Nat)
    BY NatLessThanWellFounded DEF OpToRel
  <1> HIDE DEF Lesser
  <1>2. PICK m \in T : \A n \in T : ~(<<n, m>> \in Lesser)
    BY <1>1, WFMin
  <1>3. ASSUME NEW n \in T PROVE m <= n
    <2>1. n \in Nat /\ m \in Nat
      OBVIOUS
    <2>2. n < m => <<n, m>> \in Lesser
      BY <2>1 DEF Lesser
    <2> QED
      BY <1>2, <2>1, <2>2
  <1> QED
    BY <1>3

\* Induction over a set, which needs no operator for a parameter.
LEMMA Induction ==
  ASSUME NEW S, 0 \in S, \A n \in Nat : n \in S => n + 1 \in S
  PROVE  Nat \subseteq S
  <1> SUFFICES ASSUME NEW n \in Nat \ S PROVE FALSE
    OBVIOUS
  <1>1. PICK x \in Nat \ S : \A y \in Nat \ S : x <= y
    BY LeastNumber
  <1>2. x # 0 /\ x - 1 \in Nat /\ x - 1 < x
    OBVIOUS
  <1>3. (x - 1) + 1 \in S
    BY <1>1, <1>2
  <1> QED
    BY <1>3

\* What a function defined by recursion over an interval is: step[<<i, d>>] is
\* the value at i when d is the one before.
Course(f, N, D, d, step) ==
    /\ f \in [0..N -> D] /\ f[0] = d
    /\ \A i \in 1..N : f[i] = step[<<i, f[i - 1]>>]

\* There is one, whatever the step.
LEMMA Recursion ==
  ASSUME NEW D, NEW d \in D, NEW N \in Nat, NEW step \in [(1..N) \X D -> D]
  PROVE  \E f : Course(f, N, D, d, step)
  <1> DEFINE Fits(m, f) == f \in [0..m -> D] /\ f[0] = d
                           /\ \A i \in 1..m : f[i] = step[<<i, f[i - 1]>>]
             S == {m \in Nat : m <= N => \E f : Fits(m, f)}
  <1>1. 0 \in S
    <2>1. Fits(0, [i \in 0..0 |-> d])
      OBVIOUS
    <2> QED
      BY <2>1
  <1>2. ASSUME NEW m \in Nat, m \in S PROVE m + 1 \in S
    <2> SUFFICES ASSUME m + 1 <= N PROVE \E f : Fits(m + 1, f)
      OBVIOUS
    <2>1. PICK g : Fits(m, g)
      BY <1>2
    <2> DEFINE f == [i \in 0..(m + 1) |-> IF i = m + 1 THEN step[<<m + 1, g[m]>>] ELSE g[i]]
    <2>2. g[m] \in D /\ step[<<m + 1, g[m]>>] \in D
      BY <2>1
    <2>3. f \in [0..(m + 1) -> D]
      BY <2>1, <2>2
    <2>4. f[0] = d
      BY <2>1
    <2>5. ASSUME NEW i \in 1..(m + 1) PROVE f[i] = step[<<i, f[i - 1]>>]
      <3>1. CASE i = m + 1
        <4>1. m \in 0..(m + 1) /\ m # m + 1 /\ (m + 1) - 1 = m /\ m + 1 \in 0..(m + 1)
          OBVIOUS
        <4>2. f[m] = g[m] /\ f[m + 1] = step[<<m + 1, g[m]>>]
          BY <4>1
        <4> HIDE DEF f
        <4> QED
          BY <3>1, <4>1, <4>2
      <3>2. CASE i \in 1..m
        <4>1. /\ i \in 0..(m + 1) /\ i # m + 1
              /\ i - 1 \in 0..(m + 1) /\ i - 1 # m + 1
          BY <3>2
        <4>2. f[i] = g[i] /\ f[i - 1] = g[i - 1]
          BY <4>1
        <4>3. g[i] = step[<<i, g[i - 1]>>]
          BY <2>1, <3>2
        <4> HIDE DEF f
        <4> QED
          BY <4>2, <4>3
      <3> QED
        BY <3>1, <3>2
    <2> QED
      BY <2>3, <2>4, <2>5
  <1>3. N \in S
    BY <1>1, <1>2, Induction
  <1>4. PICK f : Fits(N, f)
    BY <1>3
  <1> QED
    BY <1>4 DEF Course

\* Two functions that go on alike from one value are the same.
Alike(N, f, g) ==
    f[0] = g[0] /\ \A i \in 1..N : f[i - 1] = g[i - 1] => f[i] = g[i]

LEMMA SameCourse ==
  ASSUME NEW N \in Nat, NEW f, NEW g, Alike(N, f, g)
  PROVE  \A i \in 0..N : f[i] = g[i]
  <1> DEFINE S == {m \in Nat : m <= N => f[m] = g[m]}
  <1>1. 0 \in S
    BY DEF Alike
  <1>2. ASSUME NEW m \in Nat, m \in S PROVE m + 1 \in S
    <2>1. m + 1 <= N => m + 1 \in 1..N /\ m <= N /\ (m + 1) - 1 = m
      OBVIOUS
    <2> QED
      BY <1>2, <2>1 DEF Alike
  <1> HIDE DEF S
  <1>3. Nat \subseteq S
    BY <1>1, <1>2, Induction
  <1> QED
    BY <1>3 DEF S

-----------------------------------------------------------------------------
Mutations == ({"goal"} \X Goals) \cup ({"price"} \X PriceKinds) \cup ({"reserve"} \X Reserves)
Inputs == [goal : Goals \cup {Unset}, price : PriceKinds \cup {Unset},
           reserve : Reserves \cup {Unset}]
With(inp, cmd) == [inp EXCEPT ![cmd[1]] = cmd[2]]

\* A command leaves planner inputs.
LEMMA WithIsInputs ==
  ASSUME NEW inp \in Inputs, NEW cmd \in Mutations
  PROVE  With(inp, cmd) \in Inputs
  <1>1. CASE cmd \in {"goal"} \X Goals
    <2>1. cmd[1] = "goal" /\ cmd[2] \in Goals
      BY <1>1
    <2> QED
      BY <2>1 DEF With, Inputs
  <1>2. CASE cmd \in {"price"} \X PriceKinds
    <2>1. cmd[1] = "price" /\ cmd[2] \in PriceKinds
      BY <1>2
    <2> QED
      BY <2>1 DEF With, Inputs
  <1>3. CASE cmd \in {"reserve"} \X Reserves
    <2>1. cmd[1] = "reserve" /\ cmd[2] \in Reserves
      BY <1>3
    <2> QED
      BY <2>1 DEF With, Inputs
  <1> QED
    BY <1>1, <1>2, <1>3 DEF Mutations

\* What the inputs go through, command by command.
Drains(f, inp, queue) ==
    /\ f \in [0..Len(queue) -> Inputs] /\ f[0] = inp
    /\ \A i \in 1..Len(queue) : f[i] = With(f[i - 1], queue[i])
    /\ Applied(inp, queue) = f[Len(queue)]

\* Applied is such a course, whatever function its recursion defines.
LEMMA AppliedDrains ==
  ASSUME NEW inp \in Inputs, NEW queue \in Seq(Mutations)
  PROVE  \E f : Drains(f, inp, queue)
  <1> DEFINE N == Len(queue)
             step == [s \in (1..N) \X Inputs |-> With(s[2], queue[s[1]])]
             Sequel(u) == [k \in 0..N |-> IF k = 0 THEN inp
                              ELSE [u[k - 1] EXCEPT ![queue[k][1]] = queue[k][2]]]
             upto == CHOOSE u : u = Sequel(u)
  <1>1. N \in Nat /\ \A i \in 1..N : queue[i] \in Mutations
    OBVIOUS
  <1>2. Applied(inp, queue) = upto[N]
    BY DEF Applied
  <1>3. PICK f : Course(f, N, Inputs, inp, step)
    <2>1. step \in [(1..N) \X Inputs -> Inputs]
      BY <1>1, WithIsInputs
    <2> HIDE DEF step, N
    <2> QED
      BY <1>1, <2>1, Recursion
  <1>4. f \in [0..N -> Inputs] /\ f[0] = inp /\ \A i \in 1..N : f[i] = step[<<i, f[i - 1]>>]
    BY <1>3 DEF Course
  <1> HIDE DEF N
  <1>5. \A i \in 1..N : i - 1 \in 0..N /\ i \in 0..N /\ i # 0
    BY <1>1
  <1>6. ASSUME NEW i \in 1..N PROVE f[i] = With(f[i - 1], queue[i])
    <2>1. <<i, f[i - 1]>> \in (1..N) \X Inputs
      BY <1>4, <1>5
    <2>2. f[i] = step[<<i, f[i - 1]>>]
      BY <1>4
    <2> QED
      BY <2>1, <2>2
  <1>7. f = Sequel(f)
    <2>1. ASSUME NEW i \in 0..N
          PROVE  f[i] = IF i = 0 THEN inp
                        ELSE [f[i - 1] EXCEPT ![queue[i][1]] = queue[i][2]]
      <3>1. i = 0 \/ i \in 1..N
        BY <1>1
      <3> QED
        BY <1>4, <1>6, <3>1 DEF With
    <2>2. f = [i \in 0..N |-> f[i]]
      BY <1>4
    <2> QED
      BY <2>1, <2>2
  <1>8. upto = Sequel(upto)
    BY <1>7
  <1> HIDE DEF upto, step
  <1>9. upto[0] = inp /\ \A i \in 1..N : upto[i] = With(upto[i - 1], queue[i])
    <2>1. 0 \in 0..N
      BY <1>1
    <2> QED
      BY <1>5, <1>8, <2>1 DEF With
  <1>10. \A i \in 0..N : upto[i] = f[i]
    <2>1. Alike(N, upto, f)
      BY <1>4, <1>6, <1>9 DEF Alike
    <2> QED
      BY <1>1, <2>1, SameCourse
  <1>11. Applied(inp, queue) = f[N]
    BY <1>1, <1>2, <1>10
  <1> QED
    BY <1>4, <1>6, <1>11 DEF Drains, N

\* A queue drained at once leaves what the inputs were to become.
LEMMA AppliedNothing ==
  ASSUME NEW inp \in Inputs
  PROVE  Applied(inp, <<>>) = inp
  <1>1. <<>> \in Seq(Mutations) /\ Len(<<>>) = 0
    OBVIOUS
  <1>2. PICK f : Drains(f, inp, <<>>)
    BY <1>1, AppliedDrains
  <1> QED
    BY <1>1, <1>2 DEF Drains

\* What is drained are inputs again.
LEMMA AppliedType ==
  ASSUME NEW inp \in Inputs, NEW queue \in Seq(Mutations)
  PROVE  Applied(inp, queue) \in Inputs
  <1>1. PICK f : Drains(f, inp, queue)
    BY AppliedDrains
  <1>2. Len(queue) \in 0..Len(queue)
    OBVIOUS
  <1> QED
    BY <1>1, <1>2 DEF Drains

\* One more command changes its own input and no other.
LEMMA AppliedOneMore ==
  ASSUME NEW inp \in Inputs, NEW queue \in Seq(Mutations), NEW cmd \in Mutations
  PROVE  Applied(inp, Append(queue, cmd)) = With(Applied(inp, queue), cmd)
  <1> DEFINE more == Append(queue, cmd)
             N == Len(queue)
  <1>1. /\ more \in Seq(Mutations) /\ N \in Nat /\ Len(more) = N + 1
        /\ more[N + 1] = cmd /\ \A i \in 1..N : more[i] = queue[i]
    OBVIOUS
  <1>2. PICK f : Drains(f, inp, queue)
    BY AppliedDrains
  <1>3. PICK h : Drains(h, inp, more)
    BY <1>1, AppliedDrains
  <1> HIDE DEF more, N
  <1>4. \A i \in 1..N : i \in 1..(N + 1)
    BY <1>1
  <1>5. Alike(N, f, h)
    BY <1>1, <1>2, <1>3, <1>4 DEF Drains, Alike, N
  <1>6. f[N] = h[N]
    BY <1>1, <1>5, SameCourse
  <1>7. h[N + 1] = With(h[N], cmd)
    <2>1. N + 1 \in 1..(N + 1) /\ (N + 1) - 1 = N
      BY <1>1
    <2> QED
      BY <1>1, <1>3, <2>1 DEF Drains
  <1> QED
    BY <1>1, <1>2, <1>3, <1>6, <1>7 DEF Drains, N, more

-----------------------------------------------------------------------------
(* What the hub is told, and what becomes of it.                           *)

Said == [k \in Topics \cup {"status"} |->
            CASE k = "goal" -> EvGoals \cup {Bad} [] k = "reserve" -> Reserves \cup {Bad}
              [] k = "mode" -> Modes \cup {Bad} [] k = "status" -> Modes
              [] k = "charge" -> {Unset, Bad} [] OTHER -> {k}]
About(k) == [kind : {k}, id : Nat, val : Said[k]]
AnyMessage == UNION {About(k) : k \in Topics \cup {"status"}}
Subscription == Message("subscribe", 0, Unset)
Goal == About("goal")
GoodGoal == {x \in Goal : x.val \in EvGoals /\ x.id \notin past}
Status == About("status")
ValidMode == [kind : {"mode"}, id : Nat, val : Modes]
Reversion == [gen : Nat, goal : EvGoals]

IntentTypes ==
    /\ cmds \in Seq(Mutations) /\ Len(cmds) <= Cap /\ planIn \in Inputs
    /\ {dropped, urgent, looping, listening, csipSeen, untimely, outrun} \subseteq BOOLEAN
    /\ retainedOf \in [Kinds -> AnyMessage \cup {Unset}]
    /\ \A k \in Kinds : retainedOf[k] \in About(k) \cup {Unset}
    /\ incoming \in Seq(AnyMessage)
    /\ sending \in Seq(Status \cup {Subscription})
    /\ bootStage \in {"down", "intents", "status", "started", "sealed"}
    /\ {mode, asked} \subseteq Modes
    /\ lastID \in [DOMAIN NoIDs -> Nat]
    /\ standing \in EvGoals \cup {Unset}
    /\ gen \in Nat /\ timer \in Reversion \cup {Unset} /\ fired \subseteq Reversion
    /\ timer # Unset => timer.gen = gen /\ gen > 0
    /\ \A r \in fired : r.gen \in 1..gen
    /\ talk \in [Topics \cup {"fault"} -> Nat]
    /\ past \subseteq Nat /\ lost \subseteq Lasting
    /\ meant \in [Lasting -> EvGoals \cup Reserves \cup {Unset}]
    /\ meant["goal"] \in EvGoals \cup {Unset} /\ meant["reserve"] \in Reserves \cup {Unset}

Among(s) == {s[i] : i \in 1..Len(s)}

\* The messages that are on their way to the hub or may be sent again.
Told == Among(incoming) \cup {retainedOf[k] : k \in Kinds}

\* Of the messages in S, the last of a sequence s says v; without one, it is
\* what v0 says.
Leaves(s, S, v0, v) ==
    \/ Among(s) \cap S = {} /\ v0 = v
    \/ \E i \in 1..Len(s) : /\ s[i] \in S /\ s[i].val = v
                            /\ \A j \in 1..Len(s) : j > i => s[j] \notin S

\* An id is never given twice, and what was handled last is of the past.
Numbered(k) ==
    /\ \A x \in Told \cap About(k) : x.id > talk[k]
    /\ lastID[k] = 0 \/ lastID[k] > talk[k]
    /\ \A x, y \in Told \cap About(k) : x.id = y.id => x = y

\* A message that comes again is about what it has set.
Remembered(S, k, v) == \A x \in Told \cap S : x.id = lastID[k] => x.val = v

\* Of the goals the hub would apply the last on its way is the one that is
\* meant, or that one was adopted, unless it is lost; ...
GoalArrives ==
    /\ \A id \in past : id > talk["goal"]
    /\ Remembered(GoodGoal, "goal", standing)
    /\ retainedOf["goal"] \in GoodGoal => retainedOf["goal"].val = meant["goal"]
    /\ retainedOf["goal"] = Unset => meant["goal"] = Unset
    /\ "goal" \notin lost /\ bootStage = "down" => meant["goal"] = Unset \/ retainedOf["goal"] \in GoodGoal
    /\ "goal" \notin lost /\ bootStage # "down" => Leaves(incoming, GoodGoal, standing, meant["goal"])

\* ... and the engine has the adopted one, and the revert would restore it.
GoalAdopted ==
    /\ ~dropped => Applied(planIn, cmds).goal =
          IF standing = Unset THEN Unset ELSE <<standing, IF Reverting THEN "now" ELSE "stated">>
    /\ timer # Unset => standing # Unset /\ timer.goal = standing
    /\ \A r \in fired : r.gen = gen =>
          standing # Unset /\ r.goal = standing /\ timer = Unset

\* Before the boot is sealed all that is said of the mode is what was asked.
OneVoice ==
    /\ \A x \in Among(incoming) \cap ValidMode : x.val = asked
    /\ \A x \in (Told \cup Among(sending)) \cap Status : x.val = asked
    /\ retainedOf["status"] = Unset => mode = asked
    /\ mode = asked \/ ~listening \/ Among(incoming) \cap Status # {}

ModeKept ==
    /\ Remembered(ValidMode, "mode", mode)
    /\ retainedOf["mode"] \in ValidMode => retainedOf["mode"].val = asked
    /\ bootStage # "sealed" => OneVoice
    /\ bootStage = "sealed" =>
          /\ Leaves(incoming, ValidMode, mode, asked)
          /\ Leaves(sending, Status, retainedOf["status"].val, mode)

\* A hub that is down has heard nothing and says nothing; one that started
\* listens to its own status.
Subscribing ==
    /\ bootStage = "down" => standing = Unset /\ ~listening /\ incoming = <<>> /\ sending = <<>>
    /\ bootStage \in {"started", "sealed"} => listening

Quiet == ~untimely /\ ~outrun

InputsInv ==
    /\ IntentTypes /\ Numbered("goal") /\ Numbered("mode")
    /\ GoalArrives /\ GoalAdopted
    /\ Subscribing /\ (Quiet => ModeKept)

-----------------------------------------------------------------------------
(* Sequences of messages.                                                  *)

\* What the head and the tail of a sequence are.
LEMMA TailIs ==
  ASSUME NEW S, NEW s \in Seq(S), s # <<>>
  PROVE  /\ Tail(s) \in Seq(S) /\ Head(s) \in Among(s) /\ Head(s) = s[1]
         /\ Among(Tail(s)) \subseteq Among(s)
         /\ Among(s) = {Head(s)} \cup Among(Tail(s))
         /\ Len(s) \in Nat /\ Len(s) >= 1 /\ Len(Tail(s)) = Len(s) - 1
         /\ \A i \in 1..Len(Tail(s)) : Tail(s)[i] = s[i + 1]
  <1>1. /\ Tail(s) \in Seq(S) /\ Head(s) = s[1] /\ Len(s) \in Nat /\ Len(s) >= 1
        /\ Len(Tail(s)) = Len(s) - 1 /\ \A i \in 1..Len(Tail(s)) : Tail(s)[i] = s[i + 1]
    OBVIOUS
  <1>2. Head(s) \in Among(s)
    BY <1>1 DEF Among
  <1>3. ASSUME NEW x \in Among(Tail(s)) PROVE x \in Among(s)
    <2>1. PICK i \in 1..Len(Tail(s)) : x = Tail(s)[i]
      BY DEF Among
    <2>2. x = s[i + 1] /\ i + 1 \in 1..Len(s)
      BY <1>1, <2>1
    <2> QED
      BY <2>2 DEF Among
  <1>4. ASSUME NEW x \in Among(s) PROVE x = Head(s) \/ x \in Among(Tail(s))
    <2>1. PICK i \in 1..Len(s) : x = s[i]
      BY DEF Among
    <2>2. CASE i = 1
      BY <1>1, <2>1, <2>2
    <2>3. CASE i # 1
      <3>1. i - 1 \in 1..Len(Tail(s)) /\ (i - 1) + 1 = i
        BY <1>1, <2>1, <2>3
      <3>2. x = Tail(s)[i - 1]
        BY <1>1, <2>1, <3>1
      <3> QED
        BY <3>1, <3>2 DEF Among
    <2> QED
      BY <2>2, <2>3
  <1> QED
    BY <1>1, <1>2, <1>3, <1>4

\* What joining two sequences gives.
LEMMA JoinIs ==
  ASSUME NEW S, NEW s \in Seq(S), NEW u \in Seq(S)
  PROVE  /\ s \o u \in Seq(S) /\ Among(s \o u) = Among(s) \cup Among(u)
         /\ Len(s) \in Nat /\ Len(u) \in Nat /\ Len(s \o u) = Len(s) + Len(u)
         /\ \A i \in 1..Len(s) : (s \o u)[i] = s[i]
         /\ \A i \in 1..Len(u) : (s \o u)[Len(s) + i] = u[i]
  <1>1. /\ s \o u \in Seq(S) /\ Len(s) \in Nat /\ Len(u) \in Nat
        /\ Len(s \o u) = Len(s) + Len(u)
        /\ \A i \in 1..Len(s) : (s \o u)[i] = s[i]
        /\ \A i \in 1..Len(u) : (s \o u)[Len(s) + i] = u[i]
    OBVIOUS
  <1> DEFINE st == s \o u
  <1> HIDE DEF st
  <1>2. ASSUME NEW x \in Among(st) PROVE x \in Among(s) \cup Among(u)
    <2>1. PICK i \in 1..Len(st) : x = st[i]
      BY DEF Among
    <2>2. CASE i <= Len(s)
      <3>1. i \in 1..Len(s)
        BY <1>1, <2>1, <2>2 DEF st
      <3>2. x = s[i]
        BY <1>1, <2>1, <3>1 DEF st
      <3> QED
        BY <3>1, <3>2 DEF Among
    <2>3. CASE ~(i <= Len(s))
      <3>1. i - Len(s) \in 1..Len(u) /\ Len(s) + (i - Len(s)) = i
        BY <1>1, <2>1, <2>3 DEF st
      <3>2. x = u[i - Len(s)]
        BY <1>1, <2>1, <3>1 DEF st
      <3> QED
        BY <3>1, <3>2 DEF Among
    <2> QED
      BY <2>2, <2>3
  <1>3. ASSUME NEW x \in Among(s) PROVE x \in Among(st)
    <2>1. PICK i \in 1..Len(s) : x = s[i]
      BY DEF Among
    <2>2. i \in 1..Len(st) /\ x = st[i]
      BY <1>1, <2>1 DEF st
    <2> QED
      BY <2>2 DEF Among
  <1>4. ASSUME NEW x \in Among(u) PROVE x \in Among(st)
    <2>1. PICK i \in 1..Len(u) : x = u[i]
      BY DEF Among
    <2>2. Len(s) + i \in 1..Len(st) /\ x = st[Len(s) + i]
      BY <1>1, <2>1 DEF st
    <2> QED
      BY <2>2 DEF Among
  <1> QED
    BY <1>1, <1>2, <1>3, <1>4 DEF st

\* The elements of the shortest sequences.
LEMMA AmongFew ==
  /\ Among(<<>>) = {}
  /\ \A x : Among(<<x>>) = {x}
  <1>1. Len(<<>>) = 0 /\ \A x : Len(<<x>>) = 1 /\ <<x>>[1] = x
    OBVIOUS
  <1> QED
    BY <1>1 DEF Among

\* The elements of a sequence are of its type.
LEMMA AmongType ==
  ASSUME NEW S, NEW s \in Seq(S)
  PROVE  Among(s) \subseteq S
  BY DEF Among

\* Once the first message is handled the rest leaves the same.
LEMMA LeavesTail ==
  ASSUME NEW T, NEW s \in Seq(T), s # <<>>, NEW S, NEW v0, NEW v, Leaves(s, S, v0, v)
  PROVE  /\ Head(s) \notin S => Leaves(Tail(s), S, v0, v)
         /\ Head(s) \in S => Leaves(Tail(s), S, Head(s).val, v)
  <1>1. /\ Head(s) \in Among(s) /\ Head(s) = s[1] /\ Len(s) \in Nat /\ Len(s) >= 1
        /\ Among(s) = {Head(s)} \cup Among(Tail(s)) /\ Len(Tail(s)) = Len(s) - 1
        /\ \A i \in 1..Len(Tail(s)) : Tail(s)[i] = s[i + 1]
    BY TailIs
  <1>2. CASE v0 = v /\ Among(s) \cap S = {}
    BY <1>1, <1>2 DEF Leaves
  <1>3. CASE \E i \in 1..Len(s) : /\ s[i] \in S /\ s[i].val = v
                                  /\ \A j \in 1..Len(s) : j > i => s[j] \notin S
    <2>1. PICK i \in 1..Len(s) : /\ s[i] \in S /\ s[i].val = v
                                 /\ \A j \in 1..Len(s) : j > i => s[j] \notin S
      BY <1>3
    <2>2. CASE i = 1
      <3>1. Among(Tail(s)) \cap S = {}
        <4> SUFFICES ASSUME NEW x \in Among(Tail(s)), x \in S PROVE FALSE
          OBVIOUS
        <4>1. PICK k \in 1..Len(Tail(s)) : x = Tail(s)[k]
          BY DEF Among
        <4>2. x = s[k + 1] /\ k + 1 \in 1..Len(s) /\ k + 1 > i
          BY <1>1, <2>2, <4>1
        <4> QED
          BY <2>1, <4>2
      <3> QED
        BY <1>1, <2>1, <2>2, <3>1 DEF Leaves
    <2>3. CASE i # 1
      <3>1. i - 1 \in 1..Len(Tail(s)) /\ (i - 1) + 1 = i
        BY <1>1, <2>3
      <3>2. Tail(s)[i - 1] = s[i]
        BY <1>1, <3>1
      <3>3. ASSUME NEW j \in 1..Len(Tail(s)), j > i - 1 PROVE Tail(s)[j] \notin S
        <4>1. j + 1 \in 1..Len(s) /\ j + 1 > i /\ Tail(s)[j] = s[j + 1]
          BY <1>1, <3>3
        <4> QED
          BY <2>1, <4>1
      <3>4. \E k \in 1..Len(Tail(s)) : /\ Tail(s)[k] \in S /\ Tail(s)[k].val = v
                                       /\ \A j \in 1..Len(Tail(s)) : j > k => Tail(s)[j] \notin S
        BY <2>1, <3>1, <3>2, <3>3
      <3> QED
        BY <3>4 DEF Leaves
    <2> QED
      BY <2>2, <2>3
  <1> QED
    BY <1>2, <1>3 DEF Leaves

\* Messages about something else change nothing.
LEMMA LeavesMore ==
  ASSUME NEW T, NEW s \in Seq(T), NEW u \in Seq(T), NEW S, NEW v0, NEW v, Leaves(s, S, v0, v),
         Among(u) \cap S = {}
  PROVE  Leaves(s \o u, S, v0, v)
  <1>1. /\ Among(s \o u) = Among(s) \cup Among(u)
        /\ Len(s) \in Nat /\ Len(u) \in Nat /\ Len(s \o u) = Len(s) + Len(u)
        /\ \A i \in 1..Len(s) : (s \o u)[i] = s[i]
        /\ \A i \in 1..Len(u) : (s \o u)[Len(s) + i] = u[i]
    BY JoinIs
  <1>2. CASE v0 = v /\ Among(s) \cap S = {}
    BY <1>1, <1>2 DEF Leaves
  <1>3. CASE \E i \in 1..Len(s) : /\ s[i] \in S /\ s[i].val = v
                                  /\ \A j \in 1..Len(s) : j > i => s[j] \notin S
    <2>1. PICK i \in 1..Len(s) : /\ s[i] \in S /\ s[i].val = v
                                 /\ \A j \in 1..Len(s) : j > i => s[j] \notin S
      BY <1>3
    <2> DEFINE st == s \o u
    <2> HIDE DEF st
    <2>2. i \in 1..Len(st) /\ st[i] = s[i]
      BY <1>1 DEF st
    <2>3. ASSUME NEW j \in 1..Len(st), j > i PROVE st[j] \notin S
      <3>1. CASE j <= Len(s)
        <4>1. j \in 1..Len(s) /\ st[j] = s[j]
          BY <1>1, <3>1 DEF st
        <4> QED
          BY <2>1, <2>3, <4>1
      <3>2. CASE ~(j <= Len(s))
        <4>1. j - Len(s) \in 1..Len(u) /\ Len(s) + (j - Len(s)) = j
          BY <1>1, <3>2 DEF st
        <4>2. st[j] = u[j - Len(s)]
          BY <1>1, <4>1 DEF st
        <4>3. st[j] \in Among(u)
          BY <4>1, <4>2 DEF Among
        <4> QED
          BY <4>3
      <3> QED
        BY <3>1, <3>2
    <2> QED
      BY <2>1, <2>2, <2>3 DEF Leaves, st
  <1> QED
    BY <1>2, <1>3 DEF Leaves

\* A message that comes last decides, if it is about the subject.
LEMMA LeavesLast ==
  ASSUME NEW T, NEW s \in Seq(T), NEW x \in T, NEW S, x \in S, NEW v0
  PROVE  Leaves(s \o <<x>>, S, v0, x.val)
  <1>1. /\ Len(s \o <<x>>) = Len(s) + 1 /\ (s \o <<x>>)[Len(s) + 1] = x
        /\ Len(s) \in Nat
    OBVIOUS
  <1>2. Len(s) + 1 \in 1..Len(s \o <<x>>)
        /\ \A j \in 1..Len(s \o <<x>>) : ~(j > Len(s) + 1)
    BY <1>1
  <1> QED
    BY <1>1, <1>2 DEF Leaves

\* Where all say the same, so does the last.
LEMMA LeavesSame ==
  ASSUME NEW T, NEW s \in Seq(T), NEW S, NEW v0, NEW v,
         \A x \in Among(s) \cap S : x.val = v,
         v0 = v \/ Among(s) \cap S # {}
  PROVE  Leaves(s, S, v0, v)
  <1>1. CASE Among(s) \cap S = {}
    BY <1>1 DEF Leaves
  <1>2. CASE Among(s) \cap S # {}
    <2> DEFINE behind == {d \in 0..Len(s) : Len(s) - d \in 1..Len(s) /\ s[Len(s) - d] \in S}
    <2>1. Len(s) \in Nat
      OBVIOUS
    <2>2. behind # {} /\ behind \in SUBSET Nat
      <3>1. PICK i \in 1..Len(s) : s[i] \in S
        BY <1>2 DEF Among
      <3>2. Len(s) - i \in 0..Len(s) /\ Len(s) - (Len(s) - i) = i
        BY <2>1, <3>1
      <3>3. Len(s) - i \in behind
        BY <3>1, <3>2
      <3>4. behind \in SUBSET Nat
        BY <2>1
      <3> HIDE DEF behind
      <3> QED
        BY <3>3, <3>4
    <2>3. PICK d \in behind : \A e \in behind : d <= e
      <3> HIDE DEF behind
      <3> QED
        BY <2>2, LeastNumber
    <2>4. Len(s) - d \in 1..Len(s) /\ s[Len(s) - d] \in S /\ d \in 0..Len(s)
      BY <2>3
    <2>5. ASSUME NEW j \in 1..Len(s), j > Len(s) - d PROVE s[j] \notin S
      <3>1. Len(s) - j \in 0..Len(s) /\ Len(s) - (Len(s) - j) = j /\ ~(d <= Len(s) - j)
        BY <2>1, <2>4, <2>5
      <3>2. s[j] \in S => Len(s) - j \in behind
        BY <3>1
      <3> QED
        BY <2>3, <3>1, <3>2
    <2>6. s[Len(s) - d] \in Among(s) \cap S
      BY <2>4 DEF Among
    <2> QED
      BY <2>4, <2>5, <2>6 DEF Leaves
  <1> QED
    BY <1>1, <1>2

-----------------------------------------------------------------------------
(* What the hub is told has its type.                                      *)

\* The topics and what is said on them, spelled out.
LEMMA KindsAre ==
  /\ Topics = {"csip", "openadr", "goal", "reserve", "charge", "mode"}
  /\ Kinds = {"csip", "openadr", "goal", "reserve", "mode", "status"}
  /\ DOMAIN NoIDs = {"goal", "reserve", "charge", "mode"}
  /\ Said["goal"] = EvGoals \cup {Bad} /\ Said["reserve"] = Reserves \cup {Bad}
  /\ Said["mode"] = Modes \cup {Bad} /\ Said["status"] = Modes /\ Said["charge"] = {Unset, Bad}
  /\ Said["csip"] = {"csip"} /\ Said["openadr"] = {"openadr"}
  /\ ValidMode \subseteq About("mode")
  /\ \A x \in About("mode") : x \in ValidMode <=> x.val \in Modes
  <1>1. /\ Topics = {"csip", "openadr", "goal", "reserve", "charge", "mode"}
        /\ Kinds = {"csip", "openadr", "goal", "reserve", "mode", "status"}
        /\ DOMAIN NoIDs = {"goal", "reserve", "charge", "mode"}
    BY DEF Topics, Kinds, NoIDs
  <1>2. /\ Said["goal"] = EvGoals \cup {Bad} /\ Said["reserve"] = Reserves \cup {Bad}
        /\ Said["mode"] = Modes \cup {Bad} /\ Said["status"] = Modes /\ Said["charge"] = {Unset, Bad}
        /\ Said["csip"] = {"csip"} /\ Said["openadr"] = {"openadr"}
    BY <1>1 DEF Said
  <1>3. /\ ValidMode \subseteq About("mode")
        /\ \A x \in About("mode") : x \in ValidMode <=> x.val \in Modes
    BY <1>2 DEF ValidMode, About
  <1> QED
    BY <1>1, <1>2, <1>3

\* No message is the absence of one.
LEMMA UnsetIsNoMessage ==
  Unset \notin About("goal") /\ Unset \notin About("mode") /\ Unset \notin Status
  <1> DEFINE Messages == [kind : {"goal", "mode", "status"}, id : Nat, val : EvGoals \cup Modes \cup {Bad}]
  <1>1. Unset \notin Messages
    BY IntentsAssumption
  <1>2. Said["goal"] = EvGoals \cup {Bad} /\ Said["mode"] = Modes \cup {Bad} /\ Said["status"] = Modes
    BY KindsAre
  <1>3. About("goal") \subseteq Messages /\ About("mode") \subseteq Messages /\ Status \subseteq Messages
    BY <1>2 DEF About, Status
  <1> QED
    BY <1>1, <1>3

\* The messages of a kind, and the kind of a message.
LEMMA AboutIs ==
  ASSUME NEW k \in Topics \cup {"status"}
  PROVE  /\ About(k) \subseteq AnyMessage
         /\ \A x \in About(k) : x.kind = k /\ x.id \in Nat /\ x.val \in Said[k]
         /\ \A id \in Nat, val \in Said[k] : Message(k, id, val) \in About(k)
         /\ \A x \in AnyMessage : x.kind = k => x \in About(k)
  BY DEF About, AnyMessage, Message

\* Every message is about its kind.
LEMMA AnyIs ==
  ASSUME NEW x \in AnyMessage
  PROVE  x.kind \in Topics \cup {"status"} /\ x \in About(x.kind)
  BY DEF AnyMessage, About

\* A subscription brings what is retained, and nothing else.
LEMMA RetainedIs ==
  ASSUME IntentTypes, NEW K \in SUBSET Kinds
  PROVE  /\ Retained(K) \in Seq(AnyMessage)
         /\ Among(Retained(K)) = {retainedOf[k] : k \in K} \ {Unset}
  <1> DEFINE Have(k) == IF k \in K /\ retainedOf[k] # Unset THEN <<retainedOf[k]>> ELSE <<>>
             Had(k) == IF k \in K /\ retainedOf[k] # Unset THEN {retainedOf[k]} ELSE {}
  <1>1. ASSUME NEW k \in Kinds PROVE Have(k) \in Seq(AnyMessage) /\ Among(Have(k)) = Had(k)
    <2>1. retainedOf[k] \in AnyMessage \cup {Unset}
      BY DEF IntentTypes
    <2>2. retainedOf[k] # Unset => <<retainedOf[k]>> \in Seq(AnyMessage)
      BY <2>1
    <2>3. <<>> \in Seq(AnyMessage)
      OBVIOUS
    <2> QED
      BY <2>2, <2>3, AmongFew
  <1>2. Retained(K) = Have("csip") \o Have("openadr") \o Have("goal") \o Have("reserve")
                          \o Have("mode") \o Have("status")
    BY DEF Retained
  <1>3. /\ "csip" \in Kinds /\ "openadr" \in Kinds /\ "goal" \in Kinds
        /\ "reserve" \in Kinds /\ "mode" \in Kinds /\ "status" \in Kinds
        /\ Kinds = {"csip", "openadr", "goal", "reserve", "mode", "status"}
    BY KindsAre
  <1> HIDE DEF Have, Had
  <1> DEFINE two == Have("csip") \o Have("openadr")
             three == two \o Have("goal")
             four == three \o Have("reserve")
             five == four \o Have("mode")
             six == five \o Have("status")
  <1>4. two \in Seq(AnyMessage) /\ Among(two) = Had("csip") \cup Had("openadr")
    BY <1>1, <1>3, JoinIs
  <1> HIDE DEF two
  <1>5. three \in Seq(AnyMessage) /\ Among(three) = Among(two) \cup Had("goal")
    BY <1>1, <1>3, <1>4, JoinIs
  <1> HIDE DEF three
  <1>6. four \in Seq(AnyMessage) /\ Among(four) = Among(three) \cup Had("reserve")
    BY <1>1, <1>3, <1>5, JoinIs
  <1> HIDE DEF four
  <1>7. five \in Seq(AnyMessage) /\ Among(five) = Among(four) \cup Had("mode")
    BY <1>1, <1>3, <1>6, JoinIs
  <1> HIDE DEF five
  <1>8. six \in Seq(AnyMessage) /\ Among(six) = Among(five) \cup Had("status")
    BY <1>1, <1>3, <1>7, JoinIs
  <1> HIDE DEF six
  <1>9. Retained(K) = six
    BY <1>2 DEF two, three, four, five, six
  <1>10. Among(six) = Had("csip") \cup Had("openadr") \cup Had("goal") \cup Had("reserve")
                         \cup Had("mode") \cup Had("status")
    BY <1>4, <1>5, <1>6, <1>7, <1>8
  <1>11. Among(six) = UNION {Had(k) : k \in Kinds}
    BY <1>3, <1>10
  <1>12. UNION {Had(k) : k \in Kinds} = {retainedOf[k] : k \in K} \ {Unset}
    BY DEF Had
  <1> QED
    BY <1>8, <1>9, <1>11, <1>12

\* The engine's part of the types.
EngineTypes ==
    /\ cmds \in Seq(Mutations) /\ Len(cmds) <= Cap /\ planIn \in Inputs
    /\ {dropped, urgent, looping} \subseteq BOOLEAN

\* The goal the engine has, or is about to have.
GoalAhead == Applied(planIn, cmds).goal

\* A setter puts its own command ahead and no other, unless it is refused.
LEMMA SetPosts ==
  ASSUME EngineTypes, NEW field, NEW v, <<field, v>> \in Mutations, Set(field, v)
  PROVE  /\ EngineTypes' /\ (~dropped' => ~dropped)
         /\ field # "goal" /\ ~dropped' => GoalAhead' = GoalAhead
         /\ field = "goal" /\ ~dropped' => GoalAhead' = v
  <1> DEFINE cmd == <<field, v>>
  <1>1. planIn' = planIn /\ UNCHANGED <<urgent, looping>>
    BY DEF Set
  <1>2. CASE Len(cmds) < Cap
    <2>1. cmds' = Append(cmds, cmd) /\ dropped' = dropped
      BY <1>2 DEF Set, Enqueue
    <2>2. cmds' \in Seq(Mutations) /\ Len(cmds') = Len(cmds) + 1
      BY <2>1 DEF EngineTypes
    <2>3. Len(cmds') <= Cap
      BY <1>2, <2>2, EngineAssumption DEF EngineTypes
    <2>4. Applied(planIn', cmds') = With(Applied(planIn, cmds), cmd)
      BY <1>1, <2>1, AppliedOneMore DEF EngineTypes
    <2>5. Applied(planIn, cmds) \in Inputs
      BY AppliedType DEF EngineTypes
    <2>6. cmd[1] = field /\ cmd[2] = v /\ cmd[1] \in {"goal", "price", "reserve"}
      BY DEF Mutations
    <2> HIDE DEF cmd
    <2>7. Applied(planIn', cmds').goal = IF field = "goal" THEN v ELSE Applied(planIn, cmds).goal
      BY <2>4, <2>5, <2>6 DEF With, Inputs
    <2>8. EngineTypes'
      BY <1>1, <2>1, <2>2, <2>3 DEF EngineTypes
    <2> QED
      BY <2>1, <2>7, <2>8 DEF GoalAhead
  <1>3. CASE ~(Len(cmds) < Cap)
    BY <1>1, <1>3 DEF Set, Enqueue, EngineTypes
  <1> QED
    BY <1>2, <1>3

\* Draining changes nothing that is ahead.
LEMMA DrainKeeps ==
  ASSUME EngineTypes, DrainCmds
  PROVE  /\ planIn' \in Inputs /\ cmds' \in Seq(Mutations) /\ Len(cmds') <= Cap
         /\ GoalAhead' = GoalAhead
  <1>1. Applied(planIn, cmds) \in Inputs
    BY AppliedType DEF EngineTypes
  <1>2. planIn' = Applied(planIn, cmds) /\ cmds' = <<>>
    BY DEF DrainCmds
  <1>3. Applied(planIn', <<>>) = planIn'
    BY <1>1, <1>2, AppliedNothing
  <1> QED
    BY <1>1, <1>2, <1>3, EngineAssumption DEF GoalAhead

\* A tick, a re-plan and its end.
EngineRuns ==
    \/ StartEngineLoops \/ Wake \/ SafetyTick \/ Replan \/ StorePlan
    \/ UrgentTick(mode) \/ EconomicTick(mode) \/ UNCHANGED engine

\* Nor does any loop of the engine.
LEMMA EngineKeeps ==
  ASSUME EngineTypes, EngineRuns
  PROVE  EngineTypes' /\ dropped' = dropped /\ GoalAhead' = GoalAhead
  <1>1. CASE DrainCmds /\ UNCHANGED dropped /\ urgent' \in BOOLEAN /\ looping' \in BOOLEAN
    BY <1>1, DrainKeeps DEF EngineTypes
  <1>2. CASE UNCHANGED <<cmds, dropped, planIn>> /\ urgent' \in BOOLEAN /\ looping' \in BOOLEAN
    BY <1>2 DEF EngineTypes, GoalAhead
  <1> QED
    BY <1>1, <1>2 DEF EngineRuns, EngineTypes, StartEngineLoops, Wake, SafetyTick, Replan,
       StorePlan, UrgentTick, EconomicTick, engine

-----------------------------------------------------------------------------
(* The hub takes one message at a time.                                    *)

\* What handling the message m does: a price, a status, one that comes again,
\* or one of the four intents.
PriceHandled(m) ==
    /\ m \in About("csip") \cup About("openadr") /\ csipSeen' \in BOOLEAN
    /\ UNCHANGED engine \/ Set("price", m.val)
    /\ UNCHANGED <<mode, lastID, standing, gen, timer, fired, sending>>
StatusHandled(m) == m \in Status /\ OnModeStatus(m)
Adopted(m) ==
    /\ m.kind \in DOMAIN NoIDs /\ lastID' = [lastID EXCEPT ![m.kind] = m.id]
    /\ UNCHANGED csipSeen
AgainHandled(m) ==
    /\ Adopted(m) /\ m.id = lastID[m.kind]
    /\ UNCHANGED <<engine, mode, standing, gen, timer, fired, sending>>
GoalHandled(m) == Adopted(m) /\ m \in Goal /\ ApplyEVGoal(m)
ChargeHandled(m) == Adopted(m) /\ m \in About("charge") /\ ApplyChargeNow(m)
ReserveHandled(m) == Adopted(m) /\ m \in About("reserve") /\ ApplyReserve(m)
ModeHandled(m) == Adopted(m) /\ m \in About("mode") /\ ApplyMode(m)

\* Handle, case by case.
LEMMA HandleCases ==
  ASSUME IntentTypes, Handle
  PROVE  LET m == Head(incoming)
         IN  /\ m \in AnyMessage /\ m \in Told
             /\ incoming # <<>> /\ incoming' = Tail(incoming)
             /\ UNCHANGED <<retainedOf, bootStage, listening, talk, ghosts>>
             /\ \/ PriceHandled(m) \/ StatusHandled(m) \/ AgainHandled(m) \/ GoalHandled(m)
                \/ ChargeHandled(m) \/ ReserveHandled(m) \/ ModeHandled(m)
  <1> DEFINE m == Head(incoming)
  <1>1. /\ incoming # <<>> /\ incoming' = Tail(incoming)
        /\ UNCHANGED <<retainedOf, bootStage, listening, talk, ghosts>>
    BY DEF Handle
  <1>2. m \in AnyMessage /\ m \in Told
    <2>1. incoming \in Seq(AnyMessage)
      BY DEF IntentTypes
    <2> HIDE DEF m
    <2>2. m \in Among(incoming) /\ Among(incoming) \subseteq AnyMessage
      BY <1>1, <2>1, TailIs, AmongType DEF m
    <2> QED
      BY <2>2 DEF Told
  <1>3. CASE m.kind \in {"csip", "openadr"}
    <2>1. AdoptPrices(m)
      BY <1>3 DEF Handle
    <2> HIDE DEF m
    <2>2. m \in About("csip") \cup About("openadr")
      BY <1>2, <1>3, AnyIs
    <2>3. csipSeen' \in BOOLEAN
      BY <2>1 DEF AdoptPrices, IntentTypes
    <2> QED
      BY <1>1, <1>2, <2>1, <2>2, <2>3 DEF AdoptPrices, PriceHandled, m
  <1>4. CASE m.kind = "status"
    <2>1. OnModeStatus(m)
      BY <1>4 DEF Handle
    <2> HIDE DEF m
    <2>2. m \in Status
      BY <1>2, <1>4, AnyIs DEF Status
    <2> QED
      BY <1>1, <1>2, <2>1, <2>2 DEF StatusHandled, m
  <1>5. CASE m.kind \notin {"csip", "openadr", "status"}
    <2>1. Adopt(m)
      BY <1>5 DEF Handle
    <2> HIDE DEF m
    <2>2. m.kind \in {"goal", "reserve", "charge", "mode"} /\ m \in About(m.kind)
      BY <1>2, <1>5, AnyIs, KindsAre
    <2>3. Adopted(m)
      BY <2>1, <2>2, KindsAre DEF Adopt, Adopted
    <2>4. CASE ~Fresh(m)
      <3>1. AgainHandled(m)
        BY <2>1, <2>3, <2>4 DEF Adopt, Fresh, AgainHandled
      <3> QED
        BY <1>1, <1>2, <3>1 DEF m
    <2>5. CASE Fresh(m)
      <3>1. /\ m.kind = "goal" => ApplyEVGoal(m)
            /\ m.kind = "charge" => ApplyChargeNow(m)
            /\ m.kind = "reserve" => ApplyReserve(m)
            /\ m.kind = "mode" => ApplyMode(m)
        BY <2>1, <2>2, <2>5 DEF Adopt
      <3>2. GoalHandled(m) \/ ChargeHandled(m) \/ ReserveHandled(m) \/ ModeHandled(m)
        BY <2>2, <2>3, <3>1 DEF GoalHandled, ChargeHandled, ReserveHandled, ModeHandled, Goal
      <3> QED
        BY <1>1, <1>2, <3>2 DEF m
    <2> QED
      BY <2>4, <2>5
  <1> QED
    BY <1>3, <1>4, <1>5

-----------------------------------------------------------------------------
(* The types.                                                              *)

LEMMA IntentTypesStart == InitIntents => IntentTypes
  <1> SUFFICES ASSUME InitIntents PROVE IntentTypes
    OBVIOUS
  <1>1. cmds \in Seq(Mutations) /\ Len(cmds) <= Cap /\ planIn \in Inputs
    BY EngineAssumption DEF InitIntents, NewEngine, Inputs, NoInputs
  <1>2. incoming \in Seq(AnyMessage) /\ sending \in Seq(Status \cup {Subscription})
    BY DEF InitIntents
  <1>3. /\ retainedOf \in [Kinds -> AnyMessage \cup {Unset}]
        /\ \A k \in Kinds : retainedOf[k] \in About(k) \cup {Unset}
    BY DEF InitIntents
  <1>4. lastID \in [DOMAIN NoIDs -> Nat]
    BY DEF InitIntents, NoIDs
  <1>5. {mode, asked} \subseteq Modes /\ talk \in [Topics \cup {"fault"} -> Nat]
    BY IntentsAssumption DEF InitIntents
  <1>6. /\ past \subseteq Nat /\ lost \subseteq Lasting
        /\ meant \in [Lasting -> EvGoals \cup Reserves \cup {Unset}]
        /\ meant["goal"] = Unset /\ meant["reserve"] = Unset
    BY DEF InitIntents, Lasting
  <1> QED
    BY <1>1, <1>2, <1>3, <1>4, <1>5, <1>6 DEF InitIntents, NewEngine, IntentTypes

\* What is meant, and what is lost of it, when something is said.
LEMMA MeansTypes ==
  ASSUME IntentTypes, NEW k \in Topics, NEW v \in Said[k], Means(k, v)
  PROVE  /\ lost' \subseteq Lasting /\ meant' \in [Lasting -> EvGoals \cup Reserves \cup {Unset}]
         /\ meant'["goal"] \in EvGoals \cup {Unset} /\ meant'["reserve"] \in Reserves \cup {Unset}
  <1>1. CASE k \in Lasting /\ v # Bad
    <2>1. meant' = [meant EXCEPT ![k] = v] /\ lost' = lost \ {k}
      BY <1>1 DEF Means
    <2>2. (k = "goal" /\ v \in EvGoals) \/ (k = "reserve" /\ v \in Reserves)
      BY <1>1, KindsAre DEF Lasting
    <2> QED
      BY <2>1, <2>2 DEF IntentTypes, Lasting
  <1>2. CASE ~(k \in Lasting /\ v # Bad)
    BY <1>2 DEF Means, IntentTypes
  <1> QED
    BY <1>1, <1>2

\* The types are kept by each action.
LEMMA CallTypes ==
  ASSUME IntentTypes, NEW k \in Topics, NEW v \in Said[k], Post(k, v)
  PROVE  IntentTypes'
  <1> DEFINE msg == Message(k, talk[k], v)
  <1>1. talk[k] \in Nat /\ talk[k] > 0 /\ talk' = [talk EXCEPT ![k] = @ - 1]
    BY DEF Post, IntentTypes
  <1>2. msg \in About(k) /\ msg \in AnyMessage
    BY <1>1, AboutIs
  <1>3. retainedOf' = IF k = "charge" THEN retainedOf ELSE [retainedOf EXCEPT ![k] = msg]
    BY DEF Post
  <1>4. UNCHANGED incoming \/ incoming' = incoming \o <<msg>>
    BY DEF Post, Deliver
  <1>5. {asked'} \subseteq Modes /\ untimely' \in BOOLEAN /\ outrun' = outrun
    BY DEF Post, IntentTypes
  <1>6. UNCHANGED <<engine, adopter, sending, bootStage, listening, past>> /\ Means(k, v)
    BY DEF Post
  <1>6a. /\ lost' \subseteq Lasting /\ meant' \in [Lasting -> EvGoals \cup Reserves \cup {Unset}]
         /\ meant'["goal"] \in EvGoals \cup {Unset} /\ meant'["reserve"] \in Reserves \cup {Unset}
    BY <1>6, MeansTypes
  <1> HIDE DEF msg
  <1>7. incoming' \in Seq(AnyMessage)
    <2>1. incoming \in Seq(AnyMessage)
      BY DEF IntentTypes
    <2>2. <<msg>> \in Seq(AnyMessage)
      BY <1>2
    <2> QED
      BY <1>4, <2>1, <2>2
  <1>8. /\ retainedOf' \in [Kinds -> AnyMessage \cup {Unset}]
        /\ \A j \in Kinds : retainedOf'[j] \in About(j) \cup {Unset}
    BY <1>2, <1>3, KindsAre DEF IntentTypes
  <1>9. talk' \in [Topics \cup {"fault"} -> Nat]
    BY <1>1 DEF IntentTypes
  <1> QED
    BY <1>5, <1>6, <1>6a, <1>7, <1>8, <1>9 DEF IntentTypes, engine, adopter

\* A call is a post on one topic.
LEMMA CallIs ==
  ASSUME Call
  PROVE  \E k \in Topics : \E v \in Said[k] : Post(k, v)
  BY KindsAre DEF Call

LEMMA MishapTypes ==
  ASSUME IntentTypes, Mishap
  PROVE  talk' \in [Topics \cup {"fault"} -> Nat] /\ \A k \in Topics : talk'[k] = talk[k]
  <1>1. talk["fault"] \in Nat /\ talk["fault"] > 0 /\ talk' = [talk EXCEPT !["fault"] = @ - 1]
    BY DEF Mishap, IntentTypes
  <1>2. "fault" \notin Topics
    BY KindsAre
  <1> QED
    BY <1>1, <1>2 DEF IntentTypes

\* BrokerTakes, with what the hub may have sent spelled out.
LEMMA BrokerTakesIs ==
  ASSUME IntentTypes, BrokerTakes
  PROVE  LET msg == Head(sending)
         IN  /\ sending # <<>> /\ sending' = Tail(sending) /\ sending' \in Seq(Status \cup {Subscription})
             /\ UNCHANGED <<engine, adopter, bootStage, talk, ghosts>>
             /\ \/ /\ msg = Subscription /\ listening' = TRUE /\ UNCHANGED retainedOf
                   /\ incoming' = incoming \o Retained({"status"})
                \/ /\ msg \in Status /\ UNCHANGED listening
                   /\ retainedOf' = [retainedOf EXCEPT !["status"] = msg]
                   /\ incoming' = incoming \o (IF listening THEN <<msg>> ELSE <<>>)
  <1> DEFINE msg == Head(sending)
  <1>1. /\ sending # <<>> /\ sending' = Tail(sending)
        /\ UNCHANGED <<engine, adopter, bootStage, talk, ghosts>>
    BY DEF BrokerTakes
  <1>2. sending' \in Seq(Status \cup {Subscription}) /\ msg \in Status \cup {Subscription}
    BY <1>1 DEF IntentTypes
  <1>3. Subscription.kind = "subscribe"
    BY DEF Subscription, Message
  <1>4. \A x \in Status : x.kind = "status"
    BY AboutIs DEF Status
  <1>5. CASE msg = Subscription
    BY <1>1, <1>2, <1>3, <1>5 DEF BrokerTakes, Deliver
  <1>6. CASE msg \in Status
    <2>1. msg.kind # "subscribe"
      BY <1>4, <1>6
    <2> QED
      BY <1>1, <1>2, <1>6, <2>1 DEF BrokerTakes, Deliver
  <1> QED
    BY <1>2, <1>5, <1>6

LEMMA BrokerTypes ==
  ASSUME IntentTypes, BrokerTakes
  PROVE  IntentTypes'
  <1> DEFINE msg == Head(sending)
  <1>1. /\ sending' \in Seq(Status \cup {Subscription})
        /\ UNCHANGED <<engine, adopter, bootStage, talk, ghosts>>
        /\ \/ /\ msg = Subscription /\ listening' = TRUE /\ UNCHANGED retainedOf
              /\ incoming' = incoming \o Retained({"status"})
           \/ /\ msg \in Status /\ UNCHANGED listening
              /\ retainedOf' = [retainedOf EXCEPT !["status"] = msg]
              /\ incoming' = incoming \o (IF listening THEN <<msg>> ELSE <<>>)
    BY BrokerTakesIs
  <1> HIDE DEF msg
  <1>2. Status \subseteq AnyMessage /\ {"status"} \subseteq Kinds
    BY AboutIs, KindsAre DEF Status
  <1>3. Retained({"status"}) \in Seq(AnyMessage)
    BY <1>2, RetainedIs
  <1>4. msg \in Status => <<msg>> \in Seq(AnyMessage)
    BY <1>2
  <1>5. <<>> \in Seq(AnyMessage)
    OBVIOUS
  <1>6. incoming' \in Seq(AnyMessage)
    <2>1. incoming \in Seq(AnyMessage)
      BY DEF IntentTypes
    <2>2. CASE incoming' = incoming \o Retained({"status"})
      <3> DEFINE more == Retained({"status"})
      <3> HIDE DEF more
      <3>1. more \in Seq(AnyMessage)
        BY <1>3 DEF more
      <3>2. incoming' = incoming \o more
        BY <2>2 DEF more
      <3> QED
        BY <2>1, <3>1, <3>2
    <2>3. CASE msg \in Status /\ incoming' = incoming \o (IF listening THEN <<msg>> ELSE <<>>)
      BY <1>4, <1>5, <2>1, <2>3
    <2> QED
      BY <1>1, <2>2, <2>3
  <1>7. /\ retainedOf' \in [Kinds -> AnyMessage \cup {Unset}]
        /\ \A j \in Kinds : retainedOf'[j] \in About(j) \cup {Unset}
    BY <1>1, <1>2 DEF IntentTypes, Status
  <1>8. listening' \in BOOLEAN
    BY <1>1 DEF IntentTypes
  <1> QED
    BY <1>1, <1>6, <1>7, <1>8 DEF IntentTypes, engine, adopter, ghosts

LEMMA FaultTypes ==
  ASSUME IntentTypes, Reconnect \/ Crash
  PROVE  IntentTypes'
  <1>1. CASE Reconnect
    <2>1. Kinds \in SUBSET Kinds /\ Kinds \ {"status"} \in SUBSET Kinds
      OBVIOUS
    <2>2. incoming' \in Seq(AnyMessage)
      BY <1>1, <2>1, RetainedIs DEF Reconnect
    <2>3. talk' \in [Topics \cup {"fault"} -> Nat]
      BY <1>1, MishapTypes DEF Reconnect
    <2>4. untimely' \in BOOLEAN
      BY <1>1 DEF Reconnect, IntentTypes
    <2>5. UNCHANGED <<engine, adopter, retainedOf, sending, bootStage, listening, asked, outrun, past, meant>>
      BY <1>1 DEF Reconnect
    <2>6. lost' \subseteq Lasting
      BY <1>1 DEF Reconnect, Displaced, IntentTypes
    <2> QED
      BY <2>2, <2>3, <2>4, <2>5, <2>6 DEF IntentTypes, engine, adopter
  <1>2. CASE Crash
    <2>1. talk' \in [Topics \cup {"fault"} -> Nat]
      BY <1>2, MishapTypes DEF Crash
    <2>2. untimely' \in BOOLEAN
      BY <1>2 DEF Crash, IntentTypes
    <2>3. cmds' \in Seq(Mutations) /\ Len(cmds') <= Cap /\ planIn' \in Inputs
      BY <1>2, EngineAssumption DEF Crash, EngineLost, Inputs, NoInputs
    <2>4. lastID' \in [DOMAIN NoIDs -> Nat]
      BY <1>2 DEF Crash, NoIDs
    <2>5. incoming' \in Seq(AnyMessage) /\ sending' \in Seq(Status \cup {Subscription})
      BY <1>2 DEF Crash
    <2>6. {dropped', urgent', looping', listening', csipSeen'} \subseteq BOOLEAN
      BY <1>2 DEF Crash, EngineLost
    <2>7. /\ bootStage' = "down" /\ mode' \in Modes /\ standing' = Unset /\ gen' = 0
          /\ timer' = Unset /\ fired' = {} /\ UNCHANGED <<retainedOf, asked, outrun, past, meant>>
      BY <1>2, IntentsAssumption DEF Crash
    <2>8. lost' \subseteq Lasting
      BY <1>2 DEF Crash, Displaced, IntentTypes
    <2> QED
      BY <2>1, <2>2, <2>3, <2>4, <2>5, <2>6, <2>7, <2>8 DEF IntentTypes
  <1> QED
    BY <1>1, <1>2

\* A departure that comes is that of a goal the hub would apply.
LEMMA DepartureIs ==
  ASSUME IntentTypes, DepartureComes
  PROVE  \E msg \in Told : /\ msg \in GoodGoal /\ past' = past \cup {msg.id}
                           /\ (bootStage = "down" \/ msg \in Among(incoming)) => lost' = lost \cup {"goal"}
                           /\ ~(bootStage = "down" \/ msg \in Among(incoming)) => lost' = lost
  <1>1. PICK msg \in {retainedOf["goal"]} \cup {incoming[i] : i \in 1..Len(incoming)} :
          /\ msg # Unset /\ Acceptable(msg) /\ msg.kind = "goal"
          /\ past' = past \cup {msg.id}
          /\ lost' = IF bootStage = "down" \/ \E i \in 1..Len(incoming) : incoming[i] = msg
                     THEN lost \cup {"goal"} ELSE lost
    BY DEF DepartureComes
  <1>2. msg \in Told /\ msg \in AnyMessage
    <2>1. msg = retainedOf["goal"] \/ msg \in Among(incoming)
      BY DEF Among
    <2>2. incoming \in Seq(AnyMessage) /\ "goal" \in Kinds
      BY KindsAre DEF IntentTypes
    <2>3. retainedOf["goal"] \in AnyMessage \cup {Unset} /\ Among(incoming) \subseteq AnyMessage
      BY <2>2, AmongType DEF IntentTypes
    <2> QED
      BY <1>1, <2>1, <2>2, <2>3 DEF Told
  <1>3. msg \in GoodGoal
    <2>1. msg \in Goal
      BY <1>1, <1>2, AboutIs, KindsAre DEF Goal
    <2> QED
      BY <1>1, <2>1 DEF Acceptable, GoodGoal
  <1>4. msg \in Among(incoming) <=> \E i \in 1..Len(incoming) : incoming[i] = msg
    BY DEF Among
  <1> QED
    BY <1>1, <1>2, <1>3, <1>4

LEMMA DepartureTypes ==
  ASSUME IntentTypes, DepartureComes
  PROVE  IntentTypes'
  <1>1. talk' \in [Topics \cup {"fault"} -> Nat]
    BY MishapTypes DEF DepartureComes
  <1>2. past' \subseteq Nat
    <2>1. PICK msg \in GoodGoal : past' = past \cup {msg.id}
      BY DepartureIs
    <2>2. msg.id \in Nat
      BY AboutIs, KindsAre DEF GoodGoal, Goal
    <2> QED
      BY <2>1, <2>2 DEF IntentTypes
  <1>3. lost' \subseteq Lasting
    BY DEF DepartureComes, IntentTypes, Lasting
  <1>4. UNCHANGED <<engine, adopter, broker, bootStage, listening, asked, untimely, outrun, meant>>
    BY DEF DepartureComes
  <1> QED
    BY <1>1, <1>2, <1>3, <1>4 DEF IntentTypes, engine, adopter, broker

LEMMA SendTypes ==
  ASSUME IntentTypes, NEW x \in Status \cup {Subscription}
  PROVE  sending \o <<x>> \in Seq(Status \cup {Subscription})
  BY DEF IntentTypes

LEMMA BootTypes ==
  ASSUME IntentTypes, BootHub
  PROVE  IntentTypes'
  <1>1. CASE SubscribeIntents
    <2>1. Kinds \ {"status"} \in SUBSET Kinds
      OBVIOUS
    <2>2. incoming' \in Seq(AnyMessage) /\ bootStage' = "intents"
      BY <1>1, <2>1, RetainedIs DEF SubscribeIntents
    <2>3. UNCHANGED <<engine, adopter, retainedOf, sending, listening, talk, ghosts>>
      BY <1>1 DEF SubscribeIntents
    <2> QED
      BY <2>2, <2>3 DEF IntentTypes, engine, adopter, ghosts
  <1>2. CASE SubscribeStatus
    <2>1. sending' \in Seq(Status \cup {Subscription}) /\ bootStage' = "status"
      BY <1>2, SendTypes DEF SubscribeStatus, SendToBroker, Subscription
    <2>2. UNCHANGED <<engine, adopter, retainedOf, incoming, listening, talk, ghosts>>
      BY <1>2 DEF SubscribeStatus
    <2> QED
      BY <2>1, <2>2 DEF IntentTypes, engine, adopter, ghosts
  <1>3. CASE StartEngine
    <2>1. EngineTypes
      BY DEF IntentTypes, EngineTypes
    <2>2. EngineTypes' /\ bootStage' = "started"
      BY <1>3, <2>1, EngineKeeps DEF StartEngine, EngineRuns
    <2>3. UNCHANGED <<adopter, broker, listening, talk, ghosts>>
      BY <1>3 DEF StartEngine
    <2> QED
      BY <2>2, <2>3 DEF IntentTypes, EngineTypes, adopter, broker, ghosts
  <1>4. CASE SealBoot
    <2>1. Message("status", 0, mode) \in Status
      BY AboutIs, KindsAre DEF IntentTypes, Status
    <2>2. sending' \in Seq(Status \cup {Subscription}) /\ bootStage' = "sealed"
      BY <1>4, <2>1, SendTypes DEF SealBoot, SendToBroker
    <2>3. outrun' \in BOOLEAN
      BY <1>4 DEF SealBoot, IntentTypes
    <2>4. UNCHANGED <<engine, adopter, retainedOf, incoming, listening, talk, asked, untimely,
                      past, meant, lost>>
      BY <1>4 DEF SealBoot
    <2> QED
      BY <2>2, <2>3, <2>4 DEF IntentTypes, engine, adopter
  <1> QED
    BY <1>1, <1>2, <1>3, <1>4 DEF BootHub

\* The commands the setters post.
LEMMA MutationIs ==
  /\ \A v \in EvGoals, how \in {"stated", "now"} : <<"goal", <<v, how>>>> \in Mutations
  /\ \A v \in {"csip", "openadr"} : <<"price", v>> \in Mutations
  /\ \A v \in Reserves : <<"reserve", v>> \in Mutations
  BY IntentsAssumption DEF Mutations

\* The types of what the handlers and the revert may change.
AdopterTypes ==
    /\ EngineTypes /\ mode \in Modes /\ standing \in EvGoals \cup {Unset}
    /\ gen \in Nat /\ timer \in Reversion \cup {Unset} /\ fired \subseteq Reversion
    /\ timer # Unset => timer.gen = gen /\ gen > 0
    /\ \A r \in fired : r.gen \in 1..gen
    /\ sending \in Seq(Status \cup {Subscription})

LEMMA AdopterTypesAre ==
  /\ IntentTypes => AdopterTypes
  /\ IntentTypes /\ UNCHANGED <<retainedOf, incoming, lastID, bootStage, listening, talk, csipSeen, ghosts>>
        /\ AdopterTypes' => IntentTypes'
  <1>1. IntentTypes => AdopterTypes
    BY DEF IntentTypes, AdopterTypes, EngineTypes
  <1>2. ASSUME IntentTypes, AdopterTypes',
               UNCHANGED <<retainedOf, incoming, lastID, bootStage, listening, talk, csipSeen, ghosts>>
        PROVE  IntentTypes'
    BY <1>2 DEF IntentTypes, AdopterTypes, EngineTypes, ghosts
  <1> QED
    BY <1>1, <1>2

\* A new generation is none of those that were armed before.
LEMMA GenerationGrows ==
  ASSUME AdopterTypes
  PROVE  gen + 1 \in Nat /\ gen + 1 > 0 /\ \A r \in fired : r.gen \in 1..(gen + 1) /\ r.gen # gen + 1
  BY DEF AdopterTypes

LEMMA HandledTypes ==
  ASSUME AdopterTypes, NEW m,
         \/ PriceHandled(m) \/ StatusHandled(m) \/ AgainHandled(m) \/ GoalHandled(m)
         \/ ChargeHandled(m) \/ ReserveHandled(m) \/ ModeHandled(m)
  PROVE  AdopterTypes'
  <1> USE DEF AdopterTypes
  <1>1. CASE PriceHandled(m)
    <2>1. m.val \in {"csip", "openadr"}
      BY <1>1, AboutIs, KindsAre DEF PriceHandled
    <2>2. EngineTypes'
      <3>1. CASE UNCHANGED engine
        BY <3>1, EngineKeeps DEF EngineRuns
      <3>2. CASE Set("price", m.val)
        BY <2>1, <3>2, SetPosts, MutationIs
      <3> QED
        BY <1>1, <3>1, <3>2 DEF PriceHandled
    <2> QED
      BY <1>1, <2>2 DEF PriceHandled
  <1>2. CASE StatusHandled(m)
    <2>1. m.val \in Modes
      BY <1>2, AboutIs, KindsAre DEF StatusHandled, Status
    <2>2. UNCHANGED <<engine, standing, gen, timer, fired, sending>> /\ mode' \in Modes
      BY <1>2, <2>1 DEF StatusHandled, OnModeStatus
    <2>3. EngineTypes'
      BY <2>2, EngineKeeps DEF EngineRuns
    <2> QED
      BY <2>2, <2>3
  <1>3. CASE AgainHandled(m)
    <2>1. UNCHANGED <<engine, mode, standing, gen, timer, fired, sending>>
      BY <1>3 DEF AgainHandled
    <2>2. EngineTypes'
      BY <2>1, EngineKeeps DEF EngineRuns
    <2> QED
      BY <2>1, <2>2
  <1>4. CASE GoalHandled(m)
    <2>1. CASE ~Acceptable(m)
      <3>1. UNCHANGED <<engine, mode, standing, gen, timer, fired, sending>>
        BY <1>4, <2>1 DEF GoalHandled, ApplyEVGoal
      <3>2. EngineTypes'
        BY <3>1, EngineKeeps DEF EngineRuns
      <3> QED
        BY <3>1, <3>2
    <2>2. CASE Acceptable(m)
      <3>1. m.val \in EvGoals
        BY <1>4, <2>2, AboutIs, KindsAre DEF GoalHandled, Goal, Acceptable
      <3>2. /\ Set("goal", <<m.val, "stated">>) /\ standing' = m.val /\ gen' = gen + 1
            /\ timer' = Unset /\ UNCHANGED <<mode, fired, sending>>
        BY <1>4, <2>2 DEF GoalHandled, ApplyEVGoal, Supersede
      <3>3. EngineTypes'
        BY <3>1, <3>2, SetPosts, MutationIs
      <3> QED
        BY <3>1, <3>2, <3>3, GenerationGrows
    <2> QED
      BY <2>1, <2>2
  <1>5. CASE ChargeHandled(m)
    <2>1. CASE m.val = Bad \/ standing = Unset
      <3>1. UNCHANGED <<engine, mode, standing, gen, timer, fired, sending>>
        BY <1>5, <2>1 DEF ChargeHandled, ApplyChargeNow
      <3>2. EngineTypes'
        BY <3>1, EngineKeeps DEF EngineRuns
      <3> QED
        BY <3>1, <3>2
    <2>2. CASE ~(m.val = Bad \/ standing = Unset)
      <3>1. /\ Set("goal", <<standing, "now">>) /\ gen' = gen + 1
            /\ timer' = [gen |-> gen + 1, goal |-> standing]
            /\ UNCHANGED <<mode, standing, fired, sending>>
        BY <1>5, <2>2 DEF ChargeHandled, ApplyChargeNow
      <3>2. standing \in EvGoals
        BY <2>2
      <3>3. EngineTypes'
        BY <3>1, <3>2, SetPosts, MutationIs
      <3>4. timer' \in Reversion /\ timer'.gen = gen'
        BY <3>1, <3>2 DEF Reversion
      <3> QED
        BY <3>1, <3>3, <3>4, GenerationGrows
    <2> QED
      BY <2>1, <2>2
  <1>6. CASE ReserveHandled(m)
    <2>1. Acceptable(m) => m.val \in Reserves
      BY <1>6, AboutIs, KindsAre DEF ReserveHandled, Acceptable
    <2>2. /\ UNCHANGED <<mode, standing, gen, timer, fired, sending>>
          /\ (Acceptable(m) /\ Set("reserve", m.val)) \/ UNCHANGED engine
      BY <1>6 DEF ReserveHandled, ApplyReserve
    <2>3. EngineTypes'
      <3>1. CASE UNCHANGED engine
        BY <3>1, EngineKeeps DEF EngineRuns
      <3>2. CASE Acceptable(m) /\ Set("reserve", m.val)
        BY <2>1, <3>2, SetPosts, MutationIs
      <3> QED
        BY <2>2, <3>1, <3>2
    <2> QED
      BY <2>2, <2>3
  <1>7. CASE ModeHandled(m)
    <2>1. CASE m.val \notin Modes \/ m.val = mode
      <3>1. UNCHANGED <<engine, mode, standing, gen, timer, fired, sending>>
        BY <1>7, <2>1 DEF ModeHandled, ApplyMode
      <3>2. EngineTypes'
        BY <3>1, EngineKeeps DEF EngineRuns
      <3> QED
        BY <3>1, <3>2
    <2>2. CASE ~(m.val \notin Modes \/ m.val = mode)
      <3>1. /\ mode' = m.val /\ Wake /\ sending' = sending \o <<Message("status", m.id, m.val)>>
            /\ UNCHANGED <<standing, gen, timer, fired>>
        BY <1>7, <2>2 DEF ModeHandled, ApplyMode, SendToBroker
      <3>2. EngineTypes'
        BY <3>1, EngineKeeps DEF EngineRuns
      <3>3. m.id \in Nat /\ m.val \in Modes
        BY <1>7, <2>2, AboutIs, KindsAre DEF ModeHandled
      <3>4. Message("status", m.id, m.val) \in Status
        BY <3>3, AboutIs, KindsAre DEF Status
      <3>5. sending' \in Seq(Status \cup {Subscription})
        BY <3>1, <3>4
      <3> QED
        BY <3>1, <3>2, <3>3, <3>5
    <2> QED
      BY <2>1, <2>2
  <1> QED
    BY <1>1, <1>2, <1>3, <1>4, <1>5, <1>6, <1>7

LEMMA HandleTypes ==
  ASSUME IntentTypes, Handle
  PROVE  IntentTypes'
  <1> DEFINE m == Head(incoming)
  <1>1. /\ m \in AnyMessage /\ incoming # <<>> /\ incoming' = Tail(incoming)
        /\ UNCHANGED <<retainedOf, bootStage, listening, talk, ghosts>>
        /\ \/ PriceHandled(m) \/ StatusHandled(m) \/ AgainHandled(m) \/ GoalHandled(m)
           \/ ChargeHandled(m) \/ ReserveHandled(m) \/ ModeHandled(m)
    BY HandleCases
  <1>2. incoming' \in Seq(AnyMessage)
    BY <1>1 DEF IntentTypes
  <1> HIDE DEF m
  <1>3. AdopterTypes'
    BY <1>1, HandledTypes, AdopterTypesAre
  <1>4. m.id \in Nat
    BY <1>1, AnyIs, AboutIs
  <1>5. lastID' \in [DOMAIN NoIDs -> Nat] /\ csipSeen' \in BOOLEAN
    BY <1>1, <1>4 DEF IntentTypes, PriceHandled, StatusHandled, OnModeStatus, AgainHandled, GoalHandled,
       ChargeHandled, ReserveHandled, ModeHandled, Adopted
  <1> QED
    BY <1>1, <1>2, <1>3, <1>5 DEF IntentTypes, AdopterTypes, EngineTypes, ghosts

LEMMA TimerTypes ==
  ASSUME IntentTypes, TimerFires \/ \E r \in fired : Revert(r)
  PROVE  IntentTypes'
  <1>1. CASE TimerFires
    <2>1. /\ timer # Unset /\ timer' = Unset /\ fired' = fired \cup {timer}
          /\ UNCHANGED <<engine, mode, lastID, csipSeen, standing, gen, broker, bootStage, listening, talk, ghosts>>
      BY <1>1 DEF TimerFires
    <2>2. timer \in Reversion /\ timer.gen = gen
      BY <2>1 DEF IntentTypes
    <2>3. gen \in 1..gen
      BY <2>1 DEF IntentTypes
    <2> QED
      BY <2>1, <2>2, <2>3 DEF IntentTypes, engine, broker, ghosts
  <1>2. ASSUME NEW r \in fired, Revert(r)
        PROVE  IntentTypes'
    <2>1. /\ fired' = fired \ {r}
          /\ UNCHANGED <<mode, lastID, csipSeen, standing, gen, timer, broker, bootStage, listening, talk, ghosts>>
          /\ Set("goal", <<r.goal, "stated">>) \/ UNCHANGED engine
      BY <1>2 DEF Revert
    <2>2. r.goal \in EvGoals
      BY DEF IntentTypes, Reversion
    <2>3. EngineTypes'
      <3>1. EngineTypes
        BY DEF EngineTypes, IntentTypes
      <3>2. CASE Set("goal", <<r.goal, "stated">>)
        BY <2>2, <3>1, <3>2, SetPosts, MutationIs
      <3>3. CASE UNCHANGED engine
        BY <3>1, <3>3, EngineKeeps DEF EngineRuns
      <3> QED
        BY <2>1, <3>2, <3>3
    <2> QED
      BY <2>1, <2>3 DEF IntentTypes, EngineTypes, broker, ghosts
  <1> QED
    BY <1>1, <1>2

\* The engine's own steps: they touch nothing of what the hub was told.
EngineSteps == ControlTick \/ ProtectionTick \/ PlannerStarts \/ PlannerStores

\* The loops leave the rest of the hub alone.
LEMMA EngineStepsRun ==
  ASSUME EngineSteps
  PROVE  EngineRuns /\ UNCHANGED HubRest
  BY DEF EngineSteps, EngineRuns, ControlTick, ProtectionTick, PlannerStarts, PlannerStores

LEMMA EngineStepTypes ==
  ASSUME IntentTypes, EngineSteps
  PROVE  IntentTypes'
  <1>1. EngineTypes
    BY DEF IntentTypes, EngineTypes
  <1>2. EngineTypes' /\ UNCHANGED HubRest
    BY <1>1, EngineStepsRun, EngineKeeps
  <1> QED
    BY <1>2 DEF IntentTypes, EngineTypes, HubRest, adopter, broker, ghosts

LEMMA IntentTypesStep ==
  ASSUME IntentTypes, [NextIntents]_intentsVars
  PROVE  IntentTypes'
  <1>1. CASE Call
    BY <1>1, CallIs, CallTypes
  <1>2. CASE UNCHANGED intentsVars
    BY <1>2 DEF IntentTypes, intentsVars, engine, adopter, broker, ghosts
  <1>3. CASE EngineSteps
    BY <1>3, EngineStepTypes
  <1> QED
    BY <1>1, <1>2, <1>3, BrokerTypes, FaultTypes, DepartureTypes, BootTypes, HandleTypes, TimerTypes
       DEF NextIntents, Reverts, EngineSteps

\* The state of the hub's inputs keeps its type: the mode is one an author has,
\* the queue of mutations its bound, the reverts the generations there were.
THEOREM IntentsTypeCorrect == SpecIntents => []TypeOKIntents
  <1>1. InitIntents => IntentTypes
    BY IntentTypesStart
  <1>2. IntentTypes /\ [NextIntents]_intentsVars => IntentTypes'
    BY IntentTypesStep
  <1>3. IntentTypes => TypeOKIntents
    <2> SUFFICES ASSUME IntentTypes PROVE TypeOKIntents
      OBVIOUS
    <2>1. cmds \in Seq(({"goal"} \X Goals) \cup ({"price"} \X PriceKinds) \cup ({"reserve"} \X Reserves))
      BY DEF IntentTypes, Mutations
    <2>2. TypeOKEngine
      BY <2>1 DEF IntentTypes, TypeOKEngine, Inputs
    <2>3. {r.gen : r \in fired} \subseteq 1..gen
      BY DEF IntentTypes
    <2> QED
      BY <2>2, <2>3 DEF IntentTypes, TypeOKIntents
  <1> QED
    BY <1>1, <1>2, <1>3, PTL DEF SpecIntents

-----------------------------------------------------------------------------
(* What is told, and its ids.                                              *)

\* The subjects whose ids matter.
Subjects == {"goal", "mode"}

\* All but a call tell nothing new, and say nothing of the subjects but what
\* the broker retains.
LEMMA NothingNew ==
  ASSUME IntentTypes, [NextIntents]_intentsVars, ~Call
  PROVE  /\ \A k \in Subjects : talk'[k] = talk[k] /\ retainedOf'[k] = retainedOf[k]
         /\ \A k \in Subjects : Told' \cap About(k) \subseteq Told \cap About(k)
  <1>0. /\ Subjects \subseteq Topics /\ Subjects \subseteq Kinds /\ "status" \in Kinds /\ "status" \notin Subjects
        /\ {"status"} \in SUBSET Kinds /\ Kinds \in SUBSET Kinds /\ Kinds \ {"status"} \in SUBSET Kinds
    BY KindsAre DEF Subjects
  <1>1. CASE UNCHANGED <<incoming, retainedOf, talk>>
    BY <1>1 DEF Told
  <1>2. CASE BrokerTakes
    <2> DEFINE msg == Head(sending)
    <2>1. /\ UNCHANGED talk
          /\ \/ /\ UNCHANGED retainedOf /\ incoming' = incoming \o Retained({"status"})
             \/ /\ msg \in Status /\ retainedOf' = [retainedOf EXCEPT !["status"] = msg]
                /\ incoming' = incoming \o (IF listening THEN <<msg>> ELSE <<>>)
      BY <1>2, BrokerTakesIs
    <2> HIDE DEF msg
    <2>2. incoming \in Seq(AnyMessage) /\ <<>> \in Seq(AnyMessage)
      BY DEF IntentTypes
    <2>3. CASE UNCHANGED retainedOf /\ incoming' = incoming \o Retained({"status"})
      <3>1. Among(incoming') = Among(incoming) \cup Among(Retained({"status"}))
        <4> DEFINE more == Retained({"status"})
        <4>1. more \in Seq(AnyMessage)
          BY <1>0, RetainedIs
        <4> HIDE DEF more
        <4>2. Among(incoming \o more) = Among(incoming) \cup Among(more)
          BY <2>2, <4>1, JoinIs
        <4> QED
          BY <2>3, <4>2 DEF more
      <3>2. Among(Retained({"status"})) \subseteq Told
        BY <1>0, RetainedIs DEF Told
      <3>3. Told' \subseteq Told
        BY <2>3, <3>1, <3>2 DEF Told
      <3> QED
        BY <2>1, <2>3, <3>3
    <2>4. CASE /\ msg \in Status /\ retainedOf' = [retainedOf EXCEPT !["status"] = msg]
               /\ incoming' = incoming \o (IF listening THEN <<msg>> ELSE <<>>)
      <3>1. msg \in AnyMessage /\ msg.kind = "status"
        BY <2>4, AboutIs DEF Status
      <3>2. <<msg>> \in Seq(AnyMessage)
        BY <3>1
      <3>3. Among(incoming') \subseteq Among(incoming) \cup {msg}
        <4>1. Among(incoming \o <<msg>>) = Among(incoming) \cup Among(<<msg>>)
          BY <2>2, <3>2, JoinIs
        <4>2. Among(incoming \o <<>>) = Among(incoming) \cup Among(<<>>)
          BY <2>2, JoinIs
        <4> QED
          BY <2>4, <4>1, <4>2, AmongFew
      <3>4. \A k \in Kinds : retainedOf'[k] = retainedOf[k] \/ retainedOf'[k] = msg
        BY <1>0, <2>4 DEF IntentTypes
      <3>5. Told' \subseteq Told \cup {msg}
        BY <3>3, <3>4 DEF Told
      <3>6. \A k \in Subjects : msg \notin About(k)
        BY <1>0, <3>1, AboutIs
      <3>7. \A k \in Subjects : retainedOf'[k] = retainedOf[k]
        BY <1>0, <2>4 DEF IntentTypes
      <3> QED
        BY <2>1, <3>5, <3>6, <3>7
    <2> QED
      BY <2>1, <2>3, <2>4
  <1>3. CASE Reconnect
    <2>1. \E K \in SUBSET Kinds : incoming' = Retained(K)
      BY <1>0, <1>3 DEF Reconnect
    <2>2. Among(incoming') \subseteq Told
      BY <2>1, RetainedIs DEF Told
    <2>3. UNCHANGED retainedOf /\ \A k \in Topics : talk'[k] = talk[k]
      BY <1>3, MishapTypes DEF Reconnect
    <2> QED
      BY <1>0, <2>2, <2>3 DEF Told
  <1>4. CASE Crash
    <2>1. Among(incoming') = {}
      BY <1>4, AmongFew DEF Crash
    <2>2. UNCHANGED retainedOf /\ \A k \in Topics : talk'[k] = talk[k]
      BY <1>4, MishapTypes DEF Crash
    <2> QED
      BY <1>0, <2>1, <2>2 DEF Told
  <1>5. CASE SubscribeIntents
    <2>1. Among(incoming') \subseteq Told
      BY <1>0, <1>5, RetainedIs DEF SubscribeIntents, Told
    <2>2. UNCHANGED <<retainedOf, talk>>
      BY <1>5 DEF SubscribeIntents
    <2> QED
      BY <2>1, <2>2 DEF Told
  <1>6. CASE Handle
    <2>1. incoming # <<>> /\ incoming' = Tail(incoming) /\ UNCHANGED <<retainedOf, talk>>
      BY <1>6, HandleCases
    <2>2. Among(incoming') \subseteq Among(incoming)
      BY <2>1, TailIs DEF IntentTypes
    <2> QED
      BY <2>1, <2>2 DEF Told
  <1>7. CASE DepartureComes
    <2>1. UNCHANGED <<retainedOf, incoming>> /\ \A k \in Topics : talk'[k] = talk[k]
      BY <1>7, MishapTypes DEF DepartureComes, broker
    <2> QED
      BY <1>0, <2>1 DEF Told
  <1> QED
    BY <1>1, <1>2, <1>3, <1>4, <1>5, <1>6, <1>7 DEF NextIntents, intentsVars, broker, BootHub,
       SubscribeStatus, StartEngine, SealBoot, TimerFires, Reverts, Revert, ControlTick, ProtectionTick,
       PlannerStarts, PlannerStores, HubRest

\* A call tells one thing, under an id that was never used.
LEMMA OneIsNew ==
  ASSUME IntentTypes, NEW k \in Topics, NEW v \in Said[k], Post(k, v)
  PROVE  LET msg == Message(k, talk[k], v)
         IN  /\ msg \in About(k) /\ msg.id = talk[k] /\ msg.val = v /\ msg.kind = k
             /\ talk[k] > 0
             /\ \A j \in Topics : talk'[j] \in Nat /\ talk[j] \in Nat
                                  /\ talk'[j] = IF j = k THEN talk[k] - 1 ELSE talk[j]
             /\ Told' \subseteq Told \cup {msg}
             /\ incoming \in Seq(AnyMessage) /\ <<msg>> \in Seq(AnyMessage)
             /\ IF bootStage = "down" THEN UNCHANGED incoming ELSE incoming' = incoming \o <<msg>>
             /\ \A j \in Kinds : retainedOf'[j] = IF j = k THEN msg ELSE retainedOf[j]
             /\ UNCHANGED <<engine, adopter, sending, bootStage, listening>>
  <1> DEFINE msg == Message(k, talk[k], v)
  <1>1. talk[k] \in Nat /\ talk[k] > 0 /\ talk' = [talk EXCEPT ![k] = @ - 1]
    BY DEF Post, IntentTypes
  <1>2. msg \in About(k) /\ msg \in AnyMessage /\ msg.id = talk[k] /\ msg.val = v /\ msg.kind = k
    BY <1>1, AboutIs DEF Message
  <1>3. retainedOf' = IF k = "charge" THEN retainedOf ELSE [retainedOf EXCEPT ![k] = msg]
    BY DEF Post
  <1>4. /\ IF bootStage = "down" THEN UNCHANGED incoming ELSE incoming' = incoming \o <<msg>>
        /\ UNCHANGED <<engine, adopter, sending, bootStage, listening>>
    BY DEF Post, Deliver
  <1> HIDE DEF msg
  <1>5. incoming \in Seq(AnyMessage) /\ <<msg>> \in Seq(AnyMessage)
    BY <1>2 DEF IntentTypes
  <1>6. \A j \in Kinds : retainedOf'[j] = IF j = k THEN msg ELSE retainedOf[j]
    BY <1>3, KindsAre DEF IntentTypes
  <1>7. Among(incoming') \subseteq Among(incoming) \cup {msg}
    <2>1. Among(incoming \o <<msg>>) = Among(incoming) \cup Among(<<msg>>)
      BY <1>5, JoinIs
    <2> QED
      BY <1>4, <2>1, AmongFew
  <1>8. Told' \subseteq Told \cup {msg}
    BY <1>6, <1>7 DEF Told
  <1>9. \A j \in Topics : talk'[j] \in Nat /\ talk[j] \in Nat
                          /\ talk'[j] = IF j = k THEN talk[k] - 1 ELSE talk[j]
    BY <1>1 DEF IntentTypes
  <1> QED
    BY <1>1, <1>2, <1>4, <1>5, <1>6, <1>8, <1>9 DEF msg

\* What was handled last: as before, nothing since the start, or the head.
LEMMA LastIDs ==
  ASSUME IntentTypes, [NextIntents]_intentsVars, NEW k \in Subjects
  PROVE  \/ lastID'[k] = lastID[k]
         \/ Crash /\ lastID'[k] = 0
         \/ Handle /\ Head(incoming) \in About(k) /\ lastID'[k] = Head(incoming).id
  <1>1. CASE Handle
    <2> DEFINE m == Head(incoming)
    <2>1. /\ m \in AnyMessage
          /\ \/ UNCHANGED lastID
             \/ m.kind \in DOMAIN NoIDs /\ lastID' = [lastID EXCEPT ![m.kind] = m.id]
      BY <1>1, HandleCases DEF PriceHandled, StatusHandled, OnModeStatus, AgainHandled, GoalHandled,
         ChargeHandled, ReserveHandled, ModeHandled, Adopted
    <2> HIDE DEF m
    <2>2. k \in DOMAIN NoIDs /\ (m.kind = k => m \in About(k))
      BY <2>1, AnyIs, KindsAre DEF Subjects
    <2> QED
      BY <1>1, <2>1, <2>2 DEF IntentTypes, m
  <1>2. CASE Crash
    BY <1>2, KindsAre DEF Crash, NoIDs, Subjects
  <1>3. CASE Call
    BY <1>3, CallIs DEF Post, adopter
  <1>4. CASE UNCHANGED lastID
    BY <1>4
  <1> QED
    BY <1>1, <1>2, <1>3, <1>4 DEF NextIntents, intentsVars, adopter, DepartureComes, BrokerTakes, Reconnect, BootHub,
       SubscribeIntents, SubscribeStatus, StartEngine, SealBoot, TimerFires, Reverts, Revert, ControlTick,
       ProtectionTick, PlannerStarts, PlannerStores, HubRest

\* Ids stay unique: they are counted down, and none comes of nothing.
LEMMA NumberedStep ==
  ASSUME IntentTypes, [NextIntents]_intentsVars, NEW k \in Subjects, Numbered(k)
  PROVE  Numbered(k)'
  <1>0. k \in Topics /\ k \in Kinds /\ k \in DOMAIN NoIDs
    BY KindsAre DEF Subjects
  <1>1. CASE ~Call
    <2>1. talk'[k] = talk[k] /\ Told' \cap About(k) \subseteq Told \cap About(k)
      BY <1>1, NothingNew
    <2>2. Handle => Head(incoming) \in Told
      BY HandleCases
    <2>3. lastID'[k] = 0 \/ lastID'[k] > talk'[k]
      BY <2>1, <2>2, LastIDs DEF Numbered
    <2> QED
      BY <2>1, <2>3 DEF Numbered
  <1>2. CASE Call
    <2>1. PICK j \in Topics : \E v \in Said[j] : Post(j, v)
      BY <1>2, CallIs
    <2>1a. PICK v \in Said[j] : Post(j, v)
      BY <2>1
    <2> DEFINE msg == Message(j, talk[j], v)
    <2>2. /\ msg \in About(j) /\ msg.id = talk[j] /\ msg.kind = j /\ talk[j] > 0
          /\ \A i \in Topics : talk'[i] \in Nat /\ talk[i] \in Nat
                               /\ talk'[i] = IF i = j THEN talk[j] - 1 ELSE talk[i]
          /\ Told' \subseteq Told \cup {msg} /\ lastID' = lastID
      BY <2>1a, OneIsNew DEF adopter
    <2> HIDE DEF msg
    <2>3. CASE j # k
      <3>1. msg \notin About(k)
        BY <1>0, <2>2, <2>3, AboutIs
      <3> QED
        BY <1>0, <2>2, <2>3, <3>1 DEF Numbered
    <2>4. CASE j = k
      <3>1. \A x \in About(k) : x.id \in Nat
        BY <1>0, AboutIs
      <3>2. lastID[k] \in Nat
        BY <1>0 DEF IntentTypes
      <3>3. \A x \in Told' \cap About(k) : x.id > talk'[k]
        BY <1>0, <2>2, <2>4, <3>1 DEF Numbered
      <3>4. \A x, y \in Told' \cap About(k) : x.id = y.id => x = y
        BY <1>0, <2>2, <2>4, <3>1 DEF Numbered
      <3>5. lastID'[k] = 0 \/ lastID'[k] > talk'[k]
        BY <1>0, <2>2, <2>4, <3>2 DEF Numbered
      <3> QED
        BY <3>3, <3>4, <3>5 DEF Numbered
    <2> QED
      BY <2>3, <2>4
  <1> QED
    BY <1>1, <1>2

-----------------------------------------------------------------------------
(* The goal arrives.                                                       *)

\* A status is not about what the user said.
LEMMA StatusesAside ==
  ASSUME IntentTypes, NEW k \in Subjects
  PROVE  /\ About(k) \cap Status = {}
         /\ Among(Retained({"status"})) \cap About(k) = {}
         /\ Retained({"status"}) \in Seq(AnyMessage)
  <1>1. {"status"} \in SUBSET Kinds /\ "status" \in Kinds /\ k \in Topics /\ k # "status"
    BY KindsAre DEF Subjects
  <1>2. About(k) \cap Status = {}
    BY <1>1, AboutIs DEF Status
  <1>3. Among(Retained({"status"})) = {retainedOf["status"]} \ {Unset}
        /\ Retained({"status"}) \in Seq(AnyMessage)
    BY <1>1, RetainedIs
  <1>4. retainedOf["status"] \in Status \cup {Unset}
    BY <1>1 DEF IntentTypes, Status
  <1> QED
    BY <1>2, <1>3, <1>4

\* What the broker takes leaves the subjects as they are.
LEMMA BrokerLeaves ==
  ASSUME IntentTypes, BrokerTakes, NEW k \in Subjects, NEW S, S \subseteq About(k), NEW v0, NEW v,
         Leaves(incoming, S, v0, v)
  PROVE  Leaves(incoming', S, v0, v)
  <1> DEFINE msg == Head(sending)
  <1>1. \/ incoming' = incoming \o Retained({"status"})
        \/ msg \in Status /\ incoming' = incoming \o (IF listening THEN <<msg>> ELSE <<>>)
    BY BrokerTakesIs
  <1> HIDE DEF msg
  <1>2. incoming \in Seq(AnyMessage) /\ <<>> \in Seq(AnyMessage)
    BY DEF IntentTypes
  <1>3. CASE incoming' = incoming \o Retained({"status"})
    <2> DEFINE more == Retained({"status"})
    <2>1. more \in Seq(AnyMessage) /\ Among(more) \cap S = {}
      BY StatusesAside
    <2> HIDE DEF more
    <2>2. Leaves(incoming \o more, S, v0, v)
      BY <1>2, <2>1, LeavesMore
    <2> QED
      BY <1>3, <2>2 DEF more
  <1>4. CASE msg \in Status /\ incoming' = incoming \o (IF listening THEN <<msg>> ELSE <<>>)
    <2>1. msg \in AnyMessage /\ msg \notin S
      BY <1>4, StatusesAside, AboutIs DEF Status
    <2>2. <<msg>> \in Seq(AnyMessage) /\ Among(<<msg>>) \cap S = {} /\ Among(<<>>) \cap S = {}
      BY <2>1, AmongFew
    <2>3. Leaves(incoming \o <<msg>>, S, v0, v)
      BY <1>2, <2>2, LeavesMore
    <2>4. Leaves(incoming \o <<>>, S, v0, v)
      BY <1>2, <2>2, LeavesMore
    <2> QED
      BY <1>4, <2>3, <2>4
  <1> QED
    BY <1>1, <1>3, <1>4

GoalEffect(m) ==
    \/ /\ m \in GoodGoal /\ lastID'["goal"] = m.id
       /\ standing' = m.val \/ (m.id = lastID["goal"] /\ standing' = standing)
    \/ m \in Goal \ GoodGoal /\ lastID'["goal"] = m.id /\ standing' = standing
    \/ m \notin Goal /\ lastID'["goal"] = lastID["goal"] /\ standing' = standing

\* The good goals are those the handler would apply.
LEMMA GoodIs ==
  ASSUME NEW x \in AnyMessage
  PROVE  x \in GoodGoal <=> x.kind = "goal" /\ Acceptable(x)
  <1>1. x \in Goal <=> x.kind = "goal"
    BY AnyIs, AboutIs, KindsAre DEF Goal
  <1> QED
    BY <1>1 DEF GoodGoal, Acceptable

\* That is what handling does.
LEMMA GoalOfHead ==
  ASSUME IntentTypes, Handle
  PROVE  GoalEffect(Head(incoming))
  <1> DEFINE m == Head(incoming)
  <1>1. /\ m \in AnyMessage
        /\ \/ PriceHandled(m) \/ StatusHandled(m) \/ AgainHandled(m) \/ GoalHandled(m)
           \/ ChargeHandled(m) \/ ReserveHandled(m) \/ ModeHandled(m)
    BY HandleCases
  <1> SUFFICES GoalEffect(m)
    OBVIOUS
  <1> HIDE DEF m
  <1>2. \A k \in Topics \cup {"status"} : \A x \in About(k) : x.kind = k
    BY AboutIs
  <1>3. m.kind = "goal" <=> m \in Goal
    BY <1>1, <1>2, AnyIs, KindsAre DEF Goal
  <1>4. lastID \in [{"goal", "reserve", "charge", "mode"} -> Nat]
    BY KindsAre DEF IntentTypes
  <1>5. CASE PriceHandled(m) \/ StatusHandled(m)
    BY <1>2, <1>3, KindsAre, <1>5 DEF GoalEffect, PriceHandled, StatusHandled, OnModeStatus, Status
  <1>6. CASE AgainHandled(m)
    BY <1>3, <1>4, <1>6 DEF GoalEffect, AgainHandled, Adopted
  <1>7. CASE GoalHandled(m)
    <2>1. m \in GoodGoal <=> Acceptable(m)
      BY <1>1, <1>3, <1>7, GoodIs DEF GoalHandled
    <2> QED
      BY <1>3, <1>4, <1>7, <2>1 DEF GoalEffect, GoalHandled, Adopted, ApplyEVGoal
  <1>8. CASE ChargeHandled(m)
    BY <1>2, <1>3, KindsAre, <1>4, <1>8 DEF GoalEffect, ChargeHandled, Adopted, ApplyChargeNow
  <1>9. CASE ReserveHandled(m)
    BY <1>2, <1>3, KindsAre, <1>4, <1>9 DEF GoalEffect, ReserveHandled, Adopted, ApplyReserve
  <1>10. CASE ModeHandled(m)
    BY <1>2, <1>3, KindsAre, <1>4, <1>10 DEF GoalEffect, ModeHandled, Adopted, ApplyMode
  <1> QED
    BY <1>1, <1>5, <1>6, <1>7, <1>8, <1>9, <1>10

\* What is meant stays as it is but for a call, what is lost but for a fault too.
LEMMA StatedKept ==
  ASSUME IntentTypes, [NextIntents]_intentsVars
  PROVE  /\ DepartureComes \/ past' = past
         /\ Call \/ meant' = meant
         /\ \/ Call \/ DepartureComes \/ Reconnect \/ Crash
            \/ lost' = lost
  <1>1. CASE Call
    <2>1. PICK k \in Topics : \E v \in Said[k] : Post(k, v)
      BY <1>1, CallIs
    <2> QED
      BY <1>1, <2>1 DEF Post
  <1>2. CASE EngineSteps
    BY <1>2, EngineStepsRun DEF HubRest, ghosts
  <1>3. CASE UNCHANGED ghosts
    BY <1>3 DEF ghosts
  <1>4. CASE DepartureComes \/ Reconnect \/ Crash \/ SealBoot
    BY <1>4 DEF DepartureComes, Reconnect, Crash, SealBoot
  <1> QED
    BY <1>1, <1>2, <1>3, <1>4 DEF NextIntents, EngineSteps, intentsVars, BrokerTakes, BootHub,
       SubscribeIntents, SubscribeStatus, StartEngine, Handle, TimerFires, Reverts, Revert

\* A sequence leaves the same of two sets that have the same messages of it.
LEMMA LeavesAlike ==
  ASSUME NEW s, NEW S, NEW U, Among(s) \cap S = Among(s) \cap U, NEW v0, NEW v, Leaves(s, S, v0, v)
  PROVE  Leaves(s, U, v0, v)
  <1>1. \A i \in 1..Len(s) : s[i] \in S <=> s[i] \in U
    BY DEF Among
  <1>2. CASE Among(s) \cap S = {} /\ v0 = v
    BY <1>2 DEF Leaves
  <1>3. CASE \E i \in 1..Len(s) : /\ s[i] \in S /\ s[i].val = v
                                  /\ \A j \in 1..Len(s) : j > i => s[j] \notin S
    BY <1>1, <1>3 DEF Leaves
  <1> QED
    BY <1>2, <1>3 DEF Leaves

\* What a subscription brings of the goals is the retained one, if it is good.
LEMMA RetainedGood ==
  ASSUME IntentTypes, NEW K \in SUBSET Kinds, "goal" \in K, NEW v0, NEW v,
         IF retainedOf["goal"] \in GoodGoal THEN retainedOf["goal"].val = v ELSE v0 = v
  PROVE  Leaves(Retained(K), GoodGoal, v0, v)
  <1> DEFINE s == Retained(K)
  <1>1. s \in Seq(AnyMessage) /\ Among(s) = {retainedOf[j] : j \in K} \ {Unset}
    BY RetainedIs
  <1>2. \A j \in Kinds : j \in Topics \cup {"status"} /\ retainedOf[j] \in About(j) \cup {Unset}
    BY KindsAre DEF IntentTypes
  <1>3. \A j \in K : retainedOf[j] # Unset => retainedOf[j].kind = j
    BY <1>2, AboutIs
  <1>4. \A x \in GoodGoal : x.kind = "goal" /\ x # Unset
    BY AboutIs, KindsAre, UnsetIsNoMessage DEF GoodGoal, Goal
  <1> HIDE DEF s
  <1>5. \A x \in Among(s) \cap GoodGoal : x = retainedOf["goal"]
    BY <1>1, <1>3, <1>4
  <1>6. retainedOf["goal"] \in GoodGoal => retainedOf["goal"] \in Among(s) \cap GoodGoal
    BY <1>1, <1>4
  <1>7. Leaves(s, GoodGoal, v0, v)
    <2>1. \A x \in Among(s) \cap GoodGoal : x.val = v
      BY <1>5
    <2>2. v0 = v \/ Among(s) \cap GoodGoal # {}
      BY <1>6
    <2> QED
      BY <1>1, <2>1, <2>2, LeavesSame
  <1> QED
    BY <1>7 DEF s

\* What a call means for the goal.
LEMMA CallArrives ==
  ASSUME IntentTypes, Numbered("goal"), Subscribing, GoalArrives, Call
  PROVE  GoalArrives'
  <1>0. "goal" \in Kinds /\ "goal" \in Topics /\ incoming \in Seq(AnyMessage) /\ "goal" \in Lasting
    BY KindsAre DEF IntentTypes, Lasting
  <1>1. PICK j \in Topics : \E v \in Said[j] : Post(j, v)
    BY CallIs
  <1>2. PICK v \in Said[j] : Post(j, v)
    BY <1>1
  <1> DEFINE msg == Message(j, talk[j], v)
  <1>3. /\ msg \in About(j) /\ msg.id = talk[j] /\ msg.val = v /\ msg.kind = j /\ talk[j] > 0 /\ talk[j] \in Nat
        /\ Told' \subseteq Told \cup {msg} /\ <<msg>> \in Seq(AnyMessage)
        /\ talk["goal"] \in Nat /\ talk'["goal"] = IF "goal" = j THEN talk[j] - 1 ELSE talk["goal"]
        /\ IF bootStage = "down" THEN UNCHANGED incoming ELSE incoming' = incoming \o <<msg>>
        /\ retainedOf'["goal"] = IF "goal" = j THEN msg ELSE retainedOf["goal"]
        /\ UNCHANGED <<lastID, standing, bootStage>>
    BY <1>0, <1>2, OneIsNew DEF adopter
  <1>4. past' = past /\ Means(j, v)
    BY <1>2 DEF Post
  <1>5. GoodGoal' = GoodGoal
    BY <1>4 DEF GoodGoal
  <1> HIDE DEF msg
  <1>6. msg \in GoodGoal <=> j = "goal" /\ v # Bad
    <2>1. msg \in Goal <=> j = "goal"
      BY <1>0, <1>3, AboutIs DEF Goal
    <2>2. j = "goal" => msg.id \notin past
      BY <1>3 DEF GoalArrives
    <2>3. j = "goal" => (v \in EvGoals <=> v # Bad)
      BY KindsAre, IntentsAssumption
    <2> QED
      BY <1>3, <2>1, <2>2, <2>3 DEF GoodGoal
  <1>7. /\ j = "goal" /\ v # Bad => meant'["goal"] = v
        /\ ~(j = "goal" /\ v # Bad) => meant'["goal"] = meant["goal"]
        /\ "goal" \notin lost' /\ ~(j = "goal" /\ v # Bad) => "goal" \notin lost /\ ~(j = "goal" /\ bootStage = "down")
    <2>1. CASE j \in Lasting /\ v # Bad
      <3>1. meant' = [meant EXCEPT ![j] = v] /\ lost' = lost \ {j}
        BY <1>4, <2>1 DEF Means
      <3> QED
        BY <1>0, <2>1, <3>1 DEF IntentTypes
    <2>2. CASE ~(j \in Lasting /\ v # Bad)
      <3>1. meant' = meant /\ lost' = IF bootStage = "down" THEN lost \cup ({j} \cap Lasting) ELSE lost
        BY <1>4, <2>2 DEF Means
      <3> QED
        BY <1>0, <2>2, <3>1
    <2> QED
      BY <2>1, <2>2
  <1>8. \A id \in past' : id > talk'["goal"]
    <2>1. \A id \in past : id \in Nat /\ id > talk["goal"]
      BY DEF GoalArrives, IntentTypes
    <2> QED
      BY <1>3, <1>4, <2>1
  <1>9. Remembered(GoodGoal, "goal", standing)'
    <2>1. msg \in GoodGoal => msg.id # lastID["goal"]
      BY <1>3, <1>6, KindsAre DEF Numbered, IntentTypes
    <2> QED
      BY <1>3, <1>5, <2>1 DEF GoalArrives, Remembered
  <1>10. retainedOf'["goal"] \in GoodGoal' => retainedOf'["goal"].val = meant'["goal"]
    BY <1>3, <1>5, <1>6, <1>7 DEF GoalArrives
  <1>10a. retainedOf'["goal"] = Unset => meant'["goal"] = Unset
    <2>1. j = "goal" => msg # Unset
      BY <1>3, UnsetIsNoMessage
    <2> QED
      BY <1>3, <1>7, <2>1 DEF GoalArrives
  <1>11. ASSUME "goal" \notin lost', bootStage' = "down"
         PROVE  meant'["goal"] = Unset \/ retainedOf'["goal"] \in GoodGoal'
    BY <1>3, <1>5, <1>6, <1>7, <1>11 DEF GoalArrives
  <1>12. ASSUME "goal" \notin lost', bootStage' # "down"
         PROVE  Leaves(incoming', GoodGoal', standing', meant'["goal"])
    <2>1. incoming' = incoming \o <<msg>> /\ bootStage # "down" /\ standing' = standing
      BY <1>3, <1>12
    <2>2. CASE msg \in GoodGoal
      <3>1. meant'["goal"] = msg.val /\ msg \in AnyMessage
        BY <1>3, <1>6, <1>7, <2>2, AboutIs
      <3>2. Leaves(incoming \o <<msg>>, GoodGoal, standing, msg.val)
        BY <1>0, <2>2, <3>1, LeavesLast
      <3> QED
        BY <1>5, <2>1, <3>1, <3>2
    <2>3. CASE msg \notin GoodGoal
      <3>1. meant'["goal"] = meant["goal"] /\ "goal" \notin lost /\ Among(<<msg>>) \cap GoodGoal = {}
        BY <1>6, <1>7, <1>12, <2>3, AmongFew
      <3>2. Leaves(incoming, GoodGoal, standing, meant["goal"])
        BY <2>1, <3>1 DEF GoalArrives
      <3>3. Leaves(incoming \o <<msg>>, GoodGoal, standing, meant["goal"])
        BY <1>0, <1>3, <3>1, <3>2, LeavesMore
      <3> QED
        BY <1>5, <2>1, <3>1, <3>3
    <2> QED
      BY <2>2, <2>3
  <1> QED
    BY <1>8, <1>9, <1>10, <1>10a, <1>11, <1>12 DEF GoalArrives

\* A departure takes its goal from those the hub would apply.
LEMMA DepartureArrives ==
  ASSUME IntentTypes, Numbered("goal"), GoalArrives, DepartureComes
  PROVE  GoalArrives'
  <1>0. "goal" \in Topics /\ \A x \in Goal : x.id \in Nat
    BY AboutIs, KindsAre DEF Goal
  <1>1. PICK msg \in Told : /\ msg \in GoodGoal /\ past' = past \cup {msg.id}
                            /\ (bootStage = "down" \/ msg \in Among(incoming)) => lost' = lost \cup {"goal"}
                            /\ ~(bootStage = "down" \/ msg \in Among(incoming)) => lost' = lost
    BY DepartureIs
  <1>2. /\ UNCHANGED <<adopter, retainedOf, incoming, bootStage, meant>>
        /\ \A k \in Topics : talk'[k] = talk[k]
    BY MishapTypes DEF DepartureComes, broker
  <1>3. UNCHANGED <<lastID, standing>> /\ Told' = Told
    BY <1>2 DEF adopter, Told
  <1>4. GoodGoal' \subseteq GoodGoal /\ \A x \in GoodGoal : x.id # msg.id => x \in GoodGoal'
    BY <1>1 DEF GoodGoal
  <1>5. \A id \in past' : id > talk'["goal"]
    <2>1. msg.id > talk["goal"]
      BY <1>1 DEF GoodGoal, Goal, Numbered
    <2> QED
      BY <1>0, <1>1, <1>2, <2>1 DEF GoalArrives
  <1>6. Remembered(GoodGoal, "goal", standing)'
    BY <1>3, <1>4 DEF GoalArrives, Remembered
  <1>7. ASSUME "goal" \notin lost' PROVE bootStage # "down" /\ "goal" \notin lost /\ msg \notin Among(incoming)
    BY <1>1, <1>7
  <1>8. ASSUME "goal" \notin lost' PROVE Leaves(incoming', GoodGoal', standing', meant'["goal"])
    <2>1. Leaves(incoming, GoodGoal, standing, meant["goal"])
      BY <1>7, <1>8 DEF GoalArrives
    <2>2. \A x \in Among(incoming) \cap GoodGoal : x.id # msg.id
      BY <1>1, <1>7, <1>8 DEF Numbered, GoodGoal, Goal, Told
    <2>3. Among(incoming) \cap GoodGoal = Among(incoming) \cap GoodGoal'
      BY <1>4, <2>2
    <2>4. Leaves(incoming, GoodGoal', standing, meant["goal"])
      <3> DEFINE after == GoodGoal'
      <3>1. Among(incoming) \cap GoodGoal = Among(incoming) \cap after
        BY <2>3
      <3> HIDE DEF after
      <3>2. Leaves(incoming, after, standing, meant["goal"])
        BY <2>1, <3>1, LeavesAlike
      <3> QED
        BY <3>2 DEF after
    <2> QED
      BY <1>2, <1>3, <2>4
  <1> QED
    BY <1>2, <1>4, <1>5, <1>6, <1>7, <1>8 DEF GoalArrives

\* A new session brings the retained goal again, in place of what was under way.
LEMMA SessionArrives ==
  ASSUME IntentTypes, Subscribing, GoalArrives, ~Call, [NextIntents]_intentsVars, Reconnect \/ SubscribeIntents
  PROVE  GoalArrives'
  <1>0. "goal" \in Subjects /\ "goal" \in Topics /\ "goal" \in Lasting /\ incoming \in Seq(AnyMessage)
    BY KindsAre DEF Subjects, IntentTypes, Lasting
  <1>1. PICK K \in SUBSET Kinds : incoming' = Retained(K) /\ "goal" \in K
    <2>1. {Kinds, Kinds \ {"status"}} \subseteq SUBSET Kinds /\ "goal" \in Kinds \ {"status"}
      BY KindsAre
    <2> QED
      BY <2>1 DEF Reconnect, SubscribeIntents
  <1>2. UNCHANGED <<lastID, standing, past, meant>> /\ bootStage' # "down"
    BY DEF Reconnect, SubscribeIntents, adopter, ghosts
  <1>3. /\ talk'["goal"] = talk["goal"] /\ retainedOf'["goal"] = retainedOf["goal"]
        /\ Told' \cap Goal \subseteq Told \cap Goal
    BY <1>0, NothingNew DEF Goal
  <1>4. GoodGoal' = GoodGoal /\ GoodGoal \subseteq Goal
    BY <1>2 DEF GoodGoal
  <1>5. Remembered(GoodGoal, "goal", standing)'
    BY <1>2, <1>3, <1>4 DEF GoalArrives, Remembered
  <1>6. ASSUME "goal" \notin lost'
        PROVE  IF retainedOf["goal"] \in GoodGoal THEN retainedOf["goal"].val = meant["goal"]
               ELSE standing = meant["goal"]
    <2> SUFFICES ASSUME retainedOf["goal"] \notin GoodGoal PROVE standing = meant["goal"]
      BY DEF GoalArrives
    <2>1. CASE SubscribeIntents
      BY <1>6, <2>1 DEF SubscribeIntents, Subscribing, GoalArrives, ghosts
    <2>2. CASE Reconnect
      <3>1. /\ "goal" \notin lost /\ bootStage # "down"
            /\ "goal" \notin Displaced \/ ~\E i \in 1..Len(incoming) : incoming[i].kind = "goal" /\ Acceptable(incoming[i])
        BY <1>6, <2>2 DEF Reconnect
      <3>2. Leaves(incoming, GoodGoal, standing, meant["goal"])
        BY <3>1 DEF GoalArrives
      <3>3. Among(incoming) \cap GoodGoal = {}
        <4>1. CASE meant["goal"] = Unset
          <5>1. \A x \in GoodGoal : x.val # Unset
            BY IntentsAssumption DEF GoodGoal
          <5> QED
            BY <3>2, <4>1, <5>1 DEF Leaves
        <4>2. CASE meant["goal"] # Unset
          <5>1. retainedOf["goal"] \in AnyMessage /\ retainedOf["goal"].kind = "goal"
            <6>1. retainedOf["goal"] \in About("goal")
              BY <4>2, KindsAre DEF GoalArrives, IntentTypes
            <6> QED
              BY <1>0, <6>1, AboutIs
          <5>2. ~Acceptable(retainedOf["goal"])
            BY <5>1, GoodIs
          <5>3. "goal" \in Displaced
            BY <1>0, <4>2, <5>2 DEF Displaced
          <5>4. \A i \in 1..Len(incoming) : incoming[i] \in AnyMessage
            BY <1>0
          <5>5. \A i \in 1..Len(incoming) : incoming[i] \notin GoodGoal
            BY <3>1, <5>3, <5>4, GoodIs
          <5> QED
            BY <5>5 DEF Among
        <4> QED
          BY <4>1, <4>2
      <3> QED
        BY <3>2, <3>3 DEF Leaves, Among
    <2> QED
      BY <2>1, <2>2
  <1>7. "goal" \notin lost' => Leaves(incoming', GoodGoal', standing', meant'["goal"])
    <2> SUFFICES ASSUME "goal" \notin lost' PROVE Leaves(Retained(K), GoodGoal, standing, meant["goal"])
      BY <1>1, <1>2, <1>4
    <2> QED
      BY <1>1, <1>6, RetainedGood
  <1> QED
    BY <1>2, <1>3, <1>4, <1>5, <1>7 DEF GoalArrives

\* A process that dies takes with it a goal that is no longer retained.
LEMMA CrashArrives ==
  ASSUME IntentTypes, Numbered("goal"), GoalArrives, ~Call, [NextIntents]_intentsVars, Crash
  PROVE  GoalArrives'
  <1>0. "goal" \in Subjects /\ "goal" \in Topics /\ "goal" \in Lasting
    BY KindsAre DEF Subjects, Lasting
  <1>1. /\ bootStage' = "down" /\ UNCHANGED <<past, meant>> /\ lost' = lost \cup Displaced
        /\ lastID'["goal"] = 0
    BY KindsAre DEF Crash, NoIDs
  <1>2. /\ talk'["goal"] = talk["goal"] /\ retainedOf'["goal"] = retainedOf["goal"]
        /\ Told' \cap Goal \subseteq Told \cap Goal
    BY <1>0, NothingNew DEF Goal
  <1>3. GoodGoal' = GoodGoal /\ GoodGoal \subseteq Goal
    BY <1>1 DEF GoodGoal
  <1>4. Remembered(GoodGoal, "goal", standing)'
    <2>1. \A x \in Told \cap Goal : x.id > talk["goal"] /\ x.id \in Nat
      BY <1>0, AboutIs DEF Numbered, Goal
    <2>2. talk["goal"] \in Nat
      BY <1>0 DEF IntentTypes
    <2>3. \A x \in Told \cap Goal : x.id # 0
      BY <2>1, <2>2
    <2> QED
      BY <1>1, <1>2, <1>3, <2>3 DEF Remembered
  <1>5. ASSUME "goal" \notin lost', meant["goal"] # Unset PROVE retainedOf["goal"] \in GoodGoal
    <2>1. Acceptable(retainedOf["goal"])
      BY <1>0, <1>1, <1>5 DEF Displaced
    <2>2. retainedOf["goal"] \in About("goal")
      BY <1>5, KindsAre DEF GoalArrives, IntentTypes
    <2>3. retainedOf["goal"] \in AnyMessage /\ retainedOf["goal"].kind = "goal"
      BY <1>0, <2>2, AboutIs
    <2> QED
      BY <2>1, <2>3, GoodIs
  <1> QED
    BY <1>1, <1>2, <1>3, <1>4, <1>5 DEF GoalArrives

\* Handling a goal the hub applies makes it the adopted one; any other leaves it.
LEMMA HandleArrives ==
  ASSUME IntentTypes, Numbered("goal"), Subscribing, GoalArrives, ~Call, [NextIntents]_intentsVars, Handle
  PROVE  GoalArrives'
  <1>0. "goal" \in Subjects /\ Goal = About("goal") /\ incoming \in Seq(AnyMessage)
    BY DEF Subjects, Goal, IntentTypes
  <1> DEFINE m == Head(incoming)
  <1>1. /\ m \in Told /\ incoming # <<>> /\ incoming' = Tail(incoming)
        /\ UNCHANGED <<retainedOf, bootStage, past, meant, lost, talk>>
    BY HandleCases DEF ghosts
  <1>2. GoalEffect(m)
    BY GoalOfHead
  <1>3. Leaves(incoming, GoodGoal, standing, meant["goal"])
           => /\ m \notin GoodGoal => Leaves(incoming', GoodGoal, standing, meant["goal"])
              /\ m \in GoodGoal => Leaves(incoming', GoodGoal, m.val, meant["goal"])
    BY <1>0, <1>1, LeavesTail
  <1> HIDE DEF m
  <1>4. GoodGoal' = GoodGoal /\ GoodGoal \subseteq Goal
    BY <1>1 DEF GoodGoal
  <1>5. m \in GoodGoal => standing' = m.val
    BY <1>1, <1>2, <1>4 DEF GoalArrives, Remembered, GoalEffect
  <1>6. m \notin GoodGoal => standing' = standing
    BY <1>2 DEF GoalEffect
  <1>7. Told' \cap Goal \subseteq Told \cap Goal
    BY <1>0, NothingNew
  <1>8. Remembered(GoodGoal, "goal", standing)'
    <2> SUFFICES ASSUME NEW x \in Told' \cap GoodGoal, x.id = lastID'["goal"] PROVE x.val = standing'
      BY <1>4 DEF Remembered
    <2>1. x \in Told /\ x \in GoodGoal /\ x \in Goal
      BY <1>4, <1>7
    <2>2. CASE m \in Goal
      <3>1. x = m
        BY <1>0, <1>1, <1>2, <1>4, <2>1, <2>2 DEF Numbered, GoalEffect
      <3> QED
        BY <1>5, <2>1, <3>1
    <2>3. CASE m \notin Goal
      BY <1>2, <1>4, <2>1, <2>3 DEF GoalArrives, Remembered, GoalEffect
    <2> QED
      BY <2>2, <2>3
  <1>9. bootStage # "down"
    BY <1>1 DEF Subscribing
  <1>10. "goal" \notin lost' => Leaves(incoming', GoodGoal', standing', meant'["goal"])
    <2> SUFFICES ASSUME "goal" \notin lost PROVE Leaves(incoming', GoodGoal, standing', meant["goal"])
      BY <1>1, <1>4
    <2>1. Leaves(incoming, GoodGoal, standing, meant["goal"])
      BY <1>9 DEF GoalArrives
    <2> QED
      BY <1>3, <1>5, <1>6, <2>1
  <1> QED
    BY <1>1, <1>4, <1>8, <1>9, <1>10 DEF GoalArrives

\* The goal that is meant stays the last one to arrive, or the adopted one.
LEMMA GoalArrivesStep ==
  ASSUME IntentTypes, Numbered("goal"), Subscribing, GoalArrives, [NextIntents]_intentsVars
  PROVE  GoalArrives'
  <1>0. "goal" \in Subjects /\ GoodGoal \subseteq About("goal")
    BY DEF Subjects, GoodGoal, Goal
  <1>1. CASE Call
    BY <1>1, CallArrives
  <1>2. CASE DepartureComes
    BY <1>2, DepartureArrives
  <1>3. CASE ~Call /\ (Reconnect \/ SubscribeIntents)
    BY <1>3, SessionArrives
  <1>4. CASE ~Call /\ Crash
    BY <1>4, CrashArrives
  <1>5. CASE ~Call /\ Handle
    BY <1>5, HandleArrives
  <1>6. ASSUME ~Call, ~DepartureComes, UNCHANGED <<lastID, standing, lost>>,
               Leaves(incoming, GoodGoal, standing, meant["goal"])
                   => Leaves(incoming', GoodGoal, standing, meant["goal"]),
               bootStage = "down" <=> bootStage' = "down"
        PROVE  GoalArrives'
    <2>1. UNCHANGED <<past, meant>> /\ GoodGoal' = GoodGoal
      BY <1>6, StatedKept DEF GoodGoal
    <2>2. /\ talk'["goal"] = talk["goal"] /\ retainedOf'["goal"] = retainedOf["goal"]
          /\ Told' \cap Goal \subseteq Told \cap Goal
      BY <1>0, <1>6, NothingNew DEF Goal
    <2>3. Remembered(GoodGoal, "goal", standing)'
      BY <1>0, <1>6, <2>1, <2>2 DEF GoalArrives, Remembered, Goal
    <2> QED
      BY <1>6, <2>1, <2>2, <2>3 DEF GoalArrives
  <1>7. CASE BrokerTakes /\ ~Call /\ ~DepartureComes
    <2>1. Leaves(incoming, GoodGoal, standing, meant["goal"])
             => Leaves(incoming', GoodGoal, standing, meant["goal"])
      BY <1>0, <1>7, BrokerLeaves
    <2>2. UNCHANGED <<lastID, standing, bootStage, lost>>
      BY <1>7 DEF BrokerTakes, adopter, ghosts
    <2> QED
      BY <1>6, <1>7, <2>1, <2>2
  <1>8. CASE /\ UNCHANGED <<lastID, standing, incoming, lost>> /\ (bootStage = "down" <=> bootStage' = "down")
             /\ ~Call /\ ~DepartureComes
    BY <1>6, <1>8
  <1>9. CASE EngineSteps \/ UNCHANGED intentsVars \/ TimerFires \/ Reverts
    <2>1. UNCHANGED <<lastID, standing, incoming, lost, bootStage>>
      BY <1>9, EngineStepsRun DEF HubRest, intentsVars, adopter, broker, ghosts, TimerFires, Reverts, Revert
    <2> QED
      BY <1>1, <1>2, <1>8, <2>1
  <1>10. CASE SubscribeStatus \/ StartEngine \/ SealBoot
    <2>1. /\ UNCHANGED <<lastID, standing, incoming, lost>> /\ bootStage # "down" /\ bootStage' # "down"
      BY <1>10 DEF SubscribeStatus, StartEngine, SealBoot, adopter, broker, ghosts
    <2> QED
      BY <1>1, <1>2, <1>8, <2>1
  <1> QED
    BY <1>1, <1>2, <1>3, <1>4, <1>5, <1>7, <1>9, <1>10 DEF NextIntents, BootHub, EngineSteps

-----------------------------------------------------------------------------
(* The goal adopted is in force.                                           *)

\* Whatever leaves the goal ahead and the timer alone ...
LEMMA AdoptedKeeps ==
  ASSUME GoalAdopted, ~dropped' => ~dropped, ~dropped' => GoalAhead' = GoalAhead,
         UNCHANGED <<standing, gen, timer, fired>>
  PROVE  GoalAdopted'
  BY DEF GoalAdopted, GoalAhead, Reverting

\* ... keeps the engine with the adopted goal, so its loops do.
LEMMA RunsKeepAdopted ==
  ASSUME IntentTypes, GoalAdopted, EngineRuns, UNCHANGED <<standing, gen, timer, fired>>
  PROVE  GoalAdopted'
  <1>1. EngineTypes
    BY DEF IntentTypes, EngineTypes
  <1>2. dropped' = dropped /\ GoalAhead' = GoalAhead
    BY <1>1, EngineKeeps
  <1> QED
    BY <1>2, AdoptedKeeps

\* A handled goal or charge-now goes to the engine, with the timer it needs.
LEMMA HandleAdopts ==
  ASSUME IntentTypes, GoalAdopted, NEW m,
         \/ PriceHandled(m) \/ StatusHandled(m) \/ AgainHandled(m) \/ GoalHandled(m)
         \/ ChargeHandled(m) \/ ReserveHandled(m) \/ ModeHandled(m)
  PROVE  GoalAdopted'
  <1>0. /\ EngineTypes /\ gen \in Nat /\ standing \in EvGoals \cup {Unset}
        /\ \A r \in fired : r.gen \in 1..gen /\ r.gen # gen + 1
    BY DEF IntentTypes, EngineTypes
  <1>1. CASE PriceHandled(m)
    <2>1. m.val \in {"csip", "openadr"}
      BY <1>1, AboutIs, KindsAre DEF PriceHandled
    <2>2. UNCHANGED <<standing, gen, timer, fired>>
      BY <1>1 DEF PriceHandled
    <2>3. CASE UNCHANGED engine
      BY <2>2, <2>3, RunsKeepAdopted DEF EngineRuns
    <2>4. CASE Set("price", m.val)
      <3>1. <<"price", m.val>> \in Mutations
        BY <2>1, MutationIs
      <3>2. (~dropped' => ~dropped) /\ (~dropped' => GoalAhead' = GoalAhead)
        BY <1>0, <2>4, <3>1, SetPosts
      <3> QED
        BY <2>2, <3>2, AdoptedKeeps
    <2> QED
      BY <1>1, <2>3, <2>4 DEF PriceHandled
  <1>2. CASE StatusHandled(m) \/ AgainHandled(m)
    BY <1>2, RunsKeepAdopted DEF EngineRuns, StatusHandled, OnModeStatus, AgainHandled
  <1>3. CASE GoalHandled(m) /\ Acceptable(m)
    <2>1. m.val \in EvGoals
      BY <1>3, AboutIs, KindsAre DEF GoalHandled, Goal, Acceptable
    <2>2. /\ Set("goal", <<m.val, "stated">>) /\ standing' = m.val /\ gen' = gen + 1
          /\ timer' = Unset /\ fired' = fired
      BY <1>3 DEF GoalHandled, ApplyEVGoal, Supersede
    <2>3. <<"goal", <<m.val, "stated">>>> \in Mutations
      BY <2>1, MutationIs
    <2>4. ~dropped' => GoalAhead' = <<m.val, "stated">>
      BY <1>0, <2>2, <2>3, SetPosts
    <2>5. \A r \in fired' : r.gen # gen'
      BY <1>0, <2>2
    <2>6. ~Reverting'
      BY <2>2, <2>5 DEF Reverting
    <2>7. standing' # Unset
      BY <2>1, <2>2, IntentsAssumption
    <2> QED
      BY <2>2, <2>4, <2>5, <2>6, <2>7 DEF GoalAdopted, GoalAhead
  <1>3a. CASE GoalHandled(m) /\ ~Acceptable(m)
    BY <1>3a, RunsKeepAdopted DEF EngineRuns, GoalHandled, ApplyEVGoal
  <1>4. CASE ChargeHandled(m)
    <2>1. CASE m.val = Bad \/ standing = Unset
      BY <1>4, <2>1, RunsKeepAdopted DEF EngineRuns, ChargeHandled, ApplyChargeNow
    <2>2. CASE ~(m.val = Bad \/ standing = Unset)
      <3>1. /\ Set("goal", <<standing, "now">>) /\ gen' = gen + 1
            /\ timer' = [gen |-> gen + 1, goal |-> standing] /\ standing' = standing /\ fired' = fired
        BY <1>4, <2>2 DEF ChargeHandled, ApplyChargeNow
      <3>2. <<"goal", <<standing, "now">>>> \in Mutations
        BY <1>0, <2>2, MutationIs
      <3>3. ~dropped' => GoalAhead' = <<standing, "now">>
        BY <1>0, <3>1, <3>2, SetPosts
      <3>4. timer' \in [gen : Nat, goal : EvGoals]
        BY <1>0, <2>2, <3>1
      <3>5. timer' # Unset /\ timer'.goal = standing
        BY <3>1, <3>4, IntentsAssumption
      <3>6. Reverting' /\ \A r \in fired' : r.gen # gen'
        BY <1>0, <3>1, <3>5 DEF Reverting
      <3> QED
        BY <2>2, <3>1, <3>3, <3>5, <3>6 DEF GoalAdopted, GoalAhead
    <2> QED
      BY <2>1, <2>2
  <1>5. CASE ReserveHandled(m)
    <2>1. UNCHANGED <<standing, gen, timer, fired>>
      BY <1>5 DEF ReserveHandled, ApplyReserve
    <2>2. CASE UNCHANGED engine
      BY <2>1, <2>2, RunsKeepAdopted DEF EngineRuns
    <2>3. CASE Acceptable(m) /\ Set("reserve", m.val)
      <3>1. m.val \in Reserves
        BY <1>5, <2>3, AboutIs, KindsAre DEF ReserveHandled, Acceptable
      <3>2. <<"reserve", m.val>> \in Mutations
        BY <3>1, MutationIs
      <3>3. (~dropped' => ~dropped) /\ (~dropped' => GoalAhead' = GoalAhead)
        BY <1>0, <2>3, <3>2, SetPosts
      <3> QED
        BY <2>1, <3>3, AdoptedKeeps
    <2> QED
      BY <1>5, <2>2, <2>3 DEF ReserveHandled, ApplyReserve
  <1>6. CASE ModeHandled(m)
    BY <1>6, RunsKeepAdopted DEF EngineRuns, ModeHandled, ApplyMode
  <1> QED
    BY <1>1, <1>2, <1>3, <1>3a, <1>4, <1>5, <1>6

\* A timer that runs out has its revert waiting.
LEMMA TimerAdopts ==
  ASSUME IntentTypes, GoalAdopted, TimerFires
  PROVE  GoalAdopted'
  <1>1. /\ timer # Unset /\ timer' = Unset /\ fired' = fired \cup {timer}
        /\ UNCHANGED <<engine, standing, gen>>
    BY DEF TimerFires
  <1>2. timer.gen = gen
    BY <1>1 DEF IntentTypes
  <1>3. UNCHANGED <<cmds, dropped, planIn>>
    BY <1>1 DEF engine
  <1>4. Reverting /\ Reverting'
    BY <1>1, <1>2 DEF Reverting
  <1>5. \A r \in fired' : r.gen = gen' => standing' # Unset /\ r.goal = standing' /\ timer' = Unset
    BY <1>1 DEF GoalAdopted
  <1> QED
    BY <1>1, <1>3, <1>4, <1>5 DEF GoalAdopted

\* The last charge-now's revert gives the goal back; another does nothing.
LEMMA RevertAdopts ==
  ASSUME IntentTypes, GoalAdopted, NEW r \in fired, Revert(r)
  PROVE  GoalAdopted'
  <1>1. fired' = fired \ {r} /\ UNCHANGED <<standing, gen, timer>>
    BY DEF Revert
  <1>2. CASE r.gen = gen
    <2>1. Set("goal", <<r.goal, "stated">>)
      BY <1>2 DEF Revert, Current
    <2>2. standing # Unset /\ r.goal = standing /\ timer = Unset
      BY <1>2 DEF GoalAdopted
    <2>3. r.goal \in EvGoals /\ EngineTypes
      BY DEF IntentTypes, EngineTypes, Reversion
    <2>4. <<"goal", <<r.goal, "stated">>>> \in Mutations
      BY <2>3, MutationIs
    <2>5. ~dropped' => GoalAhead' = <<standing, "stated">>
      BY <2>1, <2>2, <2>3, <2>4, SetPosts
    <2>6. \A q \in fired' : q.gen # gen'
      <3> SUFFICES ASSUME NEW q \in fired, q # r, q.gen = gen PROVE FALSE
        BY <1>1
      <3>1. q.goal = r.goal /\ q.gen = r.gen
        BY <1>2, <2>2 DEF GoalAdopted
      <3>2. q \in Reversion /\ r \in Reversion
        BY DEF IntentTypes
      <3> QED
        BY <3>1, <3>2 DEF Reversion
    <2>7. ~Reverting'
      BY <1>1, <2>2, <2>6 DEF Reverting
    <2> QED
      BY <1>1, <2>2, <2>5, <2>6, <2>7 DEF GoalAdopted, GoalAhead
  <1>3. CASE r.gen # gen
    <2>1. UNCHANGED engine
      BY <1>3 DEF Revert, Current
    <2>2. UNCHANGED <<cmds, dropped, planIn>>
      BY <2>1 DEF engine
    <2>3. Reverting' = Reverting
      BY <1>1, <1>3 DEF Reverting
    <2> QED
      BY <1>1, <2>2, <2>3 DEF GoalAdopted
  <1> QED
    BY <1>2, <1>3

\* A new engine has no goal.
LEMMA NothingAhead == Applied(NoInputs, <<>>).goal = Unset
  <1>1. NoInputs \in Inputs /\ NoInputs.goal = Unset
    BY DEF NoInputs, Inputs
  <1> QED
    BY <1>1, AppliedNothing

\* The engine has the adopted goal, step by step.
LEMMA GoalAdoptedStep ==
  ASSUME IntentTypes, GoalAdopted, [NextIntents]_intentsVars
  PROVE  GoalAdopted'
  <1>1. CASE Handle
    BY <1>1, HandleCases, HandleAdopts
  <1>2. CASE TimerFires \/ Reverts
    BY <1>2, TimerAdopts, RevertAdopts DEF Reverts
  <1>3. CASE Crash
    <2>1. planIn' = NoInputs /\ cmds' = <<>> /\ standing' = Unset /\ timer' = Unset /\ fired' = {}
      BY <1>3 DEF Crash, EngineLost
    <2>2. GoalAhead' = Unset
      BY <2>1, NothingAhead DEF GoalAhead
    <2> QED
      BY <2>1, <2>2 DEF GoalAdopted, GoalAhead
  <1>4. CASE EngineRuns /\ UNCHANGED <<standing, gen, timer, fired>>
    BY <1>4, RunsKeepAdopted
  <1>5. CASE EngineSteps
    BY <1>4, <1>5, EngineStepsRun DEF HubRest, adopter
  <1>6. CASE Call
    BY <1>4, <1>6, CallIs DEF Post, adopter, EngineRuns
  <1>7. CASE BrokerTakes \/ Reconnect \/ DepartureComes \/ BootHub \/ UNCHANGED intentsVars
    BY <1>4, <1>7 DEF BrokerTakes, Reconnect, DepartureComes, BootHub, SubscribeIntents, SubscribeStatus, StartEngine,
       SealBoot, adopter, EngineRuns, intentsVars
  <1> QED
    BY <1>1, <1>2, <1>3, <1>5, <1>6, <1>7 DEF NextIntents, EngineSteps

-----------------------------------------------------------------------------
(* The mode that was asked for is kept.                                    *)

\* What was untimely or outrun stays so.
LEMMA QuietBefore ==
  ASSUME IntentTypes, [NextIntents]_intentsVars, Quiet'
  PROVE  Quiet
  <1>0. untimely \in BOOLEAN /\ outrun \in BOOLEAN
    BY DEF IntentTypes
  <1>1. CASE Call
    <2>1. PICK k \in Topics : \E v \in Said[k] : Post(k, v)
      BY <1>1, CallIs
    <2>2. PICK v \in Said[k] : Post(k, v)
      BY <2>1
    <2>3. (untimely => untimely') /\ outrun' = outrun
      BY <1>0, <2>2 DEF Post
    <2> QED
      BY <1>0, <2>3 DEF Quiet
  <1>2. CASE UNCHANGED ghosts
    BY <1>2 DEF ghosts, Quiet
  <1>3. CASE EngineSteps
    BY <1>3, EngineStepsRun DEF HubRest, ghosts, Quiet
  <1>4. CASE Reconnect
    <2>1. (untimely => untimely') /\ outrun' = outrun
      BY <1>0, <1>4 DEF Reconnect
    <2> QED
      BY <1>0, <2>1 DEF Quiet
  <1>5. CASE Crash
    <2>1. (untimely => untimely') /\ outrun' = outrun
      BY <1>0, <1>5 DEF Crash
    <2> QED
      BY <1>0, <2>1 DEF Quiet
  <1>6. CASE SealBoot
    <2>1. (outrun => outrun') /\ untimely' = untimely
      BY <1>0, <1>6 DEF SealBoot
    <2> QED
      BY <1>0, <2>1 DEF Quiet
  <1>7. CASE DepartureComes
    BY <1>7 DEF DepartureComes, Quiet
  <1> QED
    BY <1>1, <1>2, <1>3, <1>4, <1>5, <1>6, <1>7 DEF NextIntents, EngineSteps, intentsVars, BrokerTakes,
       BootHub, SubscribeIntents, SubscribeStatus, StartEngine, Handle, TimerFires, Reverts, Revert

\* The hub listens before it starts.
LEMMA SubscribingStep ==
  ASSUME Subscribing, [NextIntents]_intentsVars
  PROVE  Subscribing'
  <1>1. CASE Call
    <2>1. PICK k \in Topics : \E v \in Said[k] : Post(k, v)
      BY <1>1, CallIs
    <2>2. PICK v \in Said[k] : Post(k, v)
      BY <2>1
    <2>3. UNCHANGED <<standing, sending, bootStage, listening>> /\ (bootStage = "down" => UNCHANGED incoming)
      BY <2>2 DEF Post, adopter
    <2> QED
      BY <2>3 DEF Subscribing
  <1>2. CASE Handle
    BY <1>2 DEF Handle, Subscribing
  <1>3. CASE EngineSteps
    BY <1>3, EngineStepsRun DEF HubRest, broker, adopter, Subscribing
  <1>4. CASE BrokerTakes
    BY <1>4 DEF BrokerTakes, adopter, Subscribing
  <1>5. CASE Reconnect \/ DepartureComes
    BY <1>5 DEF Reconnect, DepartureComes, broker, adopter, Subscribing
  <1>6. CASE Crash
    BY <1>6 DEF Crash, Subscribing
  <1>7. CASE TimerFires \/ Reverts \/ UNCHANGED intentsVars
    <2>1. UNCHANGED <<standing, broker, bootStage, listening>>
      BY <1>7 DEF TimerFires, Reverts, Revert, intentsVars, adopter
    <2> QED
      BY <2>1 DEF broker, Subscribing
  <1>8. CASE BootHub
    BY <1>8 DEF BootHub, SubscribeIntents, SubscribeStatus, StartEngine, SealBoot, broker, adopter, Subscribing
  <1> QED
    BY <1>1, <1>2, <1>3, <1>4, <1>5, <1>6, <1>7, <1>8 DEF NextIntents, EngineSteps

\* What a reviewed message of a mode says.
ModeEffect(m) ==
    \/ /\ m \in Status /\ UNCHANGED <<lastID, sending>>
       /\ mode' = IF bootStage = "sealed" THEN mode ELSE m.val
    \/ /\ m \in About("mode") /\ lastID'["mode"] = m.id
       /\ \/ (m.id = lastID["mode"] \/ m \notin ValidMode) /\ UNCHANGED <<mode, sending>>
          \/ m \in ValidMode /\ m.val = mode /\ UNCHANGED <<mode, sending>>
          \/ /\ m \in ValidMode /\ mode' = m.val
             /\ sending' = sending \o <<Message("status", m.id, m.val)>>
    \/ /\ m \notin Status \cup About("mode") /\ lastID'["mode"] = lastID["mode"]
       /\ UNCHANGED <<mode, sending>>

\* That is what handling does.
LEMMA ModeOfHead ==
  ASSUME IntentTypes, Handle
  PROVE  ModeEffect(Head(incoming))
  <1> DEFINE m == Head(incoming)
  <1>1. /\ m \in AnyMessage
        /\ \/ PriceHandled(m) \/ StatusHandled(m) \/ AgainHandled(m) \/ GoalHandled(m)
           \/ ChargeHandled(m) \/ ReserveHandled(m) \/ ModeHandled(m)
    BY HandleCases
  <1> SUFFICES ModeEffect(m)
    OBVIOUS
  <1> HIDE DEF m
  <1>2. \A k \in Topics \cup {"status"} : \A x \in About(k) : x.kind = k
    BY AboutIs
  <1>3. (m.kind = "mode" <=> m \in About("mode")) /\ (m.kind = "status" <=> m \in Status)
    BY <1>1, <1>2, AnyIs, KindsAre DEF Status
  <1>4. lastID \in [{"goal", "reserve", "charge", "mode"} -> Nat]
    BY KindsAre DEF IntentTypes
  <1>5. CASE PriceHandled(m) \/ StatusHandled(m)
    BY <1>2, <1>3, KindsAre, <1>5 DEF ModeEffect, PriceHandled, StatusHandled, OnModeStatus
  <1>6. CASE AgainHandled(m)
    <2>1. m.kind # "status"
      BY <1>6, KindsAre DEF AgainHandled, Adopted
    <2> QED
      BY <1>3, <1>4, <1>6, <2>1 DEF ModeEffect, AgainHandled, Adopted
  <1>7. CASE GoalHandled(m)
    BY <1>2, <1>3, KindsAre, <1>4, <1>7 DEF ModeEffect, GoalHandled, Goal, Adopted, ApplyEVGoal
  <1>8. CASE ChargeHandled(m)
    BY <1>2, <1>3, KindsAre, <1>4, <1>8 DEF ModeEffect, ChargeHandled, Adopted, ApplyChargeNow
  <1>9. CASE ReserveHandled(m)
    BY <1>2, <1>3, KindsAre, <1>4, <1>9 DEF ModeEffect, ReserveHandled, Adopted, ApplyReserve
  <1>10. CASE ModeHandled(m)
    <2>1. m \in About("mode") /\ lastID'["mode"] = m.id /\ (m \in ValidMode <=> m.val \in Modes)
      BY <1>2, <1>4, <1>10, KindsAre DEF ModeHandled, Adopted
    <2> QED
      BY <1>10, <2>1 DEF ModeEffect, ModeHandled, ApplyMode, SendToBroker
  <1> QED
    BY <1>1, <1>5, <1>6, <1>7, <1>8, <1>9, <1>10

\* The messages a mode is about, and their types.
LEMMA ModeMessages ==
  ASSUME IntentTypes
  PROVE  /\ "mode" \in Subjects /\ "mode" \in Kinds /\ "status" \in Kinds /\ "mode" \in Topics
         /\ ValidMode \subseteq About("mode") /\ ValidMode \cap Status = {}
         /\ Subscription \notin Status /\ Unset \notin Status
         /\ \A k \in Kinds : retainedOf[k] \in ValidMode => k = "mode"
         /\ \A k \in Kinds : retainedOf[k] \in Status => k = "status"
         /\ incoming \in Seq(AnyMessage) /\ sending \in Seq(Status \cup {Subscription})
         /\ Status \subseteq AnyMessage
  <1>1. /\ "mode" \in Subjects /\ "mode" \in Kinds /\ "status" \in Kinds /\ "mode" \in Topics
        /\ ValidMode \subseteq About("mode")
    BY KindsAre DEF Subjects
  <1>2. About("mode") \cap Status = {}
    BY <1>1, StatusesAside
  <1>3. Subscription \notin Status
    <2>1. Subscription.kind = "subscribe"
      BY DEF Subscription, Message
    <2> QED
      BY <2>1, AboutIs DEF Status
  <1>4. Unset \notin Status /\ Unset \notin ValidMode
    <2>1. Unset \notin About("mode") /\ Unset \notin Status
      BY UnsetIsNoMessage
    <2> QED
      BY <1>1, <2>1
  <1>5. \A k \in Kinds : retainedOf[k] # Unset => retainedOf[k].kind = k
    <2>1. Kinds \subseteq Topics \cup {"status"}
      BY KindsAre
    <2> QED
      BY <2>1, AboutIs DEF IntentTypes
  <1>6. /\ \A k \in Kinds : retainedOf[k] \in ValidMode => k = "mode"
        /\ \A k \in Kinds : retainedOf[k] \in Status => k = "status"
    BY <1>1, <1>4, <1>5, AboutIs DEF Status
  <1> QED
    BY <1>1, <1>2, <1>3, <1>4, <1>6, AboutIs DEF IntentTypes, Status

\* A message of the past is remembered as long as nothing new is told.
LEMMA ModeRemembered ==
  ASSUME IntentTypes, Remembered(ValidMode, "mode", mode), [NextIntents]_intentsVars, ~Call,
         mode' = mode, lastID'["mode"] = lastID["mode"]
  PROVE  Remembered(ValidMode, "mode", mode)'
  <1>1. Told' \cap ValidMode \subseteq Told \cap ValidMode
    BY NothingNew, ModeMessages
  <1> QED
    BY <1>1 DEF Remembered

\* Before the boot is sealed the retained mode, too, is the one asked for.
LEMMA TellsTheMode ==
  ASSUME IntentTypes, ModeKept, OneVoice
  PROVE  \A x \in Told \cap ValidMode : x.val = asked
  BY ModeMessages DEF ModeKept, OneVoice, Told

\* A call in time: the mode it asks for is the last on its way.
LEMMA CallKeepsMode ==
  ASSUME IntentTypes, Numbered("mode"), ModeKept, Call, Quiet'
  PROVE  ModeKept'
  <1>0. PICK j \in Topics : \E v \in Said[j] : Post(j, v)
    BY CallIs
  <1>1. PICK v \in Said[j] : Post(j, v)
    BY <1>0
  <1> DEFINE msg == Message(j, talk[j], v)
  <1>2. /\ msg \in About(j) /\ msg.id = talk[j] /\ msg.val = v /\ msg.kind = j /\ talk[j] > 0
        /\ talk[j] \in Nat /\ Told' \subseteq Told \cup {msg} /\ <<msg>> \in Seq(AnyMessage)
        /\ IF bootStage = "down" THEN UNCHANGED incoming ELSE incoming' = incoming \o <<msg>>
        /\ \A k \in Kinds : retainedOf'[k] = IF k = j THEN msg ELSE retainedOf[k]
        /\ UNCHANGED <<lastID, mode, sending, bootStage, listening>>
    BY <1>1, OneIsNew DEF adopter
  <1>3. \/ /\ j = "mode" /\ v \in Modes /\ asked' = v /\ bootStage = "sealed"
        \/ (j # "mode" \/ v \notin Modes) /\ asked' = asked
    BY <1>1 DEF Post, Quiet
  <1> HIDE DEF msg
  <1>4. /\ "mode" \in Kinds /\ "status" \in Kinds /\ "status" # j /\ incoming \in Seq(AnyMessage)
        /\ msg \in AnyMessage /\ msg \notin Status /\ (msg \in ValidMode <=> j = "mode" /\ v \in Modes)
    <2>1. msg \in ValidMode => j = "mode"
      BY <1>2, ModeMessages, AboutIs
    <2>2. msg \in Status => j = "status"
      BY <1>2, AboutIs DEF Status
    <2> QED
      BY <1>2, <2>1, <2>2, ModeMessages, KindsAre, AboutIs
  <1>5. Remembered(ValidMode, "mode", mode)'
    <2>1. msg \in ValidMode => msg.id # lastID["mode"]
      BY <1>2, <1>4, KindsAre DEF Numbered, IntentTypes
    <2> QED
      BY <1>2, <2>1 DEF ModeKept, Remembered
  <1>6. retainedOf'["mode"] \in ValidMode => retainedOf'["mode"].val = asked'
    BY <1>2, <1>3, <1>4 DEF ModeKept
  <1>7. retainedOf'["status"] = retainedOf["status"]
    BY <1>2, <1>4
  <1>8. CASE bootStage = "sealed"
    <2>1. incoming' = incoming \o <<msg>>
      BY <1>2, <1>8
    <2>2. Leaves(incoming', ValidMode, mode', asked')
      <3>1. CASE msg \in ValidMode
        <4>1. Leaves(incoming \o <<msg>>, ValidMode, mode, msg.val)
          BY <1>4, <3>1, LeavesLast
        <4> QED
          BY <1>2, <1>3, <1>4, <2>1, <3>1, <4>1
      <3>2. CASE msg \notin ValidMode
        <4>1. Among(<<msg>>) \cap ValidMode = {}
          BY <3>2, AmongFew
        <4>2. Leaves(incoming, ValidMode, mode, asked)
          BY <1>8 DEF ModeKept
        <4>3. Leaves(incoming \o <<msg>>, ValidMode, mode, asked)
          BY <1>2, <1>4, <4>1, <4>2, LeavesMore
        <4> QED
          BY <1>2, <1>3, <1>4, <2>1, <3>2, <4>3
      <3> QED
        BY <3>1, <3>2
    <2>3. Leaves(sending, Status, retainedOf["status"].val, mode)'
      BY <1>2, <1>7, <1>8 DEF ModeKept
    <2> QED
      BY <1>2, <1>5, <1>6, <1>8, <2>2, <2>3 DEF ModeKept
  <1>9. CASE bootStage # "sealed"
    <2>1. asked' = asked /\ msg \notin ValidMode
      BY <1>3, <1>4, <1>9
    <2>2. Among(incoming') \subseteq Among(incoming) \cup {msg} /\ Among(incoming) \subseteq Among(incoming')
      <3>1. incoming \in Seq(AnyMessage) /\ <<msg>> \in Seq(AnyMessage)
        BY <1>2, <1>4
      <3>2. Among(incoming \o <<msg>>) = Among(incoming) \cup Among(<<msg>>)
        BY <3>1, JoinIs
      <3>3. Among(<<msg>>) = {msg}
        BY AmongFew
      <3> QED
        BY <1>2, <3>2, <3>3
    <2>3. OneVoice
      BY <1>9 DEF ModeKept
    <2>4. OneVoice'
      BY <1>2, <1>4, <1>7, <2>1, <2>2, <2>3 DEF OneVoice
    <2> QED
      BY <1>2, <1>5, <1>6, <1>9, <2>4 DEF ModeKept
  <1> QED
    BY <1>8, <1>9

\* The broker learns of a mode, and tells of it once the hub listens.
LEMMA BrokerKeepsMode ==
  ASSUME IntentTypes, ModeKept, BrokerTakes, [NextIntents]_intentsVars, ~Call
  PROVE  ModeKept'
  <1> DEFINE msg == Head(sending)
  <1>1. /\ sending # <<>> /\ sending' = Tail(sending)
        /\ UNCHANGED <<engine, adopter, bootStage, talk, ghosts>>
        /\ \/ /\ msg = Subscription /\ listening' = TRUE /\ UNCHANGED retainedOf
              /\ incoming' = incoming \o Retained({"status"})
           \/ /\ msg \in Status /\ UNCHANGED listening
              /\ retainedOf' = [retainedOf EXCEPT !["status"] = msg]
              /\ incoming' = incoming \o (IF listening THEN <<msg>> ELSE <<>>)
    BY BrokerTakesIs
  <1>2. Among(sending') \subseteq Among(sending) /\ msg \in Among(sending)
    BY <1>1, ModeMessages, TailIs
  <1>3. Leaves(sending, Status, retainedOf["status"].val, mode)
          => /\ msg \notin Status => Leaves(sending', Status, retainedOf["status"].val, mode)
             /\ msg \in Status => Leaves(sending', Status, msg.val, mode)
    BY <1>1, ModeMessages, LeavesTail
  <1> HIDE DEF msg
  <1>4. UNCHANGED <<mode, lastID, bootStage, asked>>
    BY <1>1 DEF adopter, ghosts
  <1>5. Remembered(ValidMode, "mode", mode)'
    BY <1>4, ModeRemembered DEF ModeKept
  <1>6. /\ Told' \cap About("mode") \subseteq Told \cap About("mode")
        /\ retainedOf'["mode"] = retainedOf["mode"]
    BY ModeMessages, NothingNew
  <1>7. \/ retainedOf' = retainedOf /\ msg \notin Status
        \/ retainedOf'["status"] = msg /\ msg \in Status
    <2>1. CASE msg = Subscription
      BY <1>1, <2>1, ModeMessages
    <2>2. CASE msg # Subscription
      <3>1. msg \in Status /\ retainedOf' = [retainedOf EXCEPT !["status"] = msg]
        BY <1>1, <2>2
      <3>2. retainedOf \in [Kinds -> AnyMessage \cup {Unset}] /\ "status" \in Kinds
        BY ModeMessages DEF IntentTypes
      <3> QED
        BY <3>1, <3>2
    <2> QED
      BY <2>1, <2>2
  <1>8. CASE bootStage = "sealed"
    <2>1. Leaves(incoming', ValidMode, mode, asked)
      <3>1. Leaves(incoming, ValidMode, mode, asked)
        BY <1>8 DEF ModeKept
      <3> QED
        BY <3>1, ModeMessages, BrokerLeaves
    <2>2. Leaves(sending', Status, retainedOf'["status"].val, mode)
      <3>1. Leaves(sending, Status, retainedOf["status"].val, mode)
        BY <1>8 DEF ModeKept
      <3> QED
        BY <1>3, <1>7, <3>1
    <2> QED
      BY <1>4, <1>5, <1>6, <1>8, <2>1, <2>2 DEF ModeKept
  <1>9. CASE bootStage # "sealed"
    <2>1. OneVoice
      BY <1>9 DEF ModeKept
    <2>2. /\ Among(incoming) \subseteq Among(incoming')
          /\ Among(incoming') \subseteq Among(incoming) \cup ({retainedOf["status"], msg} \cap Status)
          /\ ~listening /\ listening' /\ retainedOf["status"] # Unset
                => retainedOf["status"] \in Among(incoming')
      <3>1. CASE msg = Subscription /\ incoming' = incoming \o Retained({"status"})
        <4> DEFINE more == Retained({"status"})
        <4>1. /\ more \in Seq(AnyMessage) /\ Among(more) = {retainedOf["status"]} \ {Unset}
              /\ retainedOf["status"] \in Status \cup {Unset}
          <5>1. {"status"} \in SUBSET Kinds
            BY ModeMessages
          <5> QED
            BY <5>1, RetainedIs DEF IntentTypes, Status
        <4> HIDE DEF more
        <4>2. Among(incoming \o more) = Among(incoming) \cup Among(more)
          BY <4>1, ModeMessages, JoinIs
        <4>3. Among(incoming') = Among(incoming) \cup Among(more)
          BY <3>1, <4>2 DEF more
        <4> QED
          BY <4>1, <4>3
      <3>2. CASE /\ msg \in Status /\ UNCHANGED listening
                 /\ incoming' = incoming \o (IF listening THEN <<msg>> ELSE <<>>)
        <4>1. msg \in AnyMessage /\ incoming \in Seq(AnyMessage)
          BY <3>2, ModeMessages
        <4>2. CASE listening
          <5>1. <<msg>> \in Seq(AnyMessage)
            BY <4>1
          <5>2. Among(incoming \o <<msg>>) = Among(incoming) \cup Among(<<msg>>)
            BY <4>1, <5>1, JoinIs
          <5>3. Among(<<msg>>) = {msg}
            BY AmongFew
          <5>4. Among(incoming') = Among(incoming) \cup {msg}
            BY <3>2, <4>2, <5>2, <5>3
          <5> QED
            BY <3>2, <4>2, <5>4
        <4>3. CASE ~listening
          <5>1. incoming' = incoming /\ ~listening'
            BY <3>2, <4>1, <4>3
          <5> QED
            BY <5>1
        <4> QED
          BY <4>2, <4>3
      <3> QED
        BY <1>1, <3>1, <3>2
    <2>3. \A x \in Among(incoming') \cap ValidMode : x.val = asked
      BY <2>1, <2>2, ModeMessages DEF OneVoice
    <2>4. \A k \in Kinds : retainedOf'[k] = retainedOf[k] \/ retainedOf'[k] = msg
      BY <1>1 DEF IntentTypes
    <2>5. (Told' \cup Among(sending')) \cap Status \subseteq (Told \cup Among(sending)) \cap Status
      BY <1>2, <2>2, <2>4, ModeMessages DEF Told
    <2>6. retainedOf'["status"] = Unset => mode = asked
      BY <1>7, <2>1, ModeMessages DEF OneVoice
    <2>7. mode = asked \/ ~listening' \/ Among(incoming') \cap Status # {}
      <3>1. CASE listening \/ ~listening'
        BY <2>1, <2>2, <1>1, <3>1 DEF OneVoice
      <3>2. CASE ~listening /\ listening'
        BY <2>1, <2>2, <3>2, ModeMessages DEF OneVoice, IntentTypes, Status
      <3> QED
        BY <3>1, <3>2
    <2>8. OneVoice'
      BY <1>4, <2>1, <2>3, <2>5, <2>6, <2>7 DEF OneVoice
    <2> QED
      BY <1>4, <1>5, <1>6, <1>9, <2>8 DEF ModeKept
  <1> QED
    BY <1>8, <1>9

\* A new session brings the retained mode once more.
LEMMA ReconnectKeepsMode ==
  ASSUME IntentTypes, ModeKept, Reconnect, Quiet', [NextIntents]_intentsVars, ~Call
  PROVE  ModeKept'
  <1>1. /\ UNCHANGED <<adopter, retainedOf, sending, bootStage, listening, asked>>
        /\ incoming' = Retained(IF listening THEN Kinds ELSE Kinds \ {"status"})
        /\ \A k \in 1..Len(incoming) : incoming[k].kind # "mode"
    BY DEF Reconnect, Quiet
  <1>2. UNCHANGED <<mode, lastID>>
    BY <1>1 DEF adopter
  <1>3. Remembered(ValidMode, "mode", mode)'
    BY <1>2, ModeRemembered DEF ModeKept
  <1> DEFINE K == IF listening THEN Kinds ELSE Kinds \ {"status"}
  <1>4. K \in SUBSET Kinds /\ (listening => "status" \in K) /\ incoming' = Retained(K)
    BY <1>1, ModeMessages
  <1> HIDE DEF K
  <1>5. /\ incoming' \in Seq(AnyMessage)
        /\ Among(incoming') = {retainedOf[k] : k \in K} \ {Unset}
    BY <1>4, RetainedIs
  <1>6. \A x \in Among(incoming') \cap ValidMode : x.val = asked
    BY <1>4, <1>5, ModeMessages DEF ModeKept
  <1>7. CASE bootStage = "sealed"
    <2>1. Among(incoming) \cap ValidMode = {}
      <3>1. \A x \in Among(incoming) : x.kind # "mode"
        BY <1>1 DEF Among
      <3> QED
        BY <3>1, ModeMessages, AboutIs
    <2>2. mode = asked
      <3>1. Leaves(incoming, ValidMode, mode, asked)
        BY <1>7 DEF ModeKept
      <3> QED
        BY <2>1, <3>1 DEF Leaves, Among
    <2>3. Leaves(incoming', ValidMode, mode, asked)
      BY <1>5, <1>6, <2>2, LeavesSame
    <2> QED
      BY <1>1, <1>2, <1>3, <1>7, <2>3 DEF ModeKept
  <1>8. CASE bootStage # "sealed"
    <2>1. OneVoice
      BY <1>8 DEF ModeKept
    <2>2. Told' \subseteq Told
      BY <1>1, <1>4, <1>5 DEF Told
    <2>3. listening /\ retainedOf["status"] # Unset => retainedOf["status"] \in Among(incoming') \cap Status
      BY <1>4, <1>5, ModeMessages DEF IntentTypes, Status
    <2>4. OneVoice'
      BY <1>1, <1>2, <1>6, <2>1, <2>2, <2>3 DEF OneVoice
    <2> QED
      BY <1>1, <1>2, <1>3, <1>8, <2>4 DEF ModeKept
  <1> QED
    BY <1>7, <1>8

\* A crash in time leaves the status that will bring the mode back.
LEMMA CrashKeepsMode ==
  ASSUME IntentTypes, Numbered("mode"), ModeKept, Crash, Quiet', [NextIntents]_intentsVars, ~Call
  PROVE  ModeKept'
  <1>1. /\ bootStage' = "down" /\ listening' = FALSE /\ incoming' = <<>> /\ sending' = <<>>
        /\ UNCHANGED <<retainedOf, asked>>
        /\ retainedOf["status"] # Unset /\ retainedOf["status"].val = asked
    BY DEF Crash, Quiet
  <1>2. lastID'["mode"] = 0
    BY KindsAre DEF Crash, NoIDs
  <1>3. Told' \cap About("mode") \subseteq Told \cap About("mode")
    BY ModeMessages, NothingNew
  <1>4. Remembered(ValidMode, "mode", mode)'
    <2>1. talk["mode"] \in Nat /\ \A x \in About("mode") : x.id \in Nat
      BY ModeMessages, AboutIs DEF IntentTypes
    <2>2. \A x \in Told \cap About("mode") : x.id # 0
      BY <2>1 DEF Numbered
    <2> QED
      BY <1>2, <1>3, <2>2, ModeMessages DEF Remembered
  <1>5. Among(incoming') = {} /\ Among(sending') = {}
    BY <1>1, AmongFew
  <1>6. \A x \in Told' \cap Status : x.val = asked
    BY <1>1, <1>5, ModeMessages DEF Told
  <1>7. OneVoice'
    BY <1>1, <1>5, <1>6 DEF OneVoice
  <1> QED
    BY <1>1, <1>4, <1>7 DEF ModeKept

\* The boot is sealed only with the mode restored.
LEMMA BootKeepsMode ==
  ASSUME IntentTypes, Subscribing, ModeKept, BootHub, Quiet', [NextIntents]_intentsVars, ~Call
  PROVE  ModeKept'
  <1>1. /\ UNCHANGED <<adopter, retainedOf, listening, asked>> /\ bootStage # "sealed"
        /\ \/ /\ SubscribeIntents /\ incoming' = Retained(Kinds \ {"status"}) /\ sending' = sending
              /\ bootStage = "down" /\ bootStage' # "sealed"
           \/ /\ sending' = sending \o <<Subscription>> /\ incoming' = incoming
              /\ bootStage' # "sealed"
           \/ sending' = sending /\ incoming' = incoming /\ bootStage' # "sealed"
           \/ /\ sending' = sending \o <<Message("status", 0, mode)>> /\ incoming' = incoming
              /\ bootStage = "started" /\ bootStage' = "sealed"
              /\ \A k \in 1..Len(incoming) : incoming[k].kind # "status"
    BY DEF BootHub, SubscribeIntents, SubscribeStatus, StartEngine, SealBoot, SendToBroker, Subscription,
       Quiet, broker, ghosts
  <1>2. UNCHANGED <<mode, lastID>>
    BY <1>1 DEF adopter
  <1>3. Remembered(ValidMode, "mode", mode)'
    BY <1>2, ModeRemembered DEF ModeKept
  <1>4. OneVoice
    BY <1>1 DEF ModeKept
  <1>5. \A x \in Told \cap ValidMode : x.val = asked
    BY <1>4, TellsTheMode
  <1>6. CASE /\ incoming' = Retained(Kinds \ {"status"}) /\ sending' = sending
             /\ bootStage = "down" /\ bootStage' # "sealed"
    <2>1. Among(incoming') \subseteq Told
      <3>1. Kinds \ {"status"} \in SUBSET Kinds
        OBVIOUS
      <3> QED
        BY <1>6, <3>1, RetainedIs DEF Told
    <2>2. Told' \subseteq Told
      BY <1>1, <2>1 DEF Told
    <2>3. ~listening'
      BY <1>1, <1>6 DEF Subscribing
    <2>4. OneVoice'
      BY <1>1, <1>2, <1>4, <1>5, <1>6, <2>1, <2>2, <2>3 DEF OneVoice
    <2> QED
      BY <1>1, <1>2, <1>3, <1>6, <2>4 DEF ModeKept
  <1>7. CASE /\ sending' = sending \o <<Subscription>> \/ sending' = sending
             /\ incoming' = incoming /\ bootStage' # "sealed"
    <2>1. Among(sending') \cap Status \subseteq Among(sending)
      <3>1. /\ sending \in Seq(Status \cup {Subscription})
            /\ <<Subscription>> \in Seq(Status \cup {Subscription})
        BY ModeMessages
      <3>2. Among(sending \o <<Subscription>>) = Among(sending) \cup Among(<<Subscription>>)
        BY <3>1, JoinIs
      <3>3. Among(<<Subscription>>) = {Subscription} /\ Subscription \notin Status
        BY AmongFew, ModeMessages
      <3> QED
        BY <1>7, <3>2, <3>3
    <2>2. Told' = Told
      BY <1>1, <1>7 DEF Told
    <2>3. OneVoice'
      BY <1>1, <1>2, <1>4, <1>7, <2>1, <2>2 DEF OneVoice
    <2> QED
      BY <1>1, <1>2, <1>3, <1>7, <2>3 DEF ModeKept
  <1>8. CASE /\ sending' = sending \o <<Message("status", 0, mode)>> /\ incoming' = incoming
             /\ bootStage = "started" /\ bootStage' = "sealed"
             /\ \A k \in 1..Len(incoming) : incoming[k].kind # "status"
    <2>1. Among(incoming) \cap Status = {}
      <3>1. \A x \in Among(incoming) : x.kind # "status"
        BY <1>8 DEF Among
      <3> QED
        BY <3>1, AboutIs DEF Status
    <2>2. mode = asked
      BY <1>4, <1>8, <2>1 DEF OneVoice, Subscribing
    <2>3. Leaves(incoming, ValidMode, mode, asked)
      <3>1. \A x \in Among(incoming) \cap ValidMode : x.val = asked
        BY <1>4 DEF OneVoice
      <3> QED
        BY <2>2, <3>1, ModeMessages, LeavesSame
    <2>4. Leaves(sending', Status, retainedOf["status"].val, mode)
      <3> DEFINE x == Message("status", 0, mode)
      <3>1. x \in Status /\ x.val = mode
        <4>1. mode \in Said["status"] /\ "status" \in Topics \cup {"status"}
          BY KindsAre DEF IntentTypes
        <4> QED
          BY <4>1, AboutIs DEF Status, Message
      <3> HIDE DEF x
      <3>2. sending \in Seq(Status \cup {Subscription}) /\ x \in Status \cup {Subscription}
        BY <3>1, ModeMessages
      <3>3. Leaves(sending \o <<x>>, Status, retainedOf["status"].val, x.val)
        BY <3>1, <3>2, LeavesLast
      <3> QED
        BY <1>8, <3>1, <3>3 DEF x
    <2> QED
      BY <1>1, <1>2, <1>3, <1>8, <2>3, <2>4 DEF ModeKept
  <1> QED
    BY <1>1, <1>6, <1>7, <1>8

\* A mode that comes again, or is no mode, changes nothing; a new one is in
\* charge and its status on its way.
LEMMA HandleKeepsMode ==
  ASSUME IntentTypes, Numbered("mode"), ModeKept, Handle
  PROVE  ModeKept'
  <1> DEFINE m == Head(incoming)
             answer == Message("status", m.id, m.val)
  <1>1. /\ m \in AnyMessage /\ m \in Told /\ incoming # <<>> /\ incoming' = Tail(incoming)
        /\ UNCHANGED <<retainedOf, bootStage, listening, asked>>
    BY HandleCases DEF ghosts
  <1>2. ModeEffect(m)
    BY ModeOfHead
  <1>3. /\ Among(incoming') \subseteq Among(incoming)
        /\ Among(incoming) = {m} \cup Among(incoming')
    BY <1>1, ModeMessages, TailIs
  <1>4. Leaves(incoming, ValidMode, mode, asked)
          => /\ m \notin ValidMode => Leaves(incoming', ValidMode, mode, asked)
             /\ m \in ValidMode => Leaves(incoming', ValidMode, m.val, asked)
    BY <1>1, ModeMessages, LeavesTail
  <1> HIDE DEF m
  <1>5. Told' \subseteq Told
    BY <1>1, <1>3 DEF Told
  <1>6. m \in Status => m \notin About("mode") /\ m \notin ValidMode
    BY ModeMessages, StatusesAside
  <1>7. m \in ValidMode => mode' = m.val /\ lastID'["mode"] = m.id
    <2>1. m \in ValidMode /\ m.id = lastID["mode"] => m.val = mode
      BY <1>1 DEF ModeKept, Remembered
    <2> QED
      BY <1>2, <1>6, <2>1, ModeMessages DEF ModeEffect
  <1>8. \/ mode' = mode /\ sending' = sending /\ (m \in Status => bootStage = "sealed")
        \/ m \in Status /\ bootStage # "sealed" /\ mode' = m.val /\ sending' = sending
        \/ m \in ValidMode /\ mode' = m.val /\ sending' = sending \o <<answer>>
    BY <1>2, <1>6 DEF ModeEffect
  <1>9. m \in ValidMode => answer \in Status /\ answer.val = m.val
    <2>1. m \in ValidMode => m.val \in Said["status"] /\ m.id \in Nat
      BY KindsAre DEF ValidMode
    <2> QED
      BY <2>1, AboutIs DEF Status, Message
  <1> HIDE DEF answer
  <1>10. Among(sending') \cap Status \subseteq Among(sending) \cup (IF m \in ValidMode THEN {answer} ELSE {})
    <2>1. CASE sending' = sending
      BY <2>1
    <2>2. CASE m \in ValidMode /\ sending' = sending \o <<answer>>
      <3>1. sending \in Seq(Status \cup {Subscription}) /\ <<answer>> \in Seq(Status \cup {Subscription})
        BY <1>9, <2>2, ModeMessages
      <3>2. Among(sending \o <<answer>>) = Among(sending) \cup Among(<<answer>>)
        BY <3>1, JoinIs
      <3>3. Among(<<answer>>) = {answer}
        BY AmongFew
      <3> QED
        BY <2>2, <3>2, <3>3
    <2> QED
      BY <1>8, <2>1, <2>2
  <1>11. bootStage # "sealed" => /\ \A x \in Told \cap ValidMode : x.val = asked
                                 /\ \A x \in Told \cap Status : x.val = asked
    BY TellsTheMode DEF ModeKept, OneVoice
  <1>12. Remembered(ValidMode, "mode", mode)'
    <2> SUFFICES ASSUME NEW x \in Told' \cap ValidMode, x.id = lastID'["mode"]
                 PROVE  x.val = mode'
      BY DEF Remembered
    <2>1. x \in Told \cap ValidMode /\ x \in Told \cap About("mode")
      BY <1>5, ModeMessages
    <2>2. CASE m \in About("mode")
      <3>1. lastID'["mode"] = m.id
        BY <1>2, <1>6, <2>2 DEF ModeEffect
      <3>2. x = m
        BY <1>1, <2>1, <2>2, <3>1 DEF Numbered
      <3> QED
        BY <1>7, <2>1, <3>2
    <2>3. CASE m \notin About("mode")
      <3>1. lastID'["mode"] = lastID["mode"] /\ m \notin ValidMode
        BY <1>2, <2>3, ModeMessages DEF ModeEffect
      <3>2. x.val = mode
        BY <2>1, <3>1 DEF ModeKept, Remembered
      <3> QED
        BY <1>1, <1>8, <1>11, <2>1, <3>1, <3>2
    <2> QED
      BY <2>2, <2>3
  <1>13. retainedOf'["mode"] \in ValidMode => retainedOf'["mode"].val = asked'
    BY <1>1 DEF ModeKept
  <1>14. CASE bootStage = "sealed"
    <2>1. Leaves(incoming', ValidMode, mode', asked)
      <3>1. Leaves(incoming, ValidMode, mode, asked)
        BY <1>14 DEF ModeKept
      <3> QED
        BY <1>4, <1>7, <1>8, <1>14, <3>1
    <2>2. Leaves(sending', Status, retainedOf["status"].val, mode')
      <3>1. CASE sending' = sending /\ mode' = mode
        BY <1>14, <3>1 DEF ModeKept
      <3>2. CASE m \in ValidMode /\ mode' = m.val /\ sending' = sending \o <<answer>>
        <4>1. sending \in Seq(Status \cup {Subscription}) /\ answer \in Status \cup {Subscription}
          BY <1>9, <3>2, ModeMessages
        <4>2. Leaves(sending \o <<answer>>, Status, retainedOf["status"].val, answer.val)
          BY <1>9, <3>2, <4>1, LeavesLast
        <4> QED
          BY <1>9, <3>2, <4>2
      <3> QED
        BY <1>8, <1>14, <3>1, <3>2
    <2> QED
      BY <1>1, <1>12, <1>13, <1>14, <2>1, <2>2 DEF ModeKept
  <1>15. CASE bootStage # "sealed"
    <2>1. OneVoice
      BY <1>15 DEF ModeKept
    <2>2. mode' = asked \/ (mode' = mode /\ m \notin Status)
      BY <1>1, <1>8, <1>11, <1>15
    <2>3. \A x \in Among(sending') \cap Status : x.val = asked
      BY <1>1, <1>9, <1>10, <1>11, <1>15, <2>1 DEF OneVoice
    <2>4. \A x \in Told' \cap Status : x.val = asked
      BY <1>5, <1>11, <1>15
    <2>5. \A x \in Among(incoming') \cap ValidMode : x.val = asked
      BY <1>3, <2>1 DEF OneVoice
    <2>6. mode' = asked \/ ~listening \/ Among(incoming') \cap Status # {}
      BY <1>3, <2>1, <2>2 DEF OneVoice
    <2>7. retainedOf["status"] = Unset => mode' = asked
      BY <2>1, <2>2 DEF OneVoice
    <2>8. OneVoice'
      BY <1>1, <2>3, <2>4, <2>5, <2>6, <2>7 DEF OneVoice
    <2> QED
      BY <1>1, <1>12, <1>13, <1>15, <2>8 DEF ModeKept
  <1> QED
    BY <1>14, <1>15

\* The mode is kept, step by step.
LEMMA ModeKeptStep ==
  ASSUME IntentTypes, Numbered("mode"), Subscribing, Quiet => ModeKept, [NextIntents]_intentsVars
  PROVE  (Quiet => ModeKept)'
  <1> SUFFICES ASSUME Quiet' PROVE ModeKept'
    OBVIOUS
  <1>0. ModeKept
    BY QuietBefore
  <1>1. CASE Call
    BY <1>0, <1>1, CallKeepsMode
  <1>2. CASE ~Call /\ (BrokerTakes \/ Reconnect \/ Crash)
    BY <1>0, <1>2, BrokerKeepsMode, ReconnectKeepsMode, CrashKeepsMode
  <1>3. CASE ~Call /\ BootHub
    BY <1>0, <1>3, BootKeepsMode
  <1>4. CASE Handle
    BY <1>0, <1>4, HandleKeepsMode
  <1>5. CASE UNCHANGED <<mode, lastID, broker, bootStage, listening, asked>>
    <2>1. UNCHANGED <<mode, lastID, retainedOf, incoming, sending, bootStage, listening, asked>>
      BY <1>5 DEF broker
    <2>2. Told' = Told
      BY <2>1 DEF Told
    <2>3. OneVoice' = OneVoice
      BY <2>1, <2>2 DEF OneVoice
    <2> QED
      BY <1>0, <2>1, <2>2, <2>3 DEF ModeKept, Remembered
  <1>6. CASE EngineSteps
    BY <1>5, <1>6, EngineStepsRun DEF HubRest, adopter, ghosts
  <1>7. CASE TimerFires \/ Reverts \/ DepartureComes \/ UNCHANGED intentsVars
    BY <1>5, <1>7 DEF TimerFires, Reverts, Revert, DepartureComes, intentsVars, adopter, ghosts
  <1> QED
    BY <1>1, <1>2, <1>3, <1>4, <1>6, <1>7 DEF NextIntents, EngineSteps

-----------------------------------------------------------------------------
\* The invariant holds at the start, ...
LEMMA InputsStart == InitIntents => InputsInv
  <1> SUFFICES ASSUME InitIntents PROVE InputsInv
    OBVIOUS
  <1>1. /\ IntentTypes /\ incoming = <<>> /\ sending = <<>> /\ bootStage = "down" /\ listening = FALSE
        /\ mode = CfgMode /\ asked = CfgMode /\ standing = Unset /\ timer = Unset /\ fired = {}
        /\ \A k \in Kinds : retainedOf[k] = Unset
        /\ lastID = NoIDs /\ past = {} /\ meant["goal"] = Unset /\ planIn = NoInputs /\ cmds = <<>>
    BY IntentTypesStart DEF InitIntents, NewEngine, Lasting
  <1>2. Among(incoming) = {} /\ Among(sending) = {} /\ Told \subseteq {Unset}
    BY <1>1, AmongFew DEF Told
  <1>3. Told \cap About("goal") = {} /\ Told \cap About("mode") = {} /\ Told \cap Status = {}
    BY <1>2, UnsetIsNoMessage
  <1>4. ValidMode \subseteq About("mode") /\ Unset \notin ValidMode
    BY KindsAre, UnsetIsNoMessage
  <1>5. lastID["goal"] = 0 /\ lastID["mode"] = 0
    BY <1>1, KindsAre DEF NoIDs
  <1>6. Numbered("goal") /\ Numbered("mode")
    BY <1>3, <1>5 DEF Numbered
  <1>7. GoalArrives
    <2>1. retainedOf["goal"] \notin GoodGoal /\ Told \cap GoodGoal = {}
      BY <1>1, <1>3, KindsAre, UnsetIsNoMessage DEF GoodGoal, Goal
    <2> QED
      BY <1>1, <2>1 DEF GoalArrives, Remembered
  <1>8. GoalAdopted
    BY <1>1, NothingAhead DEF GoalAdopted
  <1>9. OneVoice
    BY <1>1, <1>2, <1>3 DEF OneVoice
  <1>10. "mode" \in Kinds
    BY KindsAre
  <1>11. ModeKept
    BY <1>1, <1>3, <1>4, <1>9, <1>10 DEF ModeKept, Remembered
  <1>12. Subscribing
    BY <1>1 DEF Subscribing
  <1> QED
    BY <1>1, <1>6, <1>7, <1>8, <1>11, <1>12 DEF InputsInv

\* ... is kept by every step, ...
LEMMA InputsStep == InputsInv /\ [NextIntents]_intentsVars => InputsInv'
  <1> SUFFICES ASSUME InputsInv, [NextIntents]_intentsVars PROVE InputsInv'
    OBVIOUS
  <1>1. IntentTypes /\ "goal" \in Subjects /\ "mode" \in Subjects
    BY DEF InputsInv, Subjects
  <1>2. IntentTypes'
    BY <1>1, IntentTypesStep
  <1>3. Numbered("goal")' /\ Numbered("mode")'
    <2>1. Numbered("goal")'
      BY <1>1, NumberedStep DEF InputsInv
    <2>2. Numbered("mode")'
      BY <1>1, NumberedStep DEF InputsInv
    <2> QED
      BY <2>1, <2>2
  <1>4. GoalArrives' /\ GoalAdopted'
    BY <1>1, GoalArrivesStep, GoalAdoptedStep DEF InputsInv
  <1>5. Subscribing' /\ (Quiet => ModeKept)'
    BY SubscribingStep, ModeKeptStep DEF InputsInv
  <1> QED
    BY <1>2, <1>3, <1>4, <1>5 DEF InputsInv

\* ... and says what the hub promises of its inputs.
LEMMA InputsSuffice == InputsInv => InputsAreKept
  <1> SUFFICES ASSUME InputsInv PROVE GoalInForce /\ ModeSurvives
    BY DEF InputsAreKept
  <1>1. GoalInForce
    <2>1. ASSUME bootStage # "down", incoming = <<>>, "goal" \notin lost
          PROVE  standing = meant["goal"]
      <3>1. Leaves(<<>>, GoodGoal, standing, meant["goal"])
        BY <2>1 DEF InputsInv, GoalArrives
      <3> QED
        BY <3>1 DEF Leaves
    <2>2. dropped \/ Applied(planIn, cmds).goal =
              IF standing = Unset THEN Unset ELSE <<standing, IF Reverting THEN "now" ELSE "stated">>
      BY DEF InputsInv, GoalAdopted
    <2> QED
      BY <2>1, <2>2 DEF GoalInForce
  <1>2. ModeSurvives
    <2> SUFFICES ASSUME bootStage = "sealed", incoming = <<>>, sending = <<>>, ~untimely, ~outrun
                 PROVE  mode = asked /\ retainedOf["status"].val = mode
      BY DEF ModeSurvives, HubSettled
    <2>1. Leaves(<<>>, ValidMode, mode, asked) /\ Leaves(<<>>, Status, retainedOf["status"].val, mode)
      BY DEF InputsInv, Quiet, ModeKept
    <2> QED
      BY <2>1 DEF Leaves
  <1> QED
    BY <1>1, <1>2

\* What the hub was told outlives what comes in between: the goal the engine
\* has or is about to have is the last one that was stated well, whatever is
\* rejected, expires or comes again in the meantime (openadr_adopt.go,
\* intent.go: adopt, applyEVGoal, applyChargeNow, revertChargeNow), and a mode
\* the hub had settled on survives the process (mode.go, main.go).
THEOREM InputsStayKept == SpecIntents => []InputsAreKept
  <1>1. InitIntents => InputsInv
    BY InputsStart
  <1>2. InputsInv /\ [NextIntents]_intentsVars => InputsInv'
    BY InputsStep
  <1>3. InputsInv => InputsAreKept
    BY InputsSuffice
  <1> QED
    BY <1>1, <1>2, <1>3, PTL DEF SpecIntents

-----------------------------------------------------------------------------
(* The planner plans soundly.                                              *)
(*                                                                         *)
(* Runs(R) says that R holds the least cost of each state before each      *)
(* step; the dynamic program's table is that, step by step, and the moves  *)
(* it recorded lead back along one of the cheapest runs.                   *)

\* Among finitely many things with a number each, one has the least.
LEMMA LeastOfAll ==
    ASSUME NEW S, IsFiniteSet(S), S # {}, NEW f, \A x \in S : f[x] \in Int
    PROVE  \E x \in S : \A y \in S : f[x] <= f[y]
<1>1. PICK n \in Nat : ExistsSurjection(1..n, S)
  BY FS_NatSurjection
<1>2. PICK e \in Surjection(1..n, S) : TRUE
  BY <1>1 DEF ExistsSurjection
<1>3. e \in [1..n -> S] /\ \A x \in S : \E k \in 1..n : e[k] = x
  BY <1>2 DEF Surjection
<1>4. n # 0
  BY <1>3
<1> DEFINE T == {m \in Nat : m + 1 <= n =>
                      \E k \in 1..m + 1 : \A j \in 1..m + 1 : f[e[k]] <= f[e[j]]}
<1>5. 0 \in T
  <2>1. 1 <= n => 1 \in 1..n /\ f[e[1]] \in Int
    BY <1>3
  <2> QED BY <2>1
<1>6. ASSUME NEW m \in Nat, m \in T PROVE m + 1 \in T
  <2> SUFFICES ASSUME m + 2 <= n
               PROVE  \E k \in 1..m + 2 : \A j \in 1..m + 2 : f[e[k]] <= f[e[j]]
    <3>1. m + 1 \in Nat /\ (m + 1) + 1 = m + 2
      OBVIOUS
    <3> QED BY <3>1
  <2>1. PICK k \in 1..m + 1 : \A j \in 1..m + 1 : f[e[k]] <= f[e[j]]
    BY <1>6
  <2>2. \A j \in 1..m + 2 : j \in 1..n /\ f[e[j]] \in Int
    BY <1>3
  <2>3. k \in 1..m + 2 /\ m + 2 \in 1..m + 2 /\ \A j \in 1..m + 2 : j \in 1..m + 1 \/ j = m + 2
    OBVIOUS
  <2> HIDE DEF T
  <2>4. CASE f[e[k]] <= f[e[m + 2]]
    <3>1. \A j \in 1..m + 2 : f[e[k]] <= f[e[j]]
      BY <2>1, <2>3, <2>4
    <3> QED BY <2>3, <3>1
  <2>5. CASE f[e[m + 2]] < f[e[k]]
    <3>1. f[e[k]] \in Int /\ f[e[m + 2]] \in Int
      BY <2>2, <2>3
    <3>2. ASSUME NEW j \in 1..m + 2 PROVE f[e[m + 2]] <= f[e[j]]
      <4>1. f[e[j]] \in Int /\ (j \in 1..m + 1 => f[e[k]] <= f[e[j]])
        BY <2>1, <2>2
      <4> QED BY <2>3, <2>5, <3>1, <4>1
    <3> QED BY <2>3, <3>2
  <2>6. f[e[k]] \in Int /\ f[e[m + 2]] \in Int
    BY <2>2, <2>3
  <2>7. f[e[k]] <= f[e[m + 2]] \/ f[e[m + 2]] < f[e[k]]
    BY <2>6
  <2> QED BY <2>4, <2>5, <2>7
<1> HIDE DEF T
<1>7. n - 1 \in T
  BY <1>4, <1>5, <1>6, Induction
<1>8. PICK k \in 1..n : \A j \in 1..n : f[e[k]] <= f[e[j]]
  BY <1>4, <1>7 DEF T
<1> QED BY <1>3, <1>8

\* The nearest level is a level, and a level is nearest to itself.
LEMMA ClosestIsLevel ==
    ASSUME NEW levels \in SUBSET Int, IsFiniteSet(levels), levels # {}, NEW x \in Int
    PROVE  /\ Closest(levels, x) \in levels
           /\ x \in levels => Closest(levels, x) = x
<1> DEFINE far == [l \in levels |-> Abs(l - x)]
           near == {l \in levels : \A m \in levels : far[l] <= far[m]}
           id == [l \in near |-> l]
           Nearest(l) == \A m \in levels : \/ Abs(l - x) < Abs(m - x)
                                           \/ Abs(l - x) = Abs(m - x) /\ l <= m
<1>1. \A l \in levels : l \in Int /\ far[l] = Abs(l - x) /\ far[l] \in Int
  BY DEF Abs
<1>2. near # {}
  <2> HIDE DEF far
  <2> QED BY <1>1, LeastOfAll
<1>3. IsFiniteSet(near)
  BY FS_Subset
<1>4. \A l \in near : id[l] = l /\ l \in Int
  OBVIOUS
<1>5. PICK l \in near : \A m \in near : id[l] <= id[m]
  <2> HIDE DEF near, id
  <2> QED BY <1>2, <1>3, <1>4, LeastOfAll
<1>6. l \in levels /\ Nearest(l)
  <2>1. ASSUME NEW m \in levels, ~(Abs(l - x) < Abs(m - x))
        PROVE  Abs(l - x) = Abs(m - x) /\ l <= m
    <3>1. far[l] <= far[m] /\ far[l] = Abs(l - x) /\ far[m] = Abs(m - x)
      BY <1>1, <1>5
    <3>2. far[l] = far[m]
      BY <1>1, <2>1, <3>1
    <3>3. m \in near
      BY <3>2, <1>5
    <3> QED BY <1>4, <1>5, <3>1, <3>2, <3>3
  <2> QED BY <2>1
<1>7. Closest(levels, x) \in levels /\ Nearest(Closest(levels, x))
  BY <1>6 DEF Closest
<1>8. ASSUME x \in levels PROVE Closest(levels, x) = x
  <2> DEFINE c == Closest(levels, x)
  <2>1. c \in Int /\ (Abs(c - x) < Abs(x - x) \/ Abs(c - x) = Abs(x - x))
    BY <1>7, <1>8
  <2> HIDE DEF c
  <2>2. c = x
    BY <2>1 DEF Abs
  <2> QED BY <2>2 DEF c
<1> QED BY <1>7, <1>8

\* Of finitely many moves some are kept, and none costs less than those.
LEMMA BestIsCheapest ==
    ASSUME NEW moves, IsFiniteSet(moves), moves # {},
           \A m \in moves : {m.cost, m.from[1], m.from[2], m.cmd, m.cur} \subseteq Int
    PROVE  /\ Best(moves) # {} /\ Best(moves) \subseteq moves
           /\ \A m \in Best(moves) : \A n \in moves : m.cost <= n.cost
<1>1. ASSUME NEW S \in SUBSET moves, S # {}, NEW f, \A m \in S : f[m] \in Int
      PROVE  \E m \in S : \A n \in S : f[m] <= f[n]
  <2>1. IsFiniteSet(S)
    BY FS_Subset
  <2> QED BY <1>1, <2>1, LeastOfAll
<1> DEFINE cost == [m \in moves |-> m.cost]
           batt == [m \in moves |-> m.from[1]]
           ev == [m \in moves |-> m.from[2]]
           cmd == [m \in moves |-> m.cmd]
           cur == [m \in moves |-> m.cur]
           s0 == {m \in moves : \A n \in moves : cost[m] <= cost[n]}
           s1 == {m \in s0 : \A n \in s0 : batt[m] <= batt[n]}
           s2 == {m \in s1 : \A n \in s1 : ev[m] <= ev[n]}
           s3 == {m \in s2 : \A n \in s2 : cmd[m] <= cmd[n]}
           s4 == {m \in s3 : \A n \in s3 : cur[m] <= cur[n]}
<1>2. \A m \in moves : /\ cost[m] = m.cost /\ batt[m] = m.from[1] /\ ev[m] = m.from[2]
                       /\ cmd[m] = m.cmd /\ cur[m] = m.cur
                       /\ m.cost \in Int /\ m.from[1] \in Int /\ m.from[2] \in Int
                       /\ m.cmd \in Int /\ m.cur \in Int
  OBVIOUS
<1> HIDE DEF cost, batt, ev, cmd, cur
<1>3. /\ s0 \subseteq moves /\ s1 \subseteq s0 /\ s2 \subseteq s1
      /\ s3 \subseteq s2 /\ s4 \subseteq s3
  OBVIOUS
<1>4. s0 # {}
  <2>1. PICK m \in moves : \A n \in moves : cost[m] <= cost[n]
    BY <1>1, <1>2
  <2> QED BY <2>1
<1>5. s1 # {}
  <2> HIDE DEF s0
  <2>1. \A m \in s0 : batt[m] \in Int
    BY <1>2, <1>3
  <2>2. PICK m \in s0 : \A n \in s0 : batt[m] <= batt[n]
    BY <1>1, <1>3, <1>4, <2>1
  <2> QED BY <2>2
<1>6. s2 # {}
  <2> HIDE DEF s0, s1
  <2>1. \A m \in s1 : ev[m] \in Int
    BY <1>2, <1>3
  <2>2. PICK m \in s1 : \A n \in s1 : ev[m] <= ev[n]
    BY <1>1, <1>3, <1>5, <2>1
  <2> QED BY <2>2
<1>7. s3 # {}
  <2> HIDE DEF s0, s1, s2
  <2>1. \A m \in s2 : cmd[m] \in Int
    BY <1>2, <1>3
  <2>2. PICK m \in s2 : \A n \in s2 : cmd[m] <= cmd[n]
    BY <1>1, <1>3, <1>6, <2>1
  <2> QED BY <2>2
<1>8. s4 # {}
  <2> HIDE DEF s0, s1, s2, s3
  <2>1. \A m \in s3 : cur[m] \in Int
    BY <1>2, <1>3
  <2>2. PICK m \in s3 : \A n \in s3 : cur[m] <= cur[n]
    BY <1>1, <1>3, <1>7, <2>1
  <2> QED BY <2>2
<1>9. PICK m \in s4 : TRUE
  BY <1>8
<1>10. ASSUME NEW n \in moves, ~(m.cost < n.cost) PROVE m.cost = n.cost /\ ~Before(n, m)
  <2>0. m \in moves /\ m \in s0 /\ m \in s1 /\ m \in s2 /\ m \in s3
    BY <1>3, <1>9
  <2>1. m.cost = n.cost /\ n \in s0
    <3>1. cost[m] <= cost[n] /\ cost[m] = m.cost /\ cost[n] = n.cost
      BY <1>2, <2>0
    <3>2. cost[n] = cost[m] /\ m.cost = n.cost
      <4>1. m.cost \in Int /\ n.cost \in Int
        BY <1>2, <2>0
      <4>2. m.cost <= n.cost /\ ~(m.cost < n.cost)
        BY <1>10, <3>1
      <4> HIDE DEF s0, s1, s2, s3, s4
      <4>3. m.cost = n.cost
        BY <4>1, <4>2
      <4> QED BY <3>1, <4>3
    <3>3. \A k \in moves : cost[n] <= cost[k]
      BY <2>0, <3>2
    <3> QED BY <3>2, <3>3
  <2>2. m.from[1] <= n.from[1] /\ (n.from[1] = m.from[1] => n \in s1)
    BY <1>2, <2>0, <2>1
  <2>3. n \in s1 => m.from[2] <= n.from[2] /\ (n.from[2] = m.from[2] => n \in s2)
    BY <1>2, <2>0
  <2>4. n \in s2 => m.cmd <= n.cmd /\ (n.cmd = m.cmd => n \in s3)
    BY <1>2, <2>0
  <2>5. n \in s3 => m.cur <= n.cur
    BY <1>2, <1>9, <2>0
  <2> HIDE DEF s0, s1, s2, s3, s4
  <2> DEFINE a == <<n.from[1], n.from[2], n.cmd, n.cur>>
             b == <<m.from[1], m.from[2], m.cmd, m.cur>>
  <2>6. \A k \in 1..4 : k = 1 \/ k = 2 \/ k = 3 \/ k = 4
    OBVIOUS
  <2>7. ASSUME NEW k \in 1..4, \A j \in 1..k - 1 : a[j] = b[j] PROVE ~(a[k] < b[k])
    <3>1. CASE k = 1
      BY <1>2, <2>0, <2>2, <3>1
    <3>2. CASE k = 2
      <4>1. a[1] = b[1]
        BY <2>7, <3>2
      <4> QED BY <1>2, <2>0, <2>2, <2>3, <3>2, <4>1
    <3>3. CASE k = 3
      <4>1. a[1] = b[1] /\ a[2] = b[2]
        BY <2>7, <3>3
      <4> QED BY <1>2, <2>0, <2>2, <2>3, <2>4, <3>3, <4>1
    <3>4. CASE k = 4
      <4>1. a[1] = b[1] /\ a[2] = b[2] /\ a[3] = b[3]
        BY <2>7, <3>4
      <4> QED BY <1>2, <2>0, <2>2, <2>3, <2>4, <2>5, <3>4, <4>1
    <3> QED BY <2>6, <3>1, <3>2, <3>3, <3>4
  <2>8. ~Before(n, m)
    BY <2>7 DEF Before
  <2> QED BY <2>1, <2>8
<1>11. m \in moves
  BY <1>3, <1>9
<1>12. Best(moves) # {}
  BY <1>10, <1>11 DEF Best
<1>13. \A k \in Best(moves) : \A n \in moves : k.cost <= n.cost
  BY <1>2 DEF Best
<1> QED BY <1>12, <1>13 DEF Best

-----------------------------------------------------------------------------
\* The parameters of a plan: the assets, and a number for every step.
Params ==
    /\ p.hasBatt \in BOOLEAN /\ p.hasEv \in BOOLEAN /\ p.storage \in BOOLEAN
    /\ p.low \in Int /\ p.high \in Int /\ p.charge \in Nat /\ p.discharge \in Nat
    /\ p.init \in Int /\ p.terminal \in Int
    /\ p.evCap \in Int /\ p.evMax \in Nat /\ p.evInit \in Int /\ p.evTarget \in Int
    /\ p.leaves \in Int
    /\ \A f \in {p.load, p.solar, p.priceIn, p.priceOut} : f \in [Horizon -> Int]

\* The image of a finite set is finite.
LEMMA ImageIsFinite ==
    ASSUME NEW S, IsFiniteSet(S), NEW f
    PROVE  IsFiniteSet({f[x] : x \in S})
<1> DEFINE g == [x \in S |-> f[x]]
<1>1. g \in Surjection(S, {f[x] : x \in S})
  BY DEF Surjection
<1> QED BY <1>1, FS_Surjection

\* A grid of levels is a finite set of integers, and never empty.
LEMMA LevelsAre ==
    ASSUME NEW lo \in Int, NEW hi \in Int
    PROVE  Levels(lo, hi) \subseteq Int /\ IsFiniteSet(Levels(lo, hi)) /\ Levels(lo, hi) # {}
<1>1. CASE hi <= lo
  <2>1. Levels(lo, hi) = {lo}
    BY <1>1 DEF Levels
  <2> QED BY <2>1, FS_Singleton
<1>2. CASE ~(hi <= lo)
  <2> DEFINE n == Max2(2, Snap(hi - lo) \div LevelStep + 1)
             f == [k \in 1..n - 2 |-> Snap(lo + k * LevelStep)]
             inner == {f[k] : k \in 1..n - 2}
  <2>1. LevelStep \in Nat /\ 2 * LevelStep > 0 /\ LevelStep > 0
    BY PlannerAssumption
  <2>2. \A x \in Int : Snap(x) \in Int
    BY <2>1 DEF Snap
  <2>3. n \in Int
    <3>1. Snap(hi - lo) \in Int
      BY <2>2
    <3> QED BY <2>1, <3>1 DEF Max2
  <2> HIDE DEF n
  <2>4. \A k \in 1..n - 2 : f[k] = Snap(lo + k * LevelStep) /\ f[k] \in Int
    BY <2>1, <2>2, <2>3
  <2>5. Levels(lo, hi) = {lo, hi} \cup {Snap(lo + k * LevelStep) : k \in 1..n - 2}
    BY <1>2 DEF Levels, n
  <2>6. Levels(lo, hi) = {lo, hi} \cup inner
    BY <2>4, <2>5
  <2> HIDE DEF f
  <2>7. IsFiniteSet(1..n - 2)
    BY <2>3, FS_Interval
  <2>8. IsFiniteSet(inner)
    BY <2>7, ImageIsFinite
  <2>9. IsFiniteSet({lo, hi})
    <3>1. IsFiniteSet({lo})
      BY FS_Singleton
    <3>2. IsFiniteSet({lo} \cup {hi}) /\ {lo, hi} = {lo} \cup {hi}
      BY <3>1, FS_AddElement
    <3> QED BY <3>2
  <2>10. IsFiniteSet({lo, hi} \cup inner)
    BY <2>8, <2>9, FS_Union
  <2> QED BY <2>4, <2>6, <2>10
<1> QED BY <1>1, <1>2

\* The grids are finite sets of integers.
AGrid(S) == S \subseteq Int /\ IsFiniteSet(S) /\ S # {}

\* The four grids; standing still is always one of the currents.
LEMMA GridsAre ==
    ASSUME Params
    PROVE  AGrid(BattLevels) /\ AGrid(EvLevels) /\ AGrid(BattPowers) /\ AGrid(EvCurrents)
           /\ 0 \in EvCurrents
<1>1. AGrid({0})
  BY FS_Singleton DEF AGrid
<1>2. AGrid(BattLevels) /\ AGrid(EvLevels)
  BY <1>1, LevelsAre DEF BattLevels, EvLevels, Params, AGrid
<1>3. AGrid(BattPowers)
  <2>1. CASE p.hasBatt
    <3>1. -p.charge \in Int /\ p.discharge \in Int /\ 0 \in -p.charge..p.discharge
      BY DEF Params
    <3>2. IsFiniteSet(-p.charge..p.discharge)
      BY <3>1, FS_Interval
    <3> QED BY <2>1, <3>1, <3>2 DEF BattPowers, AGrid
  <2> QED BY <1>1, <2>1 DEF BattPowers
<1>4. AGrid(ChargeCurrents) /\ 0 \in ChargeCurrents
  <2> DEFINE on == {a \in Standard : a <= p.evMax}
             out == IF on = {} THEN {p.evMax} ELSE on
  <2>1. IsFiniteSet(on) /\ on \subseteq Int
    <3>1. on \in SUBSET Standard
      OBVIOUS
    <3> HIDE DEF on
    <3>2. Standard \subseteq Nat /\ IsFiniteSet(Standard)
      BY PlannerAssumption
    <3>3. IsFiniteSet(on)
      BY <3>1, <3>2, FS_Subset
    <3> QED BY <3>1, <3>2, <3>3
  <2>2. IsFiniteSet({p.evMax}) /\ p.evMax \in Int
    <3>1. IsFiniteSet({p.evMax})
      BY FS_Singleton
    <3> QED BY <3>1 DEF Params
  <2>3. IsFiniteSet(out) /\ out \subseteq Int
    BY <2>1, <2>2
  <2>4. ChargeCurrents = {0} \cup out
    BY DEF ChargeCurrents
  <2> HIDE DEF out
  <2>5. IsFiniteSet({0} \cup out)
    BY <1>1, <2>3, FS_Union DEF AGrid
  <2> QED BY <2>3, <2>4, <2>5 DEF AGrid
<1>5. AGrid(ChargeCurrents \cup {-a : a \in ChargeCurrents})
  <2> DEFINE neg == [a \in ChargeCurrents |-> -a]
  <2>1. IsFiniteSet({neg[a] : a \in ChargeCurrents})
    BY <1>4, ImageIsFinite DEF AGrid
  <2>3. {neg[a] : a \in ChargeCurrents} = {-a : a \in ChargeCurrents}
    OBVIOUS
  <2>4. \A a \in ChargeCurrents : -a \in Int
    BY <1>4 DEF AGrid
  <2>2. IsFiniteSet(ChargeCurrents \cup {-a : a \in ChargeCurrents})
    BY <1>4, <2>1, <2>3, FS_Union DEF AGrid
  <2> QED BY <1>4, <2>2, <2>4 DEF AGrid
<1> QED BY <1>1, <1>2, <1>3, <1>4, <1>5 DEF EvCurrents

\* The nearest level of a grid is on it.
LEMMA ClosestIn ==
    ASSUME NEW S, AGrid(S), NEW x \in Int
    PROVE  Closest(S, x) \in S /\ Closest(S, x) \in Int /\ (x \in S => Closest(S, x) = x)
BY ClosestIsLevel DEF AGrid

\* What a command does leads to a level or out of the band, and moves a whole
\* number of units.
LEMMA CommandLeads ==
    ASSUME Params, NEW b \in BattLevels, NEW c \in BattPowers
    PROVE  /\ BattDest(b, c) = None \/ BattDest(b, c) \in BattLevels
           /\ BattDest(b, c) \in Int /\ BattEff(b, c) \in Int
           /\ c = 0 /\ BattDest(b, c) # None => BattEff(b, c) = 0
<1>1. /\ b \in Int /\ c \in Int /\ Num \in Nat /\ Den \in Nat /\ Num > 0 /\ Den > 0
  BY GridsAre, PlannerAssumption DEF AGrid
<1>2. None \in Int
  BY DEF None
<1>3. CASE ~p.hasBatt
  BY <1>1, <1>3 DEF BattDest, BattEff
<1>4. CASE p.hasBatt
  <2> DEFINE x == IF c > 0 THEN b - c * Den * Den ELSE b - c * Num * Num
  <2>1. x \in Int /\ (c = 0 => x = b)
    BY <1>1
  <2>2. BattDest(b, c) = IF x < p.low \/ x > p.high THEN None ELSE Closest(BattLevels, x)
    BY <1>4 DEF BattDest
  <2> HIDE DEF x
  <2>3. Closest(BattLevels, x) \in BattLevels /\ Closest(BattLevels, x) \in Int
        /\ (c = 0 => Closest(BattLevels, x) = b)
    BY <2>1, ClosestIn, GridsAre
  <2>4. /\ BattDest(b, c) = None \/ BattDest(b, c) \in BattLevels
        /\ BattDest(b, c) \in Int /\ (c = 0 /\ BattDest(b, c) # None => BattDest(b, c) = b)
    BY <1>2, <2>2, <2>3
  <2> DEFINE d == BattDest(b, c) - b
             ac == IF d < 0 THEN ((-d) * Num) \div Den ELSE -((d * Den) \div Num)
  <2>5. d \in Int /\ (c = 0 /\ BattDest(b, c) # None => d = 0)
    BY <1>1, <2>4
  <2>6. BattEff(b, c) = Max2(-p.charge * Num * Den, Upto(p.discharge * Num * Den, ac))
    BY <1>4 DEF BattEff
  <2> HIDE DEF d
  <2>7. ac \in Int /\ (d = 0 => ac = 0)
    <3>1. (-d) * Num \in Int /\ d * Den \in Int /\ (d = 0 => d * Den = 0)
      BY <1>1, <2>5
    <3>2. 0 \div Num = 0
      BY <1>1
    <3>3. ((-d) * Num) \div Den \in Int /\ (d * Den) \div Num \in Int
      BY <1>1, <3>1
    <3> QED BY <3>1, <3>2, <3>3
  <2> HIDE DEF ac
  <2>8. /\ -p.charge * Num * Den \in Int /\ p.discharge * Num * Den \in Int
        /\ -p.charge * Num * Den <= 0 /\ p.discharge * Num * Den >= 0
    <3>1. p.charge \in Nat /\ p.discharge \in Nat /\ Num * Den \in Nat
      BY <1>1 DEF Params
    <3>2. p.charge * Num \in Nat /\ p.discharge * Num \in Nat
      BY <1>1, <3>1
    <3>3. (p.charge * Num) * Den \in Nat /\ (p.discharge * Num) * Den \in Nat
      BY <1>1, <3>2
    <3>4. -p.charge * Num * Den = -((p.charge * Num) * Den)
      BY <1>1, <3>1, <3>2
    <3> QED BY <3>3, <3>4
  <2>9. BattEff(b, c) \in Int /\ (ac = 0 => BattEff(b, c) = 0)
    BY <2>6, <2>7, <2>8 DEF Max2, Upto
  <2> QED BY <2>4, <2>5, <2>7, <2>9
<1> QED BY <1>3, <1>4 DEF Params

\* The same of a charging current.
LEMMA CurrentLeads ==
    ASSUME Params, NEW e \in EvLevels, NEW a \in EvCurrents
    PROVE  EvDest(e, a) = None \/ EvDest(e, a) \in EvLevels
<1>1. /\ e \in Int /\ a \in Int /\ Num \in Nat /\ Den \in Nat
  BY GridsAre, PlannerAssumption DEF AGrid
<1> DEFINE x == IF a >= 0 THEN e + a * Num * Num ELSE e + a * Den * Den
<1>2. x \in Int
  BY <1>1
<1>3. EvDest(e, a) = IF x < 0 \/ x > p.evCap THEN None ELSE Closest(EvLevels, x)
  BY DEF EvDest
<1> HIDE DEF x
<1>4. Closest(EvLevels, x) \in EvLevels
  BY <1>2, ClosestIn, GridsAre
<1> QED BY <1>3, <1>4

\* A step costs a whole number.
LEMMA StepCostIs ==
    ASSUME Params, NEW i \in Horizon, NEW batt \in Int, NEW a \in EvCurrents
    PROVE  Grid(i, batt, a) \in Int /\ StepCost(i, batt, a) \in Int
<1>1. a \in Int /\ Num \in Nat /\ Den \in Nat
  BY GridsAre, PlannerAssumption DEF AGrid
<1>2. EvAc(a) \in Int
  BY <1>1 DEF EvAc
<1>3. /\ p.load[i] \in Int /\ p.solar[i] \in Int /\ p.priceIn[i] \in Int /\ p.priceOut[i] \in Int
  BY DEF Params
<1>4. Grid(i, batt, a) \in Int
  BY <1>2, <1>3 DEF Grid
<1> QED BY <1>3, <1>4 DEF StepCost

\* The runs before each step: a state of battery and car with what it cost.
Run == BattLevels \X EvLevels \X Int

\* The runs before each step: those before the step before it, gone on with.
Runs(R) ==
    /\ R \in [0..Steps -> SUBSET Run] /\ R[0] = {Outset}
    /\ \A k \in 1..Steps : R[k] = UNION {Onward(k - 1, r) : r \in R[k - 1]}

\* A command that a run may go on with at a state.
Legal(i, s, c, a) == c \in BattPowers /\ a \in EvCurrents /\ Runnable(i, s, c, a)

\* A legal command leads to a state, at a whole cost.
LEMMA LegalLeads ==
    ASSUME Params, NEW i \in Horizon, NEW s \in States, NEW c, NEW a, Legal(i, s, c, a)
    PROVE  /\ BattDest(s[1], c) \in BattLevels /\ EvDest(s[2], a) \in EvLevels
           /\ BattEff(s[1], c) \in Int /\ StepCost(i, BattEff(s[1], c), a) \in Int
<1>1. s[1] \in BattLevels /\ s[2] \in EvLevels
  BY DEF States
<1>2. c \in BattPowers /\ a \in EvCurrents /\ BattDest(s[1], c) # None /\ EvDest(s[2], a) # None
  BY DEF Legal, Runnable
<1> QED BY <1>1, <1>2, CommandLeads, CurrentLeads, StepCostIs

\* What a run can go on to.
LEMMA OnwardIs ==
    ASSUME NEW i, NEW s \in States, NEW x, NEW y
    PROVE  y \in Onward(i, <<s[1], s[2], x>>) <=>
             \E c, a : /\ Legal(i, s, c, a)
                       /\ y = <<BattDest(s[1], c), EvDest(s[2], a),
                                x + StepCost(i, BattEff(s[1], c), a)>>
<1> DEFINE r == <<s[1], s[2], x>>
           Leads(c, a) == <<BattDest(r[1], c), EvDest(r[2], a),
                            r[3] + StepCost(i, BattEff(r[1], c), a)>>
<1>1. <<r[1], r[2]>> = s /\ r[1] = s[1] /\ r[2] = s[2] /\ r[3] = x
  BY DEF States
<1>2. Onward(i, r) = {Leads(z[1], z[2]) : z \in {z \in BattPowers \X EvCurrents :
                                              Runnable(i, <<r[1], r[2]>>, z[1], z[2])}}
  BY DEF Onward
<1> HIDE DEF Leads
<1>3. y \in Onward(i, r) <=> \E c \in BattPowers, a \in EvCurrents :
                                Runnable(i, <<r[1], r[2]>>, c, a) /\ y = Leads(c, a)
  <2>1. ASSUME y \in Onward(i, r)
        PROVE  \E c \in BattPowers, a \in EvCurrents :
                                Runnable(i, <<r[1], r[2]>>, c, a) /\ y = Leads(c, a)
    BY <1>2, <2>1
  <2>2. ASSUME NEW c \in BattPowers, NEW a \in EvCurrents,
               Runnable(i, <<r[1], r[2]>>, c, a), y = Leads(c, a)
        PROVE  y \in Onward(i, r)
    <3> DEFINE z == <<c, a>>
    <3>1. z \in BattPowers \X EvCurrents /\ z[1] = c /\ z[2] = a
      OBVIOUS
    <3> HIDE DEF z
    <3> QED BY <1>2, <2>2, <3>1
  <2> QED BY <2>1, <2>2
<1>4. \A c, a : Leads(c, a) = <<BattDest(s[1], c), EvDest(s[2], a),
                                x + StepCost(i, BattEff(s[1], c), a)>>
  BY <1>1 DEF Leads
<1> HIDE DEF r
<1>5. y \in Onward(i, r) <=> \E c, a : Legal(i, s, c, a) /\ y = Leads(c, a)
  BY <1>1, <1>3 DEF Legal
<1>6. y \in Onward(i, r) <=>
             \E c, a : /\ Legal(i, s, c, a)
                       /\ y = <<BattDest(s[1], c), EvDest(s[2], a),
                                x + StepCost(i, BattEff(s[1], c), a)>>
  BY <1>4, <1>5
<1> QED BY <1>6 DEF r

\* The run that has not begun.
LEMMA OutsetIs ==
    ASSUME Params
    PROVE  Outset \in Run /\ <<Outset[1], Outset[2]>> \in States
<1>1. p.init \in Int /\ p.evInit \in Int
  BY DEF Params
<1>2. Closest(BattLevels, p.init) \in BattLevels /\ Closest(EvLevels, p.evInit) \in EvLevels
  BY <1>1, ClosestIn, GridsAre
<1> QED BY <1>2 DEF Outset, Run, States

\* A run that goes on is a run.
LEMMA OnwardRuns ==
    ASSUME Params, NEW i \in Horizon, NEW r \in Run
    PROVE  Onward(i, r) \subseteq Run
<1> DEFINE s == <<r[1], r[2]>>
<1>1. s \in States /\ r = <<s[1], s[2], r[3]>> /\ r[3] \in Int
  BY DEF Run, States
<1> HIDE DEF s
<1>2. ASSUME NEW y \in Onward(i, r) PROVE y \in Run
  <2>1. PICK c, a : /\ Legal(i, s, c, a)
                    /\ y = <<BattDest(s[1], c), EvDest(s[2], a),
                             r[3] + StepCost(i, BattEff(s[1], c), a)>>
    BY <1>1, <1>2, OnwardIs
  <2>2. r[3] + StepCost(i, BattEff(s[1], c), a) \in Int
    BY <1>1, <2>1, LegalLeads
  <2> QED BY <1>1, <2>1, <2>2, LegalLeads DEF Run
<1> QED BY <1>2

\* RunsBefore are those.
LEMMA RunsAre ==
    ASSUME Params
    PROVE  Runs(RunsBefore)
<1> DEFINE D == SUBSET Run
           On(k, T) == UNION {Onward(k - 1, r) : r \in T}
           step == [u \in (1..Steps) \X D |-> On(u[1], u[2])]
           Sequel(f) == [k \in 0..Steps |-> IF k = 0 THEN {Outset} ELSE On(k, f[k - 1])]
<1>1. Steps \in Nat /\ \A k \in 1..Steps : k - 1 \in Horizon /\ k - 1 \in 0..Steps
  BY ScheduleAssumption DEF Horizon
<1>2. ASSUME NEW k \in 1..Steps, NEW T \in D PROVE On(k, T) \in D
  BY <1>1, OnwardRuns
<1> HIDE DEF On
<1>3. step \in [(1..Steps) \X D -> D]
  BY <1>2
<1>4. {Outset} \in D
  BY OutsetIs
<1>5. \A k \in 1..Steps, T \in D : step[<<k, T>>] = On(k, T)
  OBVIOUS
<1> HIDE DEF D, step
<1>6. PICK f : Course(f, Steps, D, {Outset}, step)
  BY <1>1, <1>3, <1>4, Recursion
<1>7. /\ f \in [0..Steps -> D] /\ f[0] = {Outset}
      /\ \A k \in 1..Steps : f[k] = On(k, f[k - 1])
  <2>1. \A k \in 1..Steps : f[k - 1] \in D
    BY <1>1, <1>6 DEF Course
  <2> QED BY <1>5, <1>6, <2>1 DEF Course
<1>8. f = Sequel(f)
  <2>1. \A k \in 0..Steps : k = 0 \/ k \in 1..Steps
    BY <1>1
  <2>2. \A k \in 0..Steps : f[k] = IF k = 0 THEN {Outset} ELSE On(k, f[k - 1])
    BY <1>7, <2>1
  <2> QED BY <1>7, <2>2
<1>9. RunsBefore = CHOOSE g : g = Sequel(g)
  BY DEF RunsBefore, On
<1> HIDE DEF Sequel
<1>10. RunsBefore = Sequel(RunsBefore)
  BY <1>8, <1>9
<1>11. /\ RunsBefore[0] = {Outset}
       /\ \A k \in 1..Steps : RunsBefore[k] = On(k, RunsBefore[k - 1])
       /\ DOMAIN RunsBefore = 0..Steps /\ RunsBefore = [k \in 0..Steps |-> RunsBefore[k]]
  <2>1. 0 \in 0..Steps /\ \A k \in 1..Steps : k \in 0..Steps /\ k # 0
    BY <1>1
  <2> QED BY <1>10, <2>1 DEF Sequel
<1>12. \A k \in 0..Steps : RunsBefore[k] = f[k]
  <2>1. Alike(Steps, RunsBefore, f)
    BY <1>7, <1>11 DEF Alike
  <2> QED BY <1>1, <2>1, SameCourse
<1>13. RunsBefore \in [0..Steps -> D]
  BY <1>7, <1>11, <1>12
<1> QED BY <1>11, <1>13 DEF Runs, D, On

\* There is one such function.
LEMMA RunsAreOne ==
    ASSUME NEW R, NEW Q, Runs(R), Runs(Q)
    PROVE  \A k \in 0..Steps : R[k] = Q[k]
<1>1. Steps \in Nat
  BY ScheduleAssumption
<1>2. Alike(Steps, R, Q)
  BY DEF Runs, Alike
<1> QED BY <1>1, <1>2, SameCourse

-----------------------------------------------------------------------------
\* x is the least that a run to s costs; the states that runs reach.
Least(R, k, s, x) ==
    /\ <<s[1], s[2], x>> \in R[k]
    /\ \A y \in Int : <<s[1], s[2], y>> \in R[k] => x <= y

\* The states some run reaches before step k.
Reached(R, k) == {s \in States : \E x \in Int : <<s[1], s[2], x>> \in R[k]}

\* The table before step k: each state that a run reaches, with the least cost.
Bellman(R, k, d) ==
    /\ DOMAIN d = Reached(R, k)
    /\ \A s \in DOMAIN d : d[s] \in Int /\ Least(R, k, s, d[s])

\* A move of step i from a state at its least cost to another at its least.
Priced(i, m) == StepCost(i, BattEff(m.from[1], m.cmd), m.cur)

\* A recorded move does what its command does.
Leads(i, m) ==
    /\ m.from \in States /\ Legal(i, m.from, m.cmd, m.cur) /\ m.cost \in Int
    /\ m.to = <<BattDest(m.from[1], m.cmd), EvDest(m.from[2], m.cur)>>

\* A move that leads from a state at its least cost to the next at its least.
Cheapest(R, i, m) ==
    Leads(i, m) /\ Least(R, i, m.from, m.cost - Priced(i, m)) /\ Least(R, i + 1, m.to, m.cost)

\* The types of a move.
LEMMA LeadsTo ==
    ASSUME Params, NEW i \in Horizon, NEW m, Leads(i, m)
    PROVE  m.to \in States /\ Priced(i, m) \in Int
           /\ {m.from[1], m.from[2], m.cmd, m.cur} \subseteq Int
<1>1. /\ BattDest(m.from[1], m.cmd) \in BattLevels /\ EvDest(m.from[2], m.cur) \in EvLevels
      /\ Priced(i, m) \in Int
  BY LegalLeads DEF Leads, Priced
<1>2. m.from \in States /\ m.from[1] \in BattLevels /\ m.from[2] \in EvLevels
      /\ m.cmd \in BattPowers /\ m.cur \in EvCurrents
  BY DEF Leads, States, Legal
<1> QED BY <1>1, <1>2, GridsAre DEF Leads, States, AGrid

\* The commands the loops try are the legal ones.
LEMMA CommandsAreLegal ==
    ASSUME Params, NEW i \in Horizon, NEW s \in States, NEW c, NEW a
    PROVE  Legal(i, s, c, a) <=>
             /\ MayLeave(i, s[2]) /\ c \in Commands(i) /\ a \in Currents(i)
             /\ BattDest(s[1], c) # None /\ EvDest(s[2], a) # None
             /\ Allowed(i, BattEff(s[1], c), a)
<1>1. 0 \in EvCurrents /\ (~p.hasEv => EvCurrents = {0})
  BY GridsAre DEF EvCurrents
<1>2. a \in Currents(i) <=>
        a \in EvCurrents /\ (p.hasEv /\ p.leaves # None /\ i > p.leaves => a = 0)
  BY <1>1 DEF Currents
<1>3. MayLeave(i, s[2]) <=> (p.hasEv /\ p.leaves = i => s[2] >= Closest(EvLevels, p.evTarget))
  BY DEF MayLeave
<1>4. c \in Commands(i) <=>
        c \in BattPowers /\ (p.limits[i].off => c = 0) /\ FixedCommand(i) \in {None, c}
  BY DEF Commands
<1> QED BY <1>2, <1>3, <1>4 DEF Legal, Runnable

\* The moves the inner loops try: the legal ones, from every state of the table.
LEMMA MovesAre ==
    ASSUME Params, NEW i \in Horizon, NEW R, NEW d, Bellman(R, i, d)
    PROVE  /\ \A s \in DOMAIN d : \A c, a :
                 Legal(i, s, c, a) => Move(i, s, d[s], c, a) \in MovesAt(i, d)
           /\ \A m \in MovesAt(i, d) :
                 Leads(i, m) /\ m.from \in DOMAIN d /\ m.cost = d[m.from] + Priced(i, m)
           /\ IsFiniteSet(MovesAt(i, d))
<1> DEFINE All == {s \in DOMAIN d : MayLeave(i, s[2])} \X Commands(i) \X Currents(i)
           Some == {x \in All : /\ BattDest(x[1][1], x[2]) # None
                                /\ EvDest(x[1][2], x[3]) # None
                                /\ Allowed(i, BattEff(x[1][1], x[2]), x[3])}
           f == [x \in Some |-> Move(i, x[1], d[x[1]], x[2], x[3])]
<1>1. MovesAt(i, d) = {f[x] : x \in Some}
  BY DEF MovesAt
<1>2. DOMAIN d \subseteq States
  BY DEF Bellman, Reached
<1>3. ASSUME NEW s \in DOMAIN d, NEW c, NEW a, Legal(i, s, c, a)
      PROVE  Move(i, s, d[s], c, a) \in MovesAt(i, d)
  <2> DEFINE x == <<s, c, a>>
  <2>1. x \in Some /\ x[1] = s /\ x[2] = c /\ x[3] = a
    BY <1>2, <1>3, CommandsAreLegal
  <2> HIDE DEF x, Some
  <2>2. f[x] = Move(i, s, d[s], c, a)
    BY <2>1
  <2> QED BY <1>1, <2>1, <2>2
<1>4. ASSUME NEW m \in MovesAt(i, d)
      PROVE  Leads(i, m) /\ m.from \in DOMAIN d /\ m.cost = d[m.from] + Priced(i, m)
  <2>1. PICK x \in Some : m = f[x]
    BY <1>1
  <2>2. /\ m = Move(i, x[1], d[x[1]], x[2], x[3]) /\ x[1] \in DOMAIN d /\ x[1] \in States
        /\ MayLeave(i, x[1][2]) /\ x[2] \in Commands(i) /\ x[3] \in Currents(i)
        /\ BattDest(x[1][1], x[2]) # None /\ EvDest(x[1][2], x[3]) # None
        /\ Allowed(i, BattEff(x[1][1], x[2]), x[3])
    BY <1>2, <2>1
  <2>3. Legal(i, x[1], x[2], x[3])
    BY <2>2, CommandsAreLegal
  <2>4. /\ m.from = x[1] /\ m.cmd = x[2] /\ m.cur = x[3]
        /\ m.to = <<BattDest(m.from[1], m.cmd), EvDest(m.from[2], m.cur)>>
        /\ m.cost = d[m.from] + Priced(i, m)
    BY <2>2 DEF Move, Priced
  <2>5. d[m.from] \in Int /\ Priced(i, m) \in Int
    BY <2>2, <2>3, <2>4, LegalLeads DEF Bellman, Priced
  <2> QED BY <2>2, <2>3, <2>4, <2>5 DEF Leads
<1>5. IsFiniteSet(Some)
  <2>1. IsFiniteSet(States)
    BY GridsAre, FS_Product DEF AGrid, States
  <2>2. IsFiniteSet({s \in DOMAIN d : MayLeave(i, s[2])})
    <3>1. {s \in DOMAIN d : MayLeave(i, s[2])} \in SUBSET States
      BY <1>2
    <3> QED BY <2>1, <3>1, FS_Subset
  <2>3. IsFiniteSet(Commands(i))
    <3>1. Commands(i) \in SUBSET BattPowers /\ IsFiniteSet(BattPowers)
      BY GridsAre DEF Commands, AGrid
    <3> QED BY <3>1, FS_Subset
  <2>4. IsFiniteSet(Currents(i))
    <3>1. Currents(i) \in SUBSET EvCurrents /\ IsFiniteSet(EvCurrents)
      BY GridsAre DEF Currents, AGrid
    <3> QED BY <3>1, FS_Subset
  <2> DEFINE X == {s \in DOMAIN d : MayLeave(i, s[2])}
             Y == Commands(i)
             Z == Currents(i)
             XYZ == X \X Y \X Z
             g == [u \in (X \X Y) \X Z |-> <<u[1][1], u[1][2], u[2]>>]
  <2>5. IsFiniteSet((X \X Y) \X Z)
    <3>1. IsFiniteSet(X) /\ IsFiniteSet(Y) /\ IsFiniteSet(Z)
      BY <2>2, <2>3, <2>4
    <3> HIDE DEF X, Y, Z
    <3>2. IsFiniteSet(X \X Y)
      BY <3>1, FS_Product
    <3> QED BY <3>1, <3>2, FS_Product
  <2>6. XYZ \subseteq {g[u] : u \in (X \X Y) \X Z}
    <3> HIDE DEF X, Y, Z
    <3>1. ASSUME NEW v \in XYZ PROVE \E u \in (X \X Y) \X Z : g[u] = v
      <4> DEFINE u == <<<<v[1], v[2]>>, v[3]>>
      <4>1. u \in (X \X Y) \X Z /\ u[1][1] = v[1] /\ u[1][2] = v[2] /\ u[2] = v[3]
        BY <3>1
      <4> HIDE DEF u
      <4>2. g[u] = <<v[1], v[2], v[3]>>
        BY <4>1
      <4>3. v = <<v[1], v[2], v[3]>>
        BY <3>1
      <4> QED BY <4>1, <4>2, <4>3
    <3> QED BY <3>1
  <2>7. IsFiniteSet({g[u] : u \in (X \X Y) \X Z})
    <3> HIDE DEF X, Y, Z, g
    <3> QED BY <2>5, ImageIsFinite
  <2>8. Some \in SUBSET {g[u] : u \in (X \X Y) \X Z}
    <3>1. Some \subseteq XYZ
      OBVIOUS
    <3> HIDE DEF Some, XYZ, g, X, Y, Z
    <3> QED BY <2>6, <3>1
  <2> HIDE DEF Some, X, Y, Z, g
  <2> QED BY <2>7, <2>8, FS_Subset
<1>6. IsFiniteSet(MovesAt(i, d))
  <2> HIDE DEF Some, f
  <2> QED BY <1>1, <1>5, ImageIsFinite
<1> QED BY <1>3, <1>4, <1>6

\* What a step records of each state, and the table it leaves.
Bests(i, d) == [s \in States |-> Best({m \in MovesAt(i, d) : m.to = s})]

\* The table after it.
Costs(best) == [s \in {s \in States : best[s] # {}} |-> Kept(best[s]).cost]

\* A step of the program keeps the table true, and what it records of a state
\* leads there at least cost, from a state at its least.
LEMMA StepKeepsBellman ==
    ASSUME Params, NEW i \in Horizon, NEW R, Runs(R), NEW d, Bellman(R, i, d),
           NEW best, best = Bests(i, d),
           NEW e, e = Costs(best)
    PROVE  /\ Bellman(R, i + 1, e)
           /\ \A s \in States : /\ \A m \in best[s] : Cheapest(R, i, m) /\ m.to = s
                                /\ s \in Reached(R, i + 1) => best[s] # {}
<1> DEFINE all == MovesAt(i, d)
           To(s) == {m \in all : m.to = s}
<1>1. /\ i + 1 \in 1..Steps /\ (i + 1) - 1 = i /\ i \in 0..Steps /\ i + 1 \in 0..Steps
  BY ScheduleAssumption DEF Horizon
<1>2. /\ R[i + 1] = UNION {Onward(i, r) : r \in R[i]} /\ R[i] \subseteq Run /\ R[i + 1] \subseteq Run
  <2>1. R[i + 1] = UNION {Onward((i + 1) - 1, r) : r \in R[(i + 1) - 1]}
    BY <1>1 DEF Runs
  <2> QED BY <1>1, <2>1 DEF Runs
<1>3. DOMAIN d = Reached(R, i) /\ \A s \in DOMAIN d : d[s] \in Int /\ Least(R, i, s, d[s])
  BY DEF Bellman
<1>4. /\ \A s \in DOMAIN d : \A c, a : Legal(i, s, c, a) => Move(i, s, d[s], c, a) \in all
      /\ \A m \in all : Leads(i, m) /\ m.from \in DOMAIN d /\ m.cost = d[m.from] + Priced(i, m)
      /\ IsFiniteSet(all)
  BY MovesAre
<1> HIDE DEF all
<1>5. ASSUME NEW s \in States, NEW y \in Int, <<s[1], s[2], y>> \in R[i + 1]
      PROVE  \E n \in To(s) : n.cost <= y
  <2>1. PICK r \in R[i] : <<s[1], s[2], y>> \in Onward(i, r)
    BY <1>2, <1>5
  <2> DEFINE s0 == <<r[1], r[2]>>
  <2>2. s0 \in States /\ r = <<s0[1], s0[2], r[3]>> /\ r[3] \in Int
    BY <1>2, <2>1 DEF Run, States
  <2> HIDE DEF s0
  <2>3. PICK c, a : /\ Legal(i, s0, c, a)
                    /\ <<s[1], s[2], y>> = <<BattDest(s0[1], c), EvDest(s0[2], a),
                                             r[3] + StepCost(i, BattEff(s0[1], c), a)>>
    BY <2>1, <2>2, OnwardIs
  <2>4. s0 \in Reached(R, i) /\ d[s0] <= r[3] /\ d[s0] \in Int
    BY <1>3, <2>1, <2>2 DEF Reached, Least
  <2> DEFINE n == Move(i, s0, d[s0], c, a)
  <2>5. n \in all
    BY <1>3, <1>4, <2>3, <2>4
  <2>6. n.to = <<s[1], s[2]>> /\ n.cost = d[s0] + StepCost(i, BattEff(s0[1], c), a)
    BY <2>3 DEF Move
  <2>7. y = r[3] + StepCost(i, BattEff(s0[1], c), a) /\ StepCost(i, BattEff(s0[1], c), a) \in Int
    BY <2>2, <2>3, LegalLeads
  <2> HIDE DEF n
  <2>8. n.to = s /\ n.cost <= y
    <3>1. s = <<s[1], s[2]>>
      BY DEF States
    <3> QED BY <2>2, <2>4, <2>6, <2>7, <3>1
  <2> QED BY <2>5, <2>8
<1>6. ASSUME NEW m \in all PROVE <<m.to[1], m.to[2], m.cost>> \in R[i + 1] /\ m.to \in States
  <2>1. Leads(i, m) /\ m.cost = d[m.from] + Priced(i, m) /\ m.from \in States
        /\ <<m.from[1], m.from[2], d[m.from]>> \in R[i]
    BY <1>3, <1>4, <1>6 DEF Leads, Least
  <2> DEFINE r == <<m.from[1], m.from[2], d[m.from]>>
             y == <<m.to[1], m.to[2], m.cost>>
  <2>2. y = <<BattDest(m.from[1], m.cmd), EvDest(m.from[2], m.cur),
              d[m.from] + StepCost(i, BattEff(m.from[1], m.cmd), m.cur)>>
        /\ Legal(i, m.from, m.cmd, m.cur)
    BY <2>1 DEF Leads, Priced
  <2>3. y \in Onward(i, r)
    <3> HIDE DEF y
    <3> QED BY <2>1, <2>2, OnwardIs
  <2>4. m.to \in States
    BY <2>1, LeadsTo
  <2> HIDE DEF y, r
  <2>5. y \in R[i + 1]
    BY <1>2, <2>1, <2>3 DEF r
  <2> QED BY <2>4, <2>5 DEF y
<1>7. ASSUME NEW s \in States
      PROVE  /\ best[s] \subseteq To(s) /\ \A m \in best[s] : \A n \in To(s) : m.cost <= n.cost
             /\ To(s) # {} => best[s] # {}
  <2>1. To(s) \in SUBSET all
    OBVIOUS
  <2>2. IsFiniteSet(To(s))
    BY <1>4, <2>1, FS_Subset
  <2>3. \A m \in To(s) : {m.cost, m.from[1], m.from[2], m.cmd, m.cur} \subseteq Int
    <3>1. ASSUME NEW m \in all PROVE {m.cost, m.from[1], m.from[2], m.cmd, m.cur} \subseteq Int
      <4>1. Leads(i, m) /\ m.cost \in Int
        BY <1>4 DEF Leads
      <4> QED BY <4>1, LeadsTo
    <3> QED BY <2>1, <3>1
  <2>4. best[s] = Best(To(s))
    BY DEF all, Bests
  <2> HIDE DEF To
  <2>5. CASE To(s) = {}
    BY <2>4, <2>5 DEF Best
  <2>6. CASE To(s) # {}
    BY <2>2, <2>3, <2>4, <2>6, BestIsCheapest
  <2> QED BY <2>5, <2>6
<1>8. ASSUME NEW s \in States, NEW m \in best[s] PROVE Cheapest(R, i, m) /\ m.to = s
  <2>1. m \in To(s) /\ \A n \in To(s) : m.cost <= n.cost
    BY <1>7, <1>8
  <2>2. m \in all /\ m.to = s
    BY <2>1
  <2>3. Leads(i, m) /\ m.from \in DOMAIN d /\ m.cost = d[m.from] + Priced(i, m)
        /\ Priced(i, m) \in Int /\ m.cost \in Int
    <3>1. Leads(i, m) /\ m.from \in DOMAIN d /\ m.cost = d[m.from] + Priced(i, m)
      BY <1>4, <2>2
    <3> QED BY <3>1, LeadsTo DEF Leads
  <2>4. m.cost - Priced(i, m) = d[m.from] /\ Least(R, i, m.from, d[m.from])
    BY <1>3, <2>3
  <2>5. Least(R, i + 1, m.to, m.cost)
    <3>1. <<m.to[1], m.to[2], m.cost>> \in R[i + 1]
      BY <1>6, <2>2
    <3>2. ASSUME NEW y \in Int, <<s[1], s[2], y>> \in R[i + 1] PROVE m.cost <= y
      <4>1. PICK n \in To(s) : n.cost <= y
        BY <1>5, <3>2
      <4>2. m.cost <= n.cost
        BY <2>1, <4>1
      <4>3. n.cost \in Int
        <5>1. n \in all
          BY <4>1
        <5> QED BY <1>4, <5>1 DEF Leads
      <4> QED BY <2>3, <3>2, <4>1, <4>2, <4>3
    <3> QED BY <2>2, <3>1, <3>2 DEF Least
  <2> QED BY <2>2, <2>3, <2>4, <2>5 DEF Cheapest
<1>9. ASSUME NEW s \in States PROVE s \in Reached(R, i + 1) <=> best[s] # {}
  <2>1. ASSUME s \in Reached(R, i + 1) PROVE best[s] # {}
    <3>1. PICK y \in Int : <<s[1], s[2], y>> \in R[i + 1]
      BY <2>1 DEF Reached
    <3>2. To(s) # {}
      <4>1. PICK n \in To(s) : n.cost <= y
        BY <1>5, <3>1
      <4> HIDE DEF To
      <4> QED BY <4>1
    <3> QED BY <1>7, <3>2
  <2>2. ASSUME best[s] # {} PROVE s \in Reached(R, i + 1)
    <3>1. PICK m \in best[s] : TRUE
      BY <2>2
    <3>2. m.to = s /\ m \in all
      BY <1>7, <3>1
    <3>3. m.cost \in Int
      BY <1>4, <3>2 DEF Leads
    <3> QED BY <1>6, <3>2, <3>3 DEF Reached
  <2> QED BY <2>1, <2>2
<1>10. DOMAIN e = Reached(R, i + 1)
  <2>1. Reached(R, i + 1) \subseteq States
    BY DEF Reached
  <2> QED BY <1>9, <2>1 DEF Costs
<1>11. ASSUME NEW s \in DOMAIN e PROVE e[s] \in Int /\ Least(R, i + 1, s, e[s])
  <2>1. s \in States /\ best[s] # {} /\ e[s] = Kept(best[s]).cost
    BY DEF Costs
  <2>0. \A m \in best[s] : Cheapest(R, i, m) /\ m.to = s
    BY <1>8, <2>1
  <2>2. Kept(best[s]) \in best[s]
    BY <2>1 DEF Kept
  <2>3. Cheapest(R, i, Kept(best[s])) /\ Kept(best[s]).to = s
    BY <2>0, <2>2
  <2> QED BY <2>1, <2>3 DEF Cheapest, Leads
<1>12. Bellman(R, i + 1, e)
  <2> QED BY <1>10, <1>11 DEF Bellman
<1> QED BY <1>8, <1>9, <1>12

\* The parameters stay, and with them all that is reckoned from them.
LEMMA GridsStay ==
    ASSUME p' = p
    PROVE  /\ BattLevels' = BattLevels /\ EvLevels' = EvLevels
           /\ BattPowers' = BattPowers /\ EvCurrents' = EvCurrents
           /\ States' = States /\ Outset' = Outset /\ (Params' <=> Params)
<1>1. /\ BattLevels' = BattLevels /\ EvLevels' = EvLevels /\ BattPowers' = BattPowers
  BY DEF BattLevels, EvLevels, BattPowers
<1>2. ChargeCurrents' = ChargeCurrents
  BY DEF ChargeCurrents
<1>3. EvCurrents' = EvCurrents
  BY <1>2 DEF EvCurrents
<1>4. States' = States
  BY <1>1 DEF States
<1>5. Outset' = Outset
  BY <1>1 DEF Outset
<1>6. Params' <=> Params
  BY DEF Params
<1> QED BY <1>1, <1>3, <1>4, <1>5, <1>6

\* While the parameters stand, so does what every command does.
LEMMA CommandsStay ==
    ASSUME p' = p
    PROVE  /\ \A b, c : BattDest(b, c)' = BattDest(b, c) /\ BattEff(b, c)' = BattEff(b, c)
           /\ \A e, a : EvDest(e, a)' = EvDest(e, a)
           /\ \A i, batt, a : /\ Grid(i, batt, a)' = Grid(i, batt, a)
                              /\ StepCost(i, batt, a)' = StepCost(i, batt, a)
                              /\ Allowed(i, batt, a)' <=> Allowed(i, batt, a)
           /\ \A i : FixedCommand(i)' = FixedCommand(i)
           /\ \A s, x : Penalised(s, x)' = Penalised(s, x)
<1>1. \A b, c : BattDest(b, c)' = BattDest(b, c)
  BY GridsStay DEF BattDest
<1>2. \A b, c : BattEff(b, c)' = BattEff(b, c)
  BY <1>1 DEF BattEff
<1>3. \A e, a : EvDest(e, a)' = EvDest(e, a)
  BY GridsStay DEF EvDest
<1>4. \A i, batt, a : Grid(i, batt, a)' = Grid(i, batt, a)
  BY DEF Grid
<1>5. \A i, batt, a : StepCost(i, batt, a)' = StepCost(i, batt, a)
  BY <1>4 DEF StepCost
<1>6. \A i, batt, a : Allowed(i, batt, a)' <=> Allowed(i, batt, a)
  BY <1>4 DEF Allowed
<1>7. \A i : FixedCommand(i)' = FixedCommand(i)
  BY GridsStay DEF FixedCommand
<1>8. \A s, x : Penalised(s, x)' = Penalised(s, x)
  BY DEF Penalised
<1> QED BY <1>1, <1>2, <1>3, <1>4, <1>5, <1>6, <1>7, <1>8

\* The last state costs least, counting what it is below the target.
End(R, s) ==
    R[Steps] # {} =>
        \E x \in Int : /\ Least(R, Steps, s, x)
                       /\ \A r \in R[Steps] : Penalised(s, x) <= Penalised(<<r[1], r[2]>>, r[3])

\* While the parameters stand, so do the runs.
LEMMA RunsStay ==
    ASSUME p' = p, NEW R
    PROVE  /\ Runs(R)' <=> Runs(R)
           /\ \A k, d : Bellman(R, k, d)' <=> Bellman(R, k, d)
           /\ \A k : Reached(R, k)' = Reached(R, k)
           /\ \A i, m : Cheapest(R, i, m)' <=> Cheapest(R, i, m)
           /\ \A s : End(R, s)' <=> End(R, s)
           /\ \A i, moves : Interval(i, moves)' = Interval(i, moves)
<1>1. \A i, s, c, a : Runnable(i, s, c, a)' <=> Runnable(i, s, c, a)
  BY GridsStay, CommandsStay DEF Runnable
<1>2. \A i, s, c, a : Legal(i, s, c, a)' <=> Legal(i, s, c, a)
  BY <1>1, GridsStay DEF Legal
<1>3. \A i, r : Onward(i, r)' = Onward(i, r)
  BY <1>1, GridsStay, CommandsStay DEF Onward
<1>4. Run' = Run
  BY GridsStay DEF Run
<1>5. Runs(R)' <=> Runs(R)
  BY <1>3, <1>4, GridsStay DEF Runs
<1>6. \A k : Reached(R, k)' = Reached(R, k)
  BY GridsStay DEF Reached
<1>7. \A k, d : Bellman(R, k, d)' <=> Bellman(R, k, d)
  BY <1>6 DEF Bellman, Least
<1>8. \A i, m : Priced(i, m)' = Priced(i, m)
  BY CommandsStay DEF Priced
<1>9. \A i, m : Leads(i, m)' <=> Leads(i, m)
  BY <1>2, GridsStay, CommandsStay DEF Leads
<1>10. \A i, m : Cheapest(R, i, m)' <=> Cheapest(R, i, m)
  BY <1>8, <1>9 DEF Cheapest, Least
<1>11. \A s : End(R, s)' <=> End(R, s)
  BY CommandsStay DEF End, Least
<1>12. \A i, moves : Interval(i, moves)' = Interval(i, moves)
  BY CommandsStay DEF Interval
<1> QED BY <1>5, <1>6, <1>7, <1>10, <1>11, <1>12

\* Some state is the first of the best.
LEMMA BestEnds ==
    ASSUME Params, NEW R, Runs(R), NEW d, Bellman(R, Steps, d), DOMAIN d # {},
           NEW e, e = CHOOSE r \in DOMAIN d : \A s \in DOMAIN d : Beats(d, r, s)
    PROVE  e \in States /\ End(R, e)
<1> DEFINE S == DOMAIN d
           score == [s \in S |-> Penalised(s, d[s])]
           s0 == {s \in S : \A r \in S : score[s] <= score[r]}
           batt == [s \in s0 |-> s[1]]
           s1 == {s \in s0 : \A r \in s0 : batt[s] <= batt[r]}
           ev == [s \in s1 |-> s[2]]
<1>1. \A s \in S : s \in States /\ s[1] \in Int /\ s[2] \in Int /\ d[s] \in Int
                   /\ Least(R, Steps, s, d[s])
  BY GridsAre DEF Bellman, Reached, States, AGrid
<1>2. \A s, x : s[1] \in Int /\ x \in Int => Penalised(s, x) \in Int
  <2>1. p.init \in Int /\ p.terminal \in Int /\ Shortfall \in Int
    BY PlannerAssumption DEF Params
  <2> QED BY <2>1 DEF Penalised
<1>3. \A s \in S : score[s] = Penalised(s, d[s]) /\ score[s] \in Int
  BY <1>1, <1>2
<1>4. IsFiniteSet(S)
  <2>1. IsFiniteSet(States)
    BY GridsAre, FS_Product DEF AGrid, States
  <2>2. S \in SUBSET States
    BY <1>1
  <2> HIDE DEF S
  <2> QED BY <2>1, <2>2, FS_Subset
<1> HIDE DEF score, S
<1>5. S # {}
  BY DEF S
<1>6. s0 # {} /\ IsFiniteSet(s0) /\ s0 \subseteq S
  <2>1. PICK s \in S : \A r \in S : score[s] <= score[r]
    BY <1>3, <1>4, <1>5, LeastOfAll
  <2>2. s0 \in SUBSET S
    OBVIOUS
  <2> QED BY <1>4, <2>1, <2>2, FS_Subset
<1>7. s1 # {} /\ IsFiniteSet(s1) /\ s1 \subseteq s0
  <2>1. \A s \in s0 : batt[s] \in Int
    BY <1>1, <1>6
  <2>2. PICK s \in s0 : \A r \in s0 : batt[s] <= batt[r]
    <3> HIDE DEF s0, batt
    <3> QED BY <1>6, <2>1, LeastOfAll
  <2>3. s1 \in SUBSET s0
    OBVIOUS
  <2>4. s \in s1
    BY <2>2
  <2> HIDE DEF s0, s1, batt
  <2> QED BY <1>6, <2>3, <2>4, FS_Subset
<1>8. PICK c \in s1 : \A r \in s1 : ev[c] <= ev[r]
  <2>1. \A s \in s1 : ev[s] \in Int
    BY <1>1, <1>6, <1>7
  <2> HIDE DEF s1, ev
  <2> QED BY <1>7, <2>1, LeastOfAll
<1>9. ASSUME NEW s \in S PROVE Beats(d, c, s)
  <2>1. c \in s0 /\ c \in S /\ c[1] \in Int /\ c[2] \in Int /\ s[1] \in Int /\ s[2] \in Int
    BY <1>1, <1>6, <1>7, <1>8
  <2>2. score[c] <= score[s] /\ score[c] \in Int /\ score[s] \in Int
    BY <1>3, <2>1
  <2>3. score[s] = score[c] => s \in s0
    BY <2>1
  <2>4. s \in s0 => c[1] <= s[1] /\ (s[1] = c[1] => s \in s1)
    <3> SUFFICES ASSUME s \in s0 PROVE c[1] <= s[1] /\ (s[1] = c[1] => s \in s1)
      OBVIOUS
    <3>1. batt[c] = c[1] /\ batt[s] = s[1] /\ batt[c] <= batt[s]
      BY <1>8, <2>1
    <3> QED BY <1>8, <3>1
  <2>5. s \in s1 => c[2] <= s[2]
    <3> SUFFICES ASSUME s \in s1 PROVE c[2] <= s[2]
      OBVIOUS
    <3>1. ev[c] = c[2] /\ ev[s] = s[2] /\ ev[c] <= ev[s]
      BY <1>8
    <3> QED BY <3>1
  <2> HIDE DEF s0, s1
  <2>6. \/ score[c] < score[s]
        \/ score[c] = score[s] /\ (c[1] < s[1] \/ (c[1] = s[1] /\ c[2] <= s[2]))
    BY <2>1, <2>2, <2>3, <2>4, <2>5
  <2>7. score[c] = Penalised(c, d[c]) /\ score[s] = Penalised(s, d[s])
    BY <1>3, <2>1
  <2> QED BY <2>6, <2>7 DEF Beats
<1>10. c \in S
  BY <1>6, <1>7, <1>8
<1>11. e \in S /\ \A s \in S : Beats(d, e, s)
  <2>1. e = CHOOSE r \in S : \A s \in S : Beats(d, r, s)
    BY DEF S
  <2> HIDE DEF s0, s1
  <2> QED BY <1>9, <1>10, <2>1
<1>12. \A s \in S : Penalised(e, d[e]) <= Penalised(s, d[s])
  <2>1. \A s \in S : Penalised(s, d[s]) \in Int
    BY <1>3
  <2>2. ASSUME NEW s \in S PROVE Penalised(e, d[e]) <= Penalised(s, d[s])
    <3>1. Beats(d, e, s) /\ Penalised(e, d[e]) \in Int /\ Penalised(s, d[s]) \in Int
      BY <1>11, <2>1
    <3>2. Penalised(e, d[e]) < Penalised(s, d[s]) \/ Penalised(e, d[e]) = Penalised(s, d[s])
      BY <3>1 DEF Beats
    <3> QED BY <3>1, <3>2
  <2> HIDE DEF s0, s1
  <2> QED BY <2>2
<1>13. Steps \in 0..Steps
  BY ScheduleAssumption
<1>14. ASSUME NEW r \in R[Steps]
       PROVE  Penalised(e, d[e]) <= Penalised(<<r[1], r[2]>>, r[3])
  <2> DEFINE s == <<r[1], r[2]>>
  <2>1. r \in Run
    BY <1>13, <1>14 DEF Runs
  <2>2. s \in States /\ <<s[1], s[2], r[3]>> = r /\ r[3] \in Int /\ s[1] = r[1]
    BY <2>1 DEF Run, States
  <2> HIDE DEF s
  <2>3. s \in S
    BY <1>14, <2>2 DEF S, Bellman, Reached
  <2>4. d[s] <= r[3] /\ d[s] \in Int /\ s[1] \in Int
    BY <1>1, <1>14, <2>2, <2>3 DEF Least
  <2>5. Penalised(s, d[s]) <= Penalised(s, r[3])
    <3>1. p.init \in Int /\ p.terminal \in Int /\ Shortfall \in Int
      BY PlannerAssumption DEF Params
    <3>2. \A g \in Int : Shortfall * (g - s[1]) \in Int
      BY <2>4, <3>1
    <3> QED BY <2>2, <2>4, <3>1, <3>2 DEF Penalised
  <2>6. /\ Penalised(e, d[e]) \in Int /\ Penalised(s, d[s]) \in Int
        /\ Penalised(s, r[3]) \in Int /\ Penalised(e, d[e]) <= Penalised(s, d[s])
    BY <1>1, <1>2, <1>11, <1>12, <2>2, <2>3, <2>4
  <2>7. Penalised(e, d[e]) <= Penalised(s, r[3])
    BY <2>5, <2>6
  <2> QED BY <2>7 DEF s
<1>15. e \in States /\ d[e] \in Int /\ Least(R, Steps, e, d[e])
  BY <1>1, <1>11
<1> QED BY <1>14, <1>15 DEF End

\* What the steps before n have recorded of a state leads there cheapest.
Recorded(R, n) ==
    \A i \in 0..n - 1, s \in States :
        /\ \A m \in back[i][s] : Cheapest(R, i, m) /\ m.to = s
        /\ s \in Reached(R, i + 1) => back[i][s] # {}

\* The way back so far: the states it went through from step t on, and the
\* interval that was written at each.
Trail(A) ==
    /\ A \in [t..Steps -> States] /\ A[t] = at
    /\ plan = [k \in 1..Steps - t |-> Interval(t + k - 1, back[t + k - 1][A[t + k]])]
    /\ \A i \in t..Steps - 1 :
          A[i] = IF back[i][A[i + 1]] = {} THEN A[i + 1] ELSE Kept(back[i][A[i + 1]]).from

\* The tables: true so far on the way forward; on the way back, true throughout,
\* and the way so far one of the cheapest.
Tables ==
    /\ DOMAIN back = Horizon
    /\ \E R : /\ Runs(R) /\ Recorded(R, IF stage = "forward" THEN t ELSE Steps)
              /\ stage \in {"forward", "settle"} => Bellman(R, t, dp)
              /\ stage \in {"back", "done"} => \E A : Trail(A) /\ End(R, A[Steps])

\* The inductive invariant of the program.
PlanInv ==
    /\ stage \in {"gather", "seed", "forward", "settle", "back", "done"} /\ site \in Sites
    /\ stage \in {"gather", "seed", "forward", "settle"} => plan = << >>
    /\ stage \in {"gather", "seed"} => t = 0
    /\ stage = "forward" => t \in Horizon /\ at \in States
    /\ stage = "settle" => t = Steps /\ at \in States
    /\ stage = "back" => t \in 1..Steps
    /\ stage = "done" => t = 0
    /\ stage # "gather" => Params
    /\ stage \notin {"gather", "seed"} => Tables

\* The seed is the one state a run begins in.
LEMMA SeedKeeps ==
    ASSUME PlanInv, Seed PROVE PlanInv'
<1> DEFINE s0 == <<Closest(BattLevels, p.init), Closest(EvLevels, p.evInit)>>
<1>1. /\ stage = "seed" /\ stage' = "forward" /\ p' = p /\ site' = site /\ t' = t /\ t = 0
      /\ plan' = plan /\ plan = << >> /\ at' = s0 /\ dp' = [s \in {s0} |-> 0] /\ Params
      /\ back' = [i \in Horizon |-> [s \in States |-> {}]]
  BY DEF Seed, PlanInv
<1>2. Runs(RunsBefore) /\ Outset \in Run /\ Outset = <<s0[1], s0[2], 0>> /\ s0 \in States
  BY <1>1, RunsAre, OutsetIs DEF Outset
<1>3. 0 \in 0..Steps /\ 0 \in Horizon
  BY ScheduleAssumption DEF Horizon
<1>4. PICK R : Runs(R)
  BY <1>2
<1>5. R[0] = {<<s0[1], s0[2], 0>>}
  BY <1>2, <1>4 DEF Runs
<1> HIDE DEF s0
<1>6. Bellman(R, 0, [s \in {s0} |-> 0])
  <2>1. ASSUME NEW s \in Reached(R, 0) PROVE s = s0
    <3>1. s \in States /\ s[1] = s0[1] /\ s[2] = s0[2]
      BY <1>5 DEF Reached
    <3> QED BY <1>2, <3>1 DEF States
  <2>2. s0 \in Reached(R, 0)
    BY <1>2, <1>5 DEF Reached
  <2>3. Reached(R, 0) = {s0}
    BY <2>1, <2>2
  <2>4. Least(R, 0, s0, 0)
    BY <1>5 DEF Least
  <2> QED BY <2>3, <2>4 DEF Bellman
<1>7. Runs(R)' /\ Bellman(R, t, dp)'
  <2> DEFINE d == [s \in {s0} |-> 0]
  <2>1. Bellman(R, 0, d) /\ dp' = d /\ t' = 0
    BY <1>1, <1>6
  <2> HIDE DEF d
  <2>2. Runs(R)' /\ Reached(R, 0)' = Reached(R, 0)
    BY <1>1, <1>4, RunsStay
  <2> QED BY <2>1, <2>2 DEF Bellman, Least
<1>8. Recorded(R, t)'
  <2>1. t' = 0 /\ 0..0 - 1 = {}
    BY <1>1
  <2> QED BY <2>1 DEF Recorded
<1>9. Tables'
  BY <1>1, <1>7, <1>8 DEF Tables
<1>10. Params' /\ at' \in States'
  BY <1>1, <1>2, GridsStay
<1> QED BY <1>1, <1>3, <1>9, <1>10 DEF PlanInv

\* A step forward keeps the table that of the cheapest runs.
LEMMA ForwardKeeps ==
    ASSUME PlanInv, Forward PROVE PlanInv'
<1>6. PICK best : best = Bests(t, dp)
  OBVIOUS
<1>1. /\ stage = "forward" /\ p' = p /\ site' = site /\ t' = t + 1 /\ at' = at /\ plan' = plan
      /\ stage' = IF t + 1 = Steps THEN "settle" ELSE "forward"
      /\ plan = << >> /\ t \in Horizon /\ at \in States /\ Params /\ Tables
  BY DEF Forward, PlanInv
<1>2. /\ dp' = [s \in {s \in States : best[s] # {}} |-> Kept(best[s]).cost]
      /\ back' = [back EXCEPT ![t] = best]
  <2> DEFINE to == [s \in States |-> {m \in MovesAt(t, dp) : m.to = s}]
  <2>1. [s \in States |-> Best(to[s])] = best
    BY <1>6 DEF Bests
  <2> QED BY <2>1 DEF Forward
<1>3. /\ t \in Int /\ Steps \in Int /\ t >= 0 /\ t < Steps /\ t + 1 \in 0..Steps
      /\ (t + 1 # Steps => t + 1 \in Horizon)
  BY <1>1, ScheduleAssumption DEF Horizon
<1>4. DOMAIN back = Horizon
  BY <1>1 DEF Tables
<1>5. PICK R : Runs(R) /\ Recorded(R, t) /\ Bellman(R, t, dp)
  BY <1>1 DEF Tables
<1>7. /\ DOMAIN dp' = Reached(R, t + 1)
      /\ \A s \in DOMAIN dp' : dp'[s] \in Int /\ Least(R, t + 1, s, dp'[s])
      /\ \A s \in States : /\ \A m \in best[s] : Cheapest(R, t, m) /\ m.to = s
                           /\ s \in Reached(R, t + 1) => best[s] # {}
  <2>1. PICK e : e = Costs(best)
    OBVIOUS
  <2>2. /\ Bellman(R, t + 1, e)
        /\ \A s \in States : /\ \A m \in best[s] : Cheapest(R, t, m) /\ m.to = s
                             /\ s \in Reached(R, t + 1) => best[s] # {}
    BY <1>1, <1>5, <1>6, <2>1, StepKeepsBellman
  <2>3. dp' = e
    BY <1>2, <2>1 DEF Costs
  <2> QED BY <2>2, <2>3 DEF Bellman, Least
<1>8. DOMAIN back' = Horizon /\ back'[t] = best /\ \A i \in 0..t - 1 : back'[i] = back[i]
  BY <1>1, <1>2, <1>3, <1>4 DEF Horizon
<1>9. Recorded(R, t)'
  <2>1. /\ States' = States /\ \A k : Reached(R, k)' = Reached(R, k)
        /\ \A i, m : Cheapest(R, i, m)' <=> Cheapest(R, i, m)
    BY <1>1, GridsStay, RunsStay
  <2>2. ASSUME NEW i \in 0..t, NEW s \in States
        PROVE  /\ \A m \in back'[i][s] : Cheapest(R, i, m) /\ m.to = s
               /\ s \in Reached(R, i + 1) => back'[i][s] # {}
    <3>1. CASE i = t
      BY <1>7, <1>8, <3>1
    <3>2. CASE i \in 0..t - 1
      BY <1>5, <1>8, <3>2 DEF Recorded
    <3> QED BY <1>3, <3>1, <3>2
  <2>3. 0..(t + 1) - 1 = 0..t
    BY <1>3
  <2>4. \A i \in 0..(t + 1) - 1, s \in States' :
          /\ \A m \in back'[i][s] : Cheapest(R, i, m)' /\ m.to = s
          /\ s \in Reached(R, i + 1)' => back'[i][s] # {}
    <3>1. ASSUME NEW i \in 0..t, NEW s \in States
          PROVE  /\ \A m \in back'[i][s] : Cheapest(R, i, m)' /\ m.to = s
                 /\ s \in Reached(R, i + 1)' => back'[i][s] # {}
      <4>1. Reached(R, i + 1)' = Reached(R, i + 1)
        BY <2>1
      <4>2. \A m : Cheapest(R, i, m)' <=> Cheapest(R, i, m)
        BY <2>1
      <4> QED BY <2>2, <4>1, <4>2
    <3> QED BY <2>1, <2>3, <3>1
  <2> QED BY <1>1, <2>4 DEF Recorded
<1>10. Runs(R)' /\ Bellman(R, t, dp)'
  <2>1. Runs(R)' /\ \A k : Reached(R, k)' = Reached(R, k)
    BY <1>1, <1>5, RunsStay
  <2> QED BY <1>1, <1>7, <2>1 DEF Bellman, Least
<1>11. Tables'
  BY <1>1, <1>8, <1>9, <1>10 DEF Tables
<1>12. Params' /\ at' \in States'
  BY <1>1, GridsStay
<1> QED BY <1>1, <1>3, <1>11, <1>12 DEF PlanInv

\* The way back begins where a best run ends.
LEMMA SettleKeeps ==
    ASSUME PlanInv, Settle PROVE PlanInv'
<1>1. /\ stage = "settle" /\ stage' = "back" /\ p' = p /\ site' = site /\ t' = t /\ t = Steps
      /\ plan' = plan /\ plan = << >> /\ back' = back /\ at \in States /\ Params /\ Tables
      /\ at' = IF DOMAIN dp = {} THEN at
               ELSE CHOOSE r \in DOMAIN dp : \A s \in DOMAIN dp : Beats(dp, r, s)
  BY DEF Settle, PlanInv
<1>2. PICK R : Runs(R) /\ Recorded(R, Steps) /\ Bellman(R, Steps, dp)
  BY <1>1 DEF Tables
<1>3. at' \in States /\ End(R, at')
  <2>1. CASE DOMAIN dp = {}
    <3>1. ASSUME NEW r \in R[Steps] PROVE FALSE
      <4>1. r \in Run
        BY <1>2, <3>1, ScheduleAssumption DEF Runs
      <4> DEFINE s == <<r[1], r[2]>>
      <4>2. s \in States /\ r = <<s[1], s[2], r[3]>> /\ r[3] \in Int
        BY <4>1 DEF Run, States
      <4> HIDE DEF s
      <4>3. s \in Reached(R, Steps)
        BY <3>1, <4>2 DEF Reached
      <4> QED BY <1>2, <2>1, <4>3 DEF Bellman
    <3> QED BY <1>1, <2>1, <3>1 DEF End
  <2>2. CASE DOMAIN dp # {}
    <3> DEFINE e == CHOOSE r \in DOMAIN dp : \A s \in DOMAIN dp : Beats(dp, r, s)
    <3>1. e \in States /\ End(R, e)
      BY <1>1, <1>2, <2>2, BestEnds
    <3>2. at' = e
      BY <1>1, <2>2
    <3> QED BY <3>1, <3>2
  <2> QED BY <2>1, <2>2
<1>4. Recorded(R, Steps)'
  <2>1. /\ States' = States /\ \A k : Reached(R, k)' = Reached(R, k)
        /\ \A i, m : Cheapest(R, i, m)' <=> Cheapest(R, i, m)
    BY <1>1, GridsStay, RunsStay
  <2> QED BY <1>1, <1>2, <2>1 DEF Recorded
<1>5a. PICK A : A = [i \in Steps..Steps |-> at']
  OBVIOUS
<1>5. Steps \in Nat /\ Steps > 0 /\ Steps \in Steps..Steps /\ 1..Steps - Steps = {}
      /\ Steps..Steps - 1 = {}
  BY ScheduleAssumption
<1>6. A[Steps] = at' /\ A \in [Steps..Steps -> States']
  BY <1>1, <1>3, <1>5, <1>5a, GridsStay
<1>7. Trail(A)'
  <2>1. plan' = [k \in 1..Steps - Steps |->
                   Interval(Steps + k - 1, back[Steps + k - 1][A[Steps + k]])']
    BY <1>1, <1>5
  <2> QED BY <1>1, <1>5, <1>6, <2>1 DEF Trail
<1>8. End(R, A[Steps])' /\ Runs(R)'
  BY <1>1, <1>2, <1>3, <1>6, RunsStay
<1>9. DOMAIN back' = Horizon
  BY <1>1 DEF Tables
<1>10. Tables'
  BY <1>1, <1>4, <1>7, <1>8, <1>9 DEF Tables
<1>11. Params'
  BY <1>1, GridsStay
<1> QED BY <1>1, <1>5, <1>10, <1>11 DEF PlanInv

\* The way back follows the recorded moves.
LEMMA BacktrackKeeps ==
    ASSUME PlanInv, Backtrack PROVE PlanInv'
<1>1. /\ stage = "back" /\ p' = p /\ site' = site /\ t' = t - 1 /\ dp' = dp /\ back' = back
      /\ t \in 1..Steps /\ Params /\ Tables /\ stage' = IF t = 1 THEN "done" ELSE "back"
      /\ plan' = <<Interval(t - 1, back[t - 1][at])>> \o plan
      /\ at' = IF back[t - 1][at] = {} THEN at ELSE Kept(back[t - 1][at]).from
  BY DEF Backtrack, PlanInv
<1>2. /\ Steps \in Nat /\ t \in Int /\ t >= 1 /\ t <= Steps /\ t - 1 \in 0..Steps - 1
      /\ t - 1 \in Horizon /\ Steps \in t..Steps /\ (t - 1) + 1 = t /\ t \in t..Steps
      /\ (t # 1 => t - 1 \in 1..Steps)
  BY <1>1, ScheduleAssumption DEF Horizon
<1>3. PICK R : Runs(R) /\ Recorded(R, Steps) /\ \E A : Trail(A) /\ End(R, A[Steps])
  BY <1>1 DEF Tables
<1>4. PICK A : Trail(A) /\ End(R, A[Steps])
  BY <1>3
<1>5. /\ A \in [t..Steps -> States] /\ A[t] = at /\ at \in States
      /\ plan = [k \in 1..Steps - t |-> Interval(t + k - 1, back[t + k - 1][A[t + k]])]
      /\ \A i \in t..Steps - 1 :
          A[i] = IF back[i][A[i + 1]] = {} THEN A[i + 1] ELSE Kept(back[i][A[i + 1]]).from
  BY <1>2, <1>4 DEF Trail
<1>6. at' \in States
  <2>1. \A m \in back[t - 1][at] : Cheapest(R, t - 1, m)
    BY <1>2, <1>3, <1>5 DEF Recorded
  <2>2. CASE back[t - 1][at] = {}
    BY <1>1, <1>5, <2>2
  <2>3. CASE back[t - 1][at] # {}
    <3>1. Kept(back[t - 1][at]) \in back[t - 1][at]
      BY <2>3 DEF Kept
    <3>2. Kept(back[t - 1][at]).from \in States
      BY <2>1, <3>1 DEF Cheapest, Leads
    <3> QED BY <1>1, <2>3, <3>2
  <2> QED BY <2>2, <2>3
<1>7. PICK B : B = [i \in t - 1..Steps |-> IF i = t - 1 THEN at' ELSE A[i]]
  OBVIOUS
<1>8. /\ B \in [t - 1..Steps -> States] /\ B[t - 1] = at' /\ B[Steps] = A[Steps]
      /\ \A i \in t..Steps : B[i] = A[i]
  <2>1. \A i \in t..Steps : i # t - 1 /\ i \in t - 1..Steps
    BY <1>2
  <2>2. \A i \in t..Steps : B[i] = A[i]
    BY <1>7, <2>1
  <2>3. \A i \in t - 1..Steps : i = t - 1 \/ i \in t..Steps
    BY <1>2
  <2>4. t - 1 \in t - 1..Steps
    BY <1>2
  <2> QED BY <1>2, <1>5, <1>6, <1>7, <2>2, <2>3, <2>4
<1>9. \A i \in t - 1..Steps - 1 :
          B[i] = IF back[i][B[i + 1]] = {} THEN B[i + 1] ELSE Kept(back[i][B[i + 1]]).from
  <2>1. \A i \in t - 1..Steps - 1 : i = t - 1 \/ (i \in t..Steps - 1 /\ i + 1 \in t..Steps /\ i \in t..Steps)
    BY <1>2
  <2>2. B[t - 1] = IF back[t - 1][B[(t - 1) + 1]] = {} THEN B[(t - 1) + 1]
                   ELSE Kept(back[t - 1][B[(t - 1) + 1]]).from
    BY <1>1, <1>2, <1>5, <1>8
  <2> QED BY <1>5, <1>8, <2>1, <2>2
<1> DEFINE X == Interval(t - 1, back[t - 1][at])
           F(k) == Interval((t - 1) + k - 1, back[(t - 1) + k - 1][B[(t - 1) + k]])
           line == [k \in 1..Steps - (t - 1) |-> F(k)]
<1>10. plan' = line
  <2> DEFINE S == {X} \cup {plan[k] : k \in 1..Steps - t}
  <2>1. plan \in Seq(S) /\ Len(plan) = Steps - t /\ \A k \in 1..Steps - t : plan[k] = F(k + 1)
    <3>1. Steps - t \in Nat
      BY <1>2
    <3>2. DOMAIN plan = 1..Steps - t /\ \A k \in 1..Steps - t : plan[k] \in S
      BY <1>5
    <3>3. \A k \in 1..Steps - t : plan[k] = F(k + 1)
      <4>1. ASSUME NEW k \in 1..Steps - t PROVE plan[k] = F(k + 1)
        <5>1. t + k - 1 = (t - 1) + (k + 1) - 1 /\ t + k = (t - 1) + (k + 1) /\ t + k \in t..Steps
          BY <1>2
        <5>2. plan[k] = Interval(t + k - 1, back[t + k - 1][A[t + k]]) /\ A[t + k] = B[t + k]
          BY <1>5, <1>8, <5>1
        <5> QED BY <5>1, <5>2
      <4> QED BY <4>1
    <3>4. plan = [k \in 1..Steps - t |-> plan[k]]
      BY <1>5, <3>2
    <3> HIDE DEF S, F
    <3>5. plan \in Seq(S)
      BY <3>1, <3>2, <3>4
    <3> QED BY <3>1, <3>2, <3>3, <3>5, LenProperties
  <2>2. <<X>> \in Seq(S) /\ Len(<<X>>) = 1 /\ <<X>>[1] = X
    OBVIOUS
  <2>3. X = F(1)
    <3>1. (t - 1) + 1 - 1 = t - 1
      BY <1>2
    <3> QED BY <1>2, <1>5, <1>8, <3>1
  <2> HIDE DEF S, F, X
  <2>4. /\ plan' \in Seq(S) /\ Len(plan') = 1 + (Steps - t)
        /\ \A k \in 1..1 + (Steps - t) : plan'[k] = IF k <= 1 THEN <<X>>[k] ELSE plan[k - 1]
    BY <1>1, <2>1, <2>2, ConcatProperties DEF X
  <2>5. DOMAIN plan' = 1..Steps - (t - 1) /\ plan' = [k \in 1..Steps - (t - 1) |-> plan'[k]]
    BY <1>2, <2>4, LenProperties
  <2>6. ASSUME NEW k \in 1..Steps - (t - 1) PROVE plan'[k] = F(k)
    <3>1. k \in 1..1 + (Steps - t) /\ (k <= 1 => k = 1)
          /\ (~ k <= 1 => k - 1 \in 1..Steps - t /\ (k - 1) + 1 = k)
      BY <1>2
    <3>2. CASE k <= 1
      BY <2>2, <2>3, <2>4, <3>1, <3>2
    <3>3. CASE ~ k <= 1
      <4>1. plan'[k] = plan[k - 1]
        BY <2>4, <3>1, <3>3
      <4>2. plan[k - 1] = F((k - 1) + 1)
        BY <2>1, <3>1, <3>3
      <4> QED BY <3>1, <3>3, <4>1, <4>2
    <3> QED BY <3>2, <3>3
  <2> QED BY <2>5, <2>6
<1> HIDE DEF X
<1>11. Trail(B)'
  <2>1. States' = States /\ \A i, moves : Interval(i, moves)' = Interval(i, moves)
    BY <1>1, GridsStay, RunsStay
  <2>2. (plan = [k \in 1..Steps - t |-> Interval(t + k - 1, back[t + k - 1][B[t + k]])])'
    BY <1>1, <1>10, <2>1
  <2>3. B \in [t'..Steps -> States'] /\ B[t'] = at'
    BY <1>1, <1>8, <2>1
  <2>4. \A i \in t'..Steps - 1 :
          B[i] = IF back'[i][B[i + 1]] = {} THEN B[i + 1] ELSE Kept(back'[i][B[i + 1]]).from
    BY <1>1, <1>9
  <2> HIDE DEF F
  <2> QED BY <2>2, <2>3, <2>4 DEF Trail
<1>12. Runs(R)' /\ End(R, B[Steps])'
  BY <1>1, <1>3, <1>4, <1>8, RunsStay
<1>13. Recorded(R, Steps)'
  <2>1. /\ States' = States /\ \A k : Reached(R, k)' = Reached(R, k)
        /\ \A i, m : Cheapest(R, i, m)' <=> Cheapest(R, i, m)
    BY <1>1, GridsStay, RunsStay
  <2> QED BY <1>1, <1>3, <2>1 DEF Recorded
<1>14. DOMAIN back' = Horizon
  BY <1>1 DEF Tables
<1>15. Tables'
  <2>1. \E C : Trail(C)' /\ End(R, C[Steps])'
    BY <1>11, <1>12
  <2> QED BY <1>1, <1>12, <1>13, <1>14, <2>1 DEF Tables
<1>16. Params' /\ site' \in Sites
  BY <1>1, GridsStay DEF PlanInv
<1> QED BY <1>1, <1>2, <1>15, <1>16 DEF PlanInv

\* A finished plan: the way it goes, interval by interval.
Retraced(R, A) ==
    /\ Params /\ Runs(R) /\ Recorded(R, Steps) /\ A \in [0..Steps -> States] /\ End(R, A[Steps])
    /\ \A i \in Horizon :
          /\ plan[i + 1] = Interval(i, back[i][A[i + 1]])
          /\ A[i] = IF back[i][A[i + 1]] = {} THEN A[i + 1] ELSE Kept(back[i][A[i + 1]]).from

\* A finished plan has been walked back to its first step.
LEMMA DoneIsFinished ==
    ASSUME PlanInv, stage = "done" PROVE \E R, A : Retraced(R, A)
<1>1. t = 0 /\ Params /\ Tables /\ stage # "forward" /\ Steps \in Nat
  BY ScheduleAssumption DEF PlanInv
<1>2. PICK R : Runs(R) /\ Recorded(R, Steps) /\ \E A : Trail(A) /\ End(R, A[Steps])
  BY <1>1 DEF Tables
<1>3. PICK A : Trail(A) /\ End(R, A[Steps])
  BY <1>2
<1>4. /\ A \in [0..Steps -> States]
      /\ plan = [k \in 1..Steps - 0 |-> Interval(0 + k - 1, back[0 + k - 1][A[0 + k]])]
      /\ \A i \in 0..Steps - 1 :
          A[i] = IF back[i][A[i + 1]] = {} THEN A[i + 1] ELSE Kept(back[i][A[i + 1]]).from
  BY <1>1, <1>3 DEF Trail
<1>5. ASSUME NEW i \in Horizon PROVE plan[i + 1] = Interval(i, back[i][A[i + 1]])
  <2>1. i + 1 \in 1..Steps - 0 /\ 0 + (i + 1) - 1 = i /\ 0 + (i + 1) = i + 1
    BY <1>1 DEF Horizon
  <2>2. plan[i + 1] = Interval(0 + (i + 1) - 1, back[0 + (i + 1) - 1][A[0 + (i + 1)]])
    BY <1>4, <2>1
  <2> QED BY <2>1, <2>2
<1> QED BY <1>1, <1>2, <1>3, <1>4, <1>5 DEF Retraced, Horizon

\* What an interval says.
LEMMA IntervalIs ==
    ASSUME NEW i, NEW moves, NEW x, x = Interval(i, moves)
    PROVE  /\ x.booked <=> moves # {}
           /\ x.batt = IF moves = {} \/ ~p.hasBatt THEN 0
                       ELSE BattEff(Kept(moves).from[1], Kept(moves).cmd)
           /\ x.current = IF moves = {} THEN 0 ELSE Kept(moves).cur
           /\ x.grid = Grid(i, x.batt, x.current) /\ x.cost = StepCost(i, x.batt, x.current)
           /\ x.soc = IF moves = {} \/ ~p.hasBatt THEN None ELSE Kept(moves).from[1]
           /\ x.command = IF moves = {} THEN None ELSE Kept(moves).cmd
<1>1. x.booked <=> moves # {}
  BY Zenon DEF Interval
<1>2. x.batt = IF moves = {} \/ ~p.hasBatt THEN 0
                       ELSE BattEff(Kept(moves).from[1], Kept(moves).cmd)
  BY DEF Interval
<1>3. x.current = IF moves = {} THEN 0 ELSE Kept(moves).cur
  BY DEF Interval
<1>4. x.grid = Grid(i, x.batt, x.current) /\ x.cost = StepCost(i, x.batt, x.current)
  BY DEF Interval
<1>5. x.soc = IF moves = {} \/ ~p.hasBatt THEN None ELSE Kept(moves).from[1]
  BY DEF Interval
<1>6. x.command = IF moves = {} THEN None ELSE Kept(moves).cmd
  BY DEF Interval
<1> QED BY <1>1, <1>2, <1>3, <1>4, <1>5, <1>6

\* The move that is kept of a step, when there is one.
LEMMA KeptIsCheapest ==
    ASSUME NEW R, NEW A, Retraced(R, A), NEW i \in Horizon, back[i][A[i + 1]] # {},
           NEW m, m = Kept(back[i][A[i + 1]])
    PROVE  /\ Cheapest(R, i, m) /\ m.to = A[i + 1] /\ m.from = A[i]
           /\ plan[i + 1].booked /\ plan[i + 1].batt = BattEff(m.from[1], m.cmd)
           /\ plan[i + 1].current = m.cur /\ plan[i + 1].cost = Priced(i, m)
           /\ plan[i + 1].command = m.cmd /\ (p.hasBatt => plan[i + 1].soc = m.from[1])
<1>1. i \in 0..Steps - 1 /\ i + 1 \in 0..Steps
  BY ScheduleAssumption DEF Horizon
<1>2. m \in back[i][A[i + 1]] /\ A[i + 1] \in States
  BY <1>1 DEF Kept, Retraced
<1>3. Cheapest(R, i, m) /\ m.to = A[i + 1]
  BY <1>1, <1>2 DEF Retraced, Recorded
<1>4. m.from = A[i]
  BY DEF Retraced
<1>5. plan[i + 1] = Interval(i, back[i][A[i + 1]])
  BY DEF Retraced
<1>6. ~p.hasBatt => BattEff(m.from[1], m.cmd) = 0
  BY DEF BattEff
<1> QED BY <1>3, <1>4, <1>5, <1>6, IntervalIs DEF Priced

\* An interval that books a move says where it came from and what it cost.
LEMMA BookedIs ==
    ASSUME NEW R, NEW A, Retraced(R, A), NEW i \in Horizon
    PROVE  plan[i + 1].booked <=> back[i][A[i + 1]] # {}
<1>1. plan[i + 1] = Interval(i, back[i][A[i + 1]])
  BY DEF Retraced
<1> QED BY <1>1, IntervalIs

\* A finished plan is one of the best runs.
LEMMA DoneIsBest ==
    ASSUME PlanInv PROVE PlanIsBest
<1> SUFFICES ASSUME stage = "done", LegalRuns # {}
             PROVE  /\ \A k \in 1..Steps : plan[k].booked
                    /\ Planned \in LegalRuns
                    /\ \A r \in LegalRuns : Penalised(<<Planned[1], Planned[2]>>, Planned[3])
                                              <= Penalised(<<r[1], r[2]>>, r[3])
  BY DEF PlanIsBest
<1>1. PICK R, A : Retraced(R, A)
  BY DoneIsFinished
<1>2. Params /\ Runs(R) /\ A \in [0..Steps -> States] /\ End(R, A[Steps]) /\ Recorded(R, Steps)
  BY <1>1 DEF Retraced
<1>3. /\ Steps \in Nat /\ 0 \in 0..Steps /\ Steps \in 0..Steps /\ Steps >= 1
      /\ \A i \in Horizon : i + 1 \in 1..Steps /\ i \in 0..Steps - 1 /\ i \in 0..Steps
                            /\ (i + 1) - 1 = i /\ i + 1 \in 0..Steps
      /\ \A k \in 1..Steps : k - 1 \in Horizon /\ (k - 1) + 1 = k
  BY ScheduleAssumption DEF Horizon
<1>4. LegalRuns = R[Steps]
  BY <1>2, <1>3, RunsAre, RunsAreOne DEF LegalRuns
<1>5. PICK x0 \in Int :
         /\ Least(R, Steps, A[Steps], x0)
         /\ \A r \in R[Steps] : Penalised(A[Steps], x0) <= Penalised(<<r[1], r[2]>>, r[3])
  BY <1>2, <1>4 DEF End
<1>6. \A i \in Horizon : A[i + 1] \in Reached(R, i + 1) =>
                           back[i][A[i + 1]] # {} /\ A[i] \in Reached(R, i)
  <2> SUFFICES ASSUME NEW i \in Horizon, A[i + 1] \in Reached(R, i + 1)
               PROVE  back[i][A[i + 1]] # {} /\ A[i] \in Reached(R, i)
    OBVIOUS
  <2>1. back[i][A[i + 1]] # {}
    BY <1>2, <1>3 DEF Recorded
  <2>2. PICK m : m = Kept(back[i][A[i + 1]])
    OBVIOUS
  <2>3. Cheapest(R, i, m) /\ m.from = A[i]
    BY <1>1, <2>1, <2>2, KeptIsCheapest
  <2>4. m.cost - Priced(i, m) \in Int /\ Least(R, i, m.from, m.cost - Priced(i, m)) /\ m.from \in States
    BY <1>2, <2>3, LeadsTo DEF Cheapest, Leads
  <2> QED BY <2>1, <2>3, <2>4 DEF Reached, Least
<1>7. \A i \in 0..Steps : A[i] \in Reached(R, i)
  <2> DEFINE S == {n \in Nat : n <= Steps => A[Steps - n] \in Reached(R, Steps - n)}
  <2>1. 0 \in S
    <3>1. Steps - 0 = Steps
      BY <1>3
    <3>2. A[Steps] \in Reached(R, Steps)
      BY <1>2, <1>3, <1>5 DEF Reached, Least
    <3> QED BY <3>1, <3>2
  <2>2. ASSUME NEW n \in Nat, n \in S PROVE n + 1 \in S
    <3> SUFFICES ASSUME n + 1 <= Steps PROVE A[Steps - (n + 1)] \in Reached(R, Steps - (n + 1))
      OBVIOUS
    <3>1. n <= Steps /\ Steps - (n + 1) \in Horizon /\ (Steps - (n + 1)) + 1 = Steps - n
      BY <1>3 DEF Horizon
    <3> QED BY <1>6, <2>2, <3>1
  <2> HIDE DEF S
  <2>3. Nat \subseteq S
    BY <2>1, <2>2, Induction
  <2>4. ASSUME NEW i \in 0..Steps PROVE A[i] \in Reached(R, i)
    <3>1. Steps - i \in S /\ Steps - i <= Steps /\ Steps - (Steps - i) = i
      BY <1>3, <2>3
    <3> QED BY <3>1 DEF S
  <2> QED BY <2>4
<1>8. \A k \in 1..Steps : plan[k].booked
  <2>1. \A i \in Horizon : plan[i + 1].booked
    BY <1>1, <1>3, <1>6, <1>7, BookedIs
  <2> QED BY <1>3, <2>1
<1> DEFINE low == [k \in 0..Steps |-> CHOOSE x \in Int : Least(R, k, A[k], x)]
           f == [k \in 0..Steps |-> <<A[k][1], A[k][2], low[k]>>]
           Sequel(g) == [k \in 0..Steps |-> IF k = 0 THEN Outset ELSE Played(g[k - 1], plan[k])]
<1>9. \A k \in 0..Steps, x \in Int : Least(R, k, A[k], x) => low[k] = x
  <2>1. \A k \in 0..Steps, x \in Int, y \in Int : Least(R, k, A[k], x) /\ Least(R, k, A[k], y) => x = y
    BY DEF Least
  <2> SUFFICES ASSUME NEW k \in 0..Steps, NEW x \in Int, Least(R, k, A[k], x) PROVE low[k] = x
    OBVIOUS
  <2>2. low[k] \in Int /\ Least(R, k, A[k], low[k])
    OBVIOUS
  <2> HIDE DEF low
  <2> QED BY <2>1, <2>2
<1> HIDE DEF low
<1>10. f[0] = Outset
  <2>1. PICK x \in Int : <<A[0][1], A[0][2], x>> \in R[0]
    BY <1>3, <1>7 DEF Reached
  <2>2. R[0] = {Outset} /\ Outset \in Run
    BY <1>2, OutsetIs DEF Runs
  <2>3. Outset = <<A[0][1], A[0][2], x>> /\ x = 0
    BY <2>1, <2>2 DEF Outset
  <2>4. Least(R, 0, A[0], 0)
    BY <2>2, <2>3 DEF Least
  <2> QED BY <1>3, <1>9, <2>3, <2>4
<1>11. ASSUME NEW i \in Horizon PROVE f[i + 1] = Played(f[i], plan[i + 1])
  <2>1. back[i][A[i + 1]] # {}
    BY <1>3, <1>6, <1>7
  <2>2. PICK m : m = Kept(back[i][A[i + 1]])
    OBVIOUS
  <2>3. /\ Cheapest(R, i, m) /\ m.to = A[i + 1] /\ m.from = A[i]
        /\ plan[i + 1].current = m.cur /\ plan[i + 1].cost = Priced(i, m)
        /\ plan[i + 1].command = m.cmd
    BY <1>1, <2>1, <2>2, KeptIsCheapest
  <2>4. /\ m.cost \in Int /\ Priced(i, m) \in Int /\ Leads(i, m)
        /\ Least(R, i, A[i], m.cost - Priced(i, m)) /\ Least(R, i + 1, A[i + 1], m.cost)
    BY <1>2, <2>3, LeadsTo DEF Cheapest, Leads
  <2>5. low[i] = m.cost - Priced(i, m) /\ low[i + 1] = m.cost
    BY <1>3, <1>9, <2>4
  <2>6. f[i] = <<A[i][1], A[i][2], low[i]>> /\ f[i + 1] = <<A[i + 1][1], A[i + 1][2], low[i + 1]>>
    BY <1>3
  <2>7. A[i + 1] = <<BattDest(A[i][1], m.cmd), EvDest(A[i][2], m.cur)>>
    BY <2>3, <2>4 DEF Leads
  <2> HIDE DEF f
  <2>8. Played(f[i], plan[i + 1]) = <<BattDest(A[i][1], m.cmd), EvDest(A[i][2], m.cur), low[i] + Priced(i, m)>>
    BY <2>3, <2>6 DEF Played
  <2> QED BY <2>4, <2>5, <2>6, <2>7, <2>8
<1>12. f = Sequel(f)
  <2>1. \A k \in 0..Steps : f[k] = IF k = 0 THEN Outset ELSE Played(f[k - 1], plan[k])
    <3>1. \A k \in 0..Steps : k = 0 \/ k \in 1..Steps
      BY <1>3
    <3> HIDE DEF f
    <3> QED BY <1>3, <1>10, <1>11, <3>1
  <2>2. f = [k \in 0..Steps |-> f[k]]
    OBVIOUS
  <2> HIDE DEF f
  <2> QED BY <2>1, <2>2
<1>13. PlayedBefore = CHOOSE g : g = Sequel(g)
  BY DEF PlayedBefore
<1>14. PlayedBefore = Sequel(PlayedBefore)
  <2> HIDE DEF Sequel, f
  <2> QED BY <1>12, <1>13
<1>15. PlayedBefore[0] = Outset /\ \A k \in 1..Steps : PlayedBefore[k] = Played(PlayedBefore[k - 1], plan[k])
  <2>1. \A k \in 1..Steps : k \in 0..Steps /\ k # 0
    BY <1>3
  <2> QED BY <1>3, <1>14, <2>1
<1>16. \A k \in 0..Steps : PlayedBefore[k] = f[k]
  <2> HIDE DEF f, Sequel
  <2>1. Alike(Steps, PlayedBefore, f)
    <3>1. \A k \in 1..Steps : f[k] = Played(f[k - 1], plan[k])
      BY <1>3, <1>11
    <3> QED BY <1>10, <1>15, <3>1 DEF Alike
  <2> QED BY <1>3, <2>1, SameCourse
<1>17. Planned = <<A[Steps][1], A[Steps][2], x0>>
  BY <1>3, <1>5, <1>9, <1>16 DEF Planned
<1>18. <<Planned[1], Planned[2]>> = A[Steps] /\ Planned[3] = x0
  BY <1>2, <1>3, <1>17 DEF States
<1>19. Planned \in R[Steps]
  BY <1>5, <1>17 DEF Least
<1> QED BY <1>4, <1>5, <1>8, <1>18, <1>19

\* A finished plan keeps the envelope, reckoned from its own setpoints.
LEMMA DoneKeepsEnvelope ==
    ASSUME PlanInv PROVE PlanKeepsEnvelope
<1> SUFFICES ASSUME stage = "done", NEW k \in 1..Steps, plan[k].booked
             PROVE  LET c == p.limits[k - 1]
                        out == Max2(0, plan[k].batt)
                        in == Max2(0, -plan[k].batt)
                        car == plan[k].current * Num * Den
                        power == p.load[k - 1] + car - p.solar[k - 1] - plan[k].batt
                    IN  /\ c.exp # None => -power <= c.exp
                        /\ c.imp # None => power <= c.imp
                        /\ c.max # None => p.solar[k - 1] + out <= c.max
                        /\ c.gen # None => p.solar[k - 1] + out + Max2(0, -car) <= c.gen
                        /\ c.load # None => p.load[k - 1] + in + Max2(0, car) <= c.load
                        /\ c.off => plan[k].batt = 0
  BY DEF PlanKeepsEnvelope
<1>1. PICK R, A : Retraced(R, A)
  BY DoneIsFinished
<1>2. PICK i : i = k - 1
  OBVIOUS
<1>3. i \in Horizon /\ i + 1 = k
  BY <1>2, ScheduleAssumption DEF Horizon
<1>4. back[i][A[i + 1]] # {}
  BY <1>1, <1>3, BookedIs
<1>5. PICK m : m = Kept(back[i][A[i + 1]])
  OBVIOUS
<1>6. Cheapest(R, i, m) /\ plan[k].batt = BattEff(m.from[1], m.cmd) /\ plan[k].current = m.cur
  BY <1>1, <1>3, <1>4, <1>5, KeptIsCheapest
<1>7. /\ m.from[1] \in BattLevels /\ m.cmd \in BattPowers /\ BattDest(m.from[1], m.cmd) # None
      /\ Allowed(i, plan[k].batt, plan[k].current) /\ (p.limits[i].off => m.cmd = 0)
  BY <1>6 DEF Cheapest, Leads, Legal, Runnable, States
<1>8. p.limits[i].off => plan[k].batt = 0
  <2>1. Params
    BY <1>1 DEF Retraced
  <2> QED BY <1>6, <1>7, <2>1, CommandLeads
<1> DEFINE c == p.limits[i]
           batt == plan[k].batt
           a == plan[k].current
<1>9. /\ Within(-Grid(i, batt, a), c.exp) /\ Within(Grid(i, batt, a), c.imp)
      /\ Within(p.solar[i] + Max2(0, batt), c.max)
      /\ Within(p.solar[i] + Max2(0, batt) + Max2(0, -EvAc(a)), c.gen)
      /\ Within(p.load[i] + Max2(0, EvAc(a)) + Max2(0, -batt), c.load)
  BY <1>7 DEF Allowed
<1>10. EvAc(a) = a * Num * Den /\ Grid(i, batt, a) = p.load[i] + EvAc(a) - p.solar[i] - batt
  BY DEF EvAc, Grid
<1>11. p.load[i] + Max2(0, EvAc(a)) + Max2(0, -batt) = p.load[i] + Max2(0, -batt) + Max2(0, EvAc(a))
  <2>1. batt \in Int /\ a \in Int /\ p.load[i] \in Int /\ Num \in Int /\ Den \in Int
    <3>1. Params /\ m.cur \in EvCurrents
      BY <1>1, <1>6 DEF Retraced, Cheapest, Leads, Legal
    <3>2. m.cur \in Int /\ batt \in Int
      BY <1>6, <1>7, <3>1, CommandLeads, GridsAre DEF AGrid
    <3> QED BY <1>3, <1>6, <3>1, <3>2, PlannerAssumption DEF Params
  <2>2. EvAc(a) \in Int
    BY <1>10, <2>1
  <2>3. Max2(0, EvAc(a)) \in Int /\ Max2(0, -batt) \in Int
    BY <2>1, <2>2 DEF Max2
  <2> QED BY <2>1, <2>3
<1> HIDE DEF c, batt, a
<1>12. /\ c.exp # None => -Grid(i, batt, a) <= c.exp
       /\ c.imp # None => Grid(i, batt, a) <= c.imp
       /\ c.max # None => p.solar[i] + Max2(0, batt) <= c.max
       /\ c.gen # None => p.solar[i] + Max2(0, batt) + Max2(0, -EvAc(a)) <= c.gen
       /\ c.load # None => p.load[i] + Max2(0, -batt) + Max2(0, EvAc(a)) <= c.load
  BY <1>9, <1>11 DEF Within
<1> QED BY <1>2, <1>8, <1>10, <1>12 DEF c, batt, a

\* A finished plan sells no energy the battery does not lose.
LEMMA DoneSellsWhatIsLost ==
    ASSUME PlanInv PROVE NoFreeDischarge
<1> SUFFICES ASSUME stage = "done", p.hasBatt, NEW k \in 1..Steps - 1, plan[k].booked,
                    plan[k + 1].booked, plan[k].batt > 0
             PROVE  plan[k].batt * Den <= (plan[k].soc - plan[k + 1].soc) * Num
  BY DEF NoFreeDischarge
<1>1. PICK R, A : Retraced(R, A)
  BY DoneIsFinished
<1>2. PICK i : i = k - 1
  OBVIOUS
<1>3. i \in Horizon /\ i + 1 = k /\ k \in Horizon
  BY <1>2, ScheduleAssumption DEF Horizon
<1>4. back[i][A[i + 1]] # {} /\ back[k][A[k + 1]] # {}
  BY <1>1, <1>3, BookedIs
<1>5. PICK m, n : m = Kept(back[i][A[i + 1]]) /\ n = Kept(back[k][A[k + 1]])
  OBVIOUS
<1>6. /\ Cheapest(R, i, m) /\ plan[k].batt = BattEff(m.from[1], m.cmd)
      /\ plan[k].soc = m.from[1] /\ m.to = A[k]
  BY <1>1, <1>3, <1>4, <1>5, KeptIsCheapest
<1>7. plan[k + 1].soc = n.from[1] /\ n.from = A[k]
  BY <1>1, <1>3, <1>4, <1>5, KeptIsCheapest
<1>8. /\ m.from[1] \in BattLevels /\ m.cmd \in BattPowers /\ Params
      /\ m.to[1] = BattDest(m.from[1], m.cmd) /\ BattDest(m.from[1], m.cmd) # None
  BY <1>1, <1>6 DEF Cheapest, Leads, Legal, Runnable, States, Retraced
<1>9. PICK b, d : b = m.from[1] /\ d = BattDest(m.from[1], m.cmd) - b
  OBVIOUS
<1>10. /\ b \in Int /\ d \in Int /\ Num \in Nat /\ Den \in Nat /\ Num > 0 /\ Den > 0
       /\ p.charge \in Nat /\ p.discharge \in Nat
  BY <1>8, <1>9, CommandLeads, GridsAre, PlannerAssumption DEF AGrid, Params
<1>11. PICK ac : ac = IF d < 0 THEN ((-d) * Num) \div Den ELSE -((d * Den) \div Num)
  OBVIOUS
<1>12. plan[k].batt = Max2(-p.charge * Num * Den, Upto(p.discharge * Num * Den, ac))
  BY <1>6, <1>9, <1>11 DEF BattEff
<1>13. PICK lo, hi : lo = -p.charge * Num * Den /\ hi = p.discharge * Num * Den
  OBVIOUS
<1>14. lo \in Int /\ hi \in Int /\ lo <= 0
  <2>1. p.charge * Num \in Nat
    BY <1>10
  <2>2. p.charge * Num * Den \in Nat
    BY <1>10, <2>1
  <2>3. -p.charge * Num * Den = -(p.charge * Num * Den)
    BY <1>10
  <2>4. p.discharge * Num * Den \in Int
    BY <1>10
  <2> QED BY <1>13, <2>2, <2>3, <2>4
<1>15. ac \in Int /\ (d >= 0 => ac <= 0) /\ (d < 0 => ac * Den <= (-d) * Num)
  <2>1. (-d) * Num \in Int /\ d * Den \in Int /\ (d >= 0 => d * Den >= 0)
    BY <1>10
  <2>2. ((-d) * Num) \div Den \in Int /\ (((-d) * Num) \div Den) * Den <= (-d) * Num
    <3>1. \A x \in Int : x \div Den \in Int /\ (x \div Den) * Den <= x
      BY <1>10
    <3> QED BY <2>1, <3>1
  <2>3. (d * Den) \div Num \in Int /\ (d >= 0 => (d * Den) \div Num >= 0)
    <3>1. \A x \in Int : x \div Num \in Int /\ (x >= 0 => x \div Num >= 0)
      BY <1>10
    <3> QED BY <2>1, <3>1
  <2> QED BY <1>10, <1>11, <2>2, <2>3
<1>16. plan[k].batt <= ac /\ ac > 0 /\ d < 0 /\ plan[k].batt \in Int
  <2>1. plan[k].batt = Max2(lo, Upto(hi, ac))
    BY <1>12, <1>13
  <2>2. Upto(hi, ac) <= ac /\ Upto(hi, ac) \in Int
    BY <1>14, <1>15 DEF Upto
  <2>3. plan[k].batt = Upto(hi, ac)
    BY <1>14, <2>1, <2>2 DEF Max2
  <2> QED BY <1>10, <1>14, <1>15, <2>2, <2>3
<1>17. plan[k].batt * Den <= ac * Den
  BY <1>10, <1>15, <1>16
<1>18. plan[k].soc - plan[k + 1].soc = -d
  BY <1>6, <1>7, <1>8, <1>9, <1>10, CommandLeads
<1>19. ac * Den <= (-d) * Num /\ ac * Den \in Int /\ (-d) * Num \in Int /\ plan[k].batt * Den \in Int
  BY <1>10, <1>15, <1>16
<1> QED BY <1>17, <1>18, <1>19

\* A price model gives each hour its own rate.
LEMMA ModelIsExact ==
    ASSUME NEW row, NEW rate, NEW h \in 0..Hours - 1
    PROVE  Rate(Model(row, rate), h) = rate[h]
<1> DEFINE B == Breaks(row, rate)
           E(s) == EndOf(B, s)
           r(s) == [from |-> s, to |-> E(s), rate |-> rate[s]]
<1>1. B \subseteq 1..Hours - 1 /\ Hours \in Nat /\ Hours > 0
      /\ \A k \in 1..Hours - 1 : k \notin B => rate[k] = rate[k - 1]
  BY TariffAssumption DEF Breaks
<1>2. Model(row, rate).periods = {r(s) : s \in B \cup {0}}
  BY DEF Model
<1> HIDE DEF B
<1>3. ASSUME NEW s \in B \cup {0}
      PROVE  /\ s \in Nat /\ E(s) \in B \cup {Hours} /\ E(s) > s /\ E(s) \in Nat
             /\ \A f \in B \cup {Hours} : f > s => E(s) <= f
  <2> DEFINE T == {e \in B \cup {Hours} : e > s}
  <2>0. s \in Nat /\ s < Hours /\ B \cup {Hours} \subseteq Nat
    <3>1. \A k \in 1..Hours - 1 : k \in Nat /\ k < Hours
      BY <1>1
    <3>2. s = 0 \/ s \in 1..Hours - 1
      BY <1>1, <1>3
    <3> QED BY <1>1, <3>1, <3>2
  <2>1. T \in SUBSET Nat /\ Hours \in T
    BY <1>1, <2>0
  <2> HIDE DEF T
  <2>2. PICK m \in T : \A n \in T : m <= n
    BY <2>1, LeastNumber
  <2> USE DEF T
  <2>3. m \in B \cup {Hours} /\ m > s /\ \A f \in B \cup {Hours} : f > s => m <= f
    BY <2>2
  <2> HIDE DEF T
  <2>4. E(s) \in B \cup {Hours} /\ E(s) > s /\ \A f \in B \cup {Hours} : f > s => E(s) <= f
    BY <2>3 DEF EndOf
  <2> QED BY <2>0, <2>4
<1> HIDE DEF E
<1>4. ASSUME NEW s \in B \cup {0}, s <= h, h < E(s) PROVE rate[h] = rate[s]
  <2> DEFINE S == {n \in Nat : s + n < E(s) => rate[s + n] = rate[s]}
  <2>1. 0 \in S
    BY <1>3
  <2>2. ASSUME NEW n \in Nat, n \in S PROVE n + 1 \in S
    <3> SUFFICES ASSUME s + (n + 1) < E(s) PROVE rate[s + (n + 1)] = rate[s]
      OBVIOUS
    <3>1. /\ s \in Nat /\ E(s) \in B \cup {Hours} /\ E(s) \in Nat
          /\ \A f \in B \cup {Hours} : f > s => E(s) <= f
      BY <1>3
    <3>2. s + (n + 1) \in 1..Hours - 1 /\ (s + (n + 1)) - 1 = s + n /\ s + n < E(s)
      BY <1>1, <3>1
    <3>3. s + (n + 1) \notin B
      BY <3>1
    <3> QED BY <1>1, <2>2, <3>2, <3>3
  <2> HIDE DEF S
  <2>3. Nat \subseteq S
    BY <2>1, <2>2, Induction
  <2>4. h - s \in Nat /\ s + (h - s) = h
    BY <1>1, <1>3, <1>4
  <2> QED BY <1>4, <2>3, <2>4 DEF S
<1>5. \E s \in B \cup {0} : s <= h /\ h < E(s)
  <2> DEFINE T == {n \in Nat : h - n \in B \cup {0}}
  <2>1. T \in SUBSET Nat /\ h \in T
    BY <1>1
  <2> HIDE DEF T
  <2>2. PICK m \in T : \A n \in T : m <= n
    BY <2>1, LeastNumber
  <2>3. m \in Nat /\ h - m \in B \cup {0} /\ \A n \in Nat : h - n \in B \cup {0} => m <= n
    BY <2>2 DEF T
  <2>4. PICK s : s = h - m
    OBVIOUS
  <2>5. s \in B \cup {0} /\ s \in Nat /\ s <= h /\ E(s) \in B \cup {Hours} /\ E(s) > s /\ E(s) \in Nat
    BY <1>1, <1>3, <2>3, <2>4
  <2>6. ASSUME E(s) <= h PROVE FALSE
    <3>1. E(s) \in B
      BY <1>1, <2>5, <2>6
    <3>2. PICK n : n = h - E(s)
      OBVIOUS
    <3>3. n \in Nat /\ h - n = E(s) /\ n < m
      BY <1>1, <2>3, <2>4, <2>5, <2>6, <3>2
    <3> QED BY <2>3, <3>1, <3>3
  <2> QED BY <1>1, <2>5, <2>6
<1> DEFINE here == {x \in Model(row, rate).periods : InPeriod(h, x)}
<1>6. ASSUME NEW x \in here PROVE x.rate = rate[h]
  <2>1. PICK s \in B \cup {0} : x = r(s)
    BY <1>2
  <2>2. x.from = s /\ x.to = E(s) /\ x.rate = rate[s] /\ InPeriod(h, x)
    BY <2>1
  <2>3. s <= h /\ h < E(s)
    BY <1>3, <2>2 DEF InPeriod
  <2> QED BY <1>4, <2>2, <2>3
<1>7. here # {}
  <2>1. PICK s \in B \cup {0} : s <= h /\ h < E(s)
    BY <1>5
  <2>2. r(s).from = s /\ r(s).to = E(s)
    OBVIOUS
  <2> HIDE DEF r
  <2>3. InPeriod(h, r(s))
    BY <1>3, <2>1, <2>2 DEF InPeriod
  <2>4. r(s) \in Model(row, rate).periods
    BY <1>2
  <2> QED BY <2>3, <2>4
<1>8. Rate(Model(row, rate), h) = (CHOOSE x \in here : TRUE).rate
  BY <1>7 DEF Rate
<1> HIDE DEF here
<1> QED BY <1>6, <1>7, <1>8

\* The greatest of some numbers up to a bound.
LEMMA GreatestUpTo ==
    ASSUME NEW n \in Nat, NEW T \in SUBSET (1..n), T # {}
    PROVE  /\ (CHOOSE k \in T : \A l \in T : l <= k) \in T
           /\ \A l \in T : l <= (CHOOSE k \in T : \A l2 \in T : l2 <= k)
<1> DEFINE F == {m \in Nat : n - m \in T}
<1>1. F \in SUBSET Nat /\ F # {}
  <2>1. PICK k \in T : TRUE
    OBVIOUS
  <2>2. n - k \in Nat /\ n - (n - k) = k
    BY <2>1
  <2> QED BY <2>1, <2>2
<1> HIDE DEF F
<1>2. PICK m \in F : \A l \in F : m <= l
  BY <1>1, LeastNumber
<1>3. n - m \in T /\ m \in Nat
  BY <1>2 DEF F
<1>4. ASSUME NEW l \in T PROVE l <= n - m
  <2>1. n - l \in Nat /\ n - (n - l) = l
    OBVIOUS
  <2>2. n - l \in F
    BY <2>1 DEF F
  <2> QED BY <1>2, <1>3, <2>1, <2>2
<1>5. \E k \in T : \A l \in T : l <= k
  BY <1>3, <1>4
<1> QED BY <1>5

-----------------------------------------------------------------------------
\* Exactly one period is over a cell of a compiled tariff.
LEMMA CellsAre ==
    ASSUME NEW spec \in Seq(Period), Covered(spec),
           NEW d \in 0..Days - 1, NEW h \in 0..Hours - 1
    PROVE  \E k \in DOMAIN spec :
              /\ Cell(spec, d, h) = spec[k] /\ Fills(spec[k], d, h)
              /\ \A l \in DOMAIN spec : Fills(spec[l], d, h) => l = k
              /\ spec[k].rate \in Int /\ spec[k].delivery \in Int
<1> DEFINE S == {k \in DOMAIN spec : Fills(spec[k], d, h)}
<1>1. Cardinality(S) = 1
  BY DEF Covered
<1>2. IsFiniteSet(S)
  <2>1. DOMAIN spec = 1..Len(spec) /\ Len(spec) \in Nat
    OBVIOUS
  <2>2. IsFiniteSet(DOMAIN spec) /\ S \in SUBSET DOMAIN spec
    BY <2>1, FS_Interval
  <2> HIDE DEF S
  <2> QED BY <2>2, FS_Subset
<1> HIDE DEF S
<1>3. PICK k : S = {k}
  BY <1>1, <1>2, FS_Singleton
<1>4. /\ k \in DOMAIN spec /\ Fills(spec[k], d, h)
      /\ \A l \in DOMAIN spec : Fills(spec[l], d, h) => l = k
  BY <1>3 DEF S
<1>5. Cell(spec, d, h) = spec[k]
  BY <1>4 DEF Cell
<1>6. spec[k] \in Period
  BY <1>4
<1>7. spec[k].rate \in Int /\ spec[k].delivery \in Int
  BY <1>6 DEF Period
<1> QED BY <1>4, <1>5, <1>7

\* What a compiled tariff charges in an hour, apart and together.
LEMMA CompiledRates ==
    ASSUME NEW spec \in Seq(Period), Compiles(spec), NEW h \in 0..Hours - 1,
           NEW c, c = Cell(spec, 0, h)
    PROVE  /\ c.rate \in Int /\ DeliveryOf(c) \in Int
           /\ Rate(Compile(spec).supply, h) = c.rate
           /\ {Rate(m, h) : m \in Compile(spec).delivery}
                = IF DelivererOf(spec) THEN {DeliveryOf(c)} ELSE {}
           /\ ~DelivererOf(spec) => DeliveryOf(c) = 0
<1> DEFINE row == [x \in 0..Hours - 1 |-> Cell(spec, 0, x)]
           supply == [x \in 0..Hours - 1 |-> row[x].rate]
           delivery == [x \in 0..Hours - 1 |-> DeliveryOf(row[x])]
<1>1. /\ Compile(spec).supply = Model(row, supply)
      /\ Compile(spec).delivery = IF DelivererOf(spec) THEN {Model(row, delivery)} ELSE {}
  BY DEF Compile
<1>2. supply[h] = c.rate /\ delivery[h] = DeliveryOf(c)
  OBVIOUS
<1> HIDE DEF row, supply, delivery
<1>3. Rate(Model(row, supply), h) = c.rate /\ Rate(Model(row, delivery), h) = DeliveryOf(c)
  BY <1>2, ModelIsExact
<1>4. PICK k \in DOMAIN spec : c = spec[k] /\ c.rate \in Int /\ c.delivery \in Int
  <2>1. 0 \in 0..Days - 1
    BY TariffAssumption
  <2> QED BY <2>1, CellsAre DEF Compiles
<1>5. DeliveryOf(c) \in Int
  BY <1>4 DEF DeliveryOf
<1>6. ~DelivererOf(spec) => DeliveryOf(c) = 0
  BY <1>4 DEF DelivererOf, DeliveryOf
<1>7. {Rate(m, h) : m \in Compile(spec).delivery}
                = IF DelivererOf(spec) THEN {DeliveryOf(c)} ELSE {}
  BY <1>1, <1>3
<1> QED BY <1>1, <1>3, <1>4, <1>5, <1>6, <1>7

\* The built-in tariff has a whole price at every hour.
LEMMA BuiltInRates ==
    ASSUME NEW h PROVE Rate(BuiltIn, h) \in Int
<1> DEFINE here == {r \in BuiltIn.periods : InPeriod(h, r)}
<1>1. here # {} => (CHOOSE r \in here : TRUE) \in BuiltIn.periods
  OBVIOUS
<1>2. Rate(BuiltIn, h) = IF here = {} THEN BuiltIn.default ELSE (CHOOSE r \in here : TRUE).rate
  BY DEF Rate
<1> HIDE DEF here
<1> QED BY <1>1, <1>2, PlannerAssumption

\* So has the utility's, wherever its intervals lie.
LEMMA UtilityRates ==
    ASSUME NEW intervals \in Seq(Quote), NEW tick, NEW h
    PROVE  UtilityPrice(intervals, BuiltIn, tick, h) \in Int
<1> DEFINE on == {k \in DOMAIN intervals :
                  /\ tick >= intervals[k].start
                  /\ tick < intervals[k].start + intervals[k].lasts}
           k0 == CHOOSE k \in on : \A l \in on : l <= k
<1>1. UtilityPrice(intervals, BuiltIn, tick, h)
        = IF on = {} THEN Rate(BuiltIn, h) ELSE intervals[k0].price
  BY DEF UtilityPrice
<1>2. on \in SUBSET (1..Len(intervals)) /\ Len(intervals) \in Nat /\ on \subseteq DOMAIN intervals
  OBVIOUS
<1> HIDE DEF on
<1>3. on # {} => k0 \in on
  BY <1>2, GreatestUpTo
<1> HIDE DEF k0
<1>4. on # {} => intervals[k0] \in Quote
  BY <1>2, <1>3
<1> QED BY <1>1, <1>4, BuiltInRates DEF Quote

\* An hour is one of the day.
LEMMA HoursAre ==
    ASSUME NEW tick \in Int PROVE HourOf(tick) \in 0..Hours - 1
<1>1. tick \div StepTicks \in Int
  BY ScheduleAssumption
<1>2. \A x \in Int : x % Hours \in 0..Hours - 1
  BY TariffAssumption
<1> QED BY <1>1, <1>2 DEF HourOf

\* The ticks the steps begin at.
LEMMA TicksAre ==
    ASSUME site \in Sites, NEW i \in Int
    PROVE  TickOf(i) \in Int /\ TickOf(i) = Boundary(site.from) + i * StepTicks
           /\ Boundary(site.from) \in Int /\ site.from \in Nat
           /\ Boundary(site.from) <= site.from /\ site.from < Boundary(site.from) + StepTicks
           /\ \E n \in Int : Boundary(site.from) = n * StepTicks
<1>1. site.from \in Nat /\ StepTicks \in Nat /\ StepTicks > 0
  BY SitesAssumption, ScheduleAssumption DEF SiteType
<1>2. \A x \in Nat : /\ x % StepTicks \in 0..StepTicks - 1
                     /\ x - (x % StepTicks) = (x \div StepTicks) * StepTicks
                     /\ x \div StepTicks \in Int
  BY <1>1
<1>3. i * StepTicks \in Int
  BY <1>1
<1>4. PICK r : r = site.from % StepTicks
  OBVIOUS
<1>5. r \in 0..StepTicks - 1 /\ Boundary(site.from) = site.from - r
  BY <1>1, <1>2, <1>4 DEF Boundary
<1>6. \E n \in Int : Boundary(site.from) = n * StepTicks
  BY <1>1, <1>2 DEF Boundary
<1>7. TickOf(i) = Boundary(site.from) + i * StepTicks
  BY DEF TickOf
<1>8. /\ Boundary(site.from) \in Int /\ Boundary(site.from) <= site.from
      /\ site.from < Boundary(site.from) + StepTicks
  BY <1>1, <1>5
<1>9. TickOf(i) \in Int
  <2>1. \A x, y \in Int : x + y \in Int
    OBVIOUS
  <2> QED BY <1>3, <1>7, <1>8, <2>1
<1> QED BY <1>1, <1>6, <1>7, <1>8, <1>9

\* The price of a step.
LEMMA PricesAre ==
    ASSUME site \in Sites, NEW i \in Horizon, NEW h, h = HourOf(TickOf(i)),
           NEW c, c = Cell(site.tariff, 0, h)
    PROVE  /\ AllIn(i) \in Int /\ h \in 0..Hours - 1
           /\ Compiles(site.tariff) /\ site.utility = << >> =>
                 AllIn(i) = c.rate + DeliveryOf(c)
<1>1. site.tariff \in Seq(Period) /\ site.utility \in Seq(Quote)
  BY SitesAssumption DEF SiteType
<1>2. h \in 0..Hours - 1
  BY TicksAre, HoursAre DEF Horizon
<1> DEFINE adders == {Rate(m, h) : m \in Prices.delivery}
<1>3. AllIn(i) = SupplyPrice(i) + (IF adders = {} THEN 0 ELSE CHOOSE r \in adders : TRUE)
  BY DEF AllIn
<1>4. CASE Compiles(site.tariff)
  <2>1. /\ c.rate \in Int /\ DeliveryOf(c) \in Int
        /\ Rate(Prices.supply, h) = c.rate
        /\ adders = IF DelivererOf(site.tariff) THEN {DeliveryOf(c)} ELSE {}
        /\ ~DelivererOf(site.tariff) => DeliveryOf(c) = 0
    BY <1>1, <1>2, <1>4, CompiledRates DEF Prices
  <2>2. SupplyPrice(i) \in Int /\ (site.utility = << >> => SupplyPrice(i) = c.rate)
    BY <1>1, <2>1, UtilityRates DEF SupplyPrice
  <2> HIDE DEF adders
  <2>3. (IF adders = {} THEN 0 ELSE CHOOSE r \in adders : TRUE) = DeliveryOf(c)
    <3>1. CASE DelivererOf(site.tariff)
      <4>1. adders = {DeliveryOf(c)}
        BY <2>1, <3>1
      <4>2. (CHOOSE r \in adders : TRUE) \in adders
        BY <4>1
      <4> QED BY <4>1, <4>2
    <3>2. CASE ~DelivererOf(site.tariff)
      BY <2>1, <3>2
    <3> QED BY <3>1, <3>2
  <2> QED BY <1>2, <1>3, <2>1, <2>2, <2>3
<1>5. CASE ~Compiles(site.tariff)
  <2>1. Prices.delivery = {} /\ Prices.supply = BuiltIn
    BY <1>5 DEF Prices
  <2>2. adders = {}
    BY <2>1
  <2>3. SupplyPrice(i) \in Int
    BY <1>1, <2>1, UtilityRates, BuiltInRates DEF SupplyPrice
  <2> QED BY <1>2, <1>3, <1>5, <2>2, <2>3
<1> QED BY <1>4, <1>5

\* The inputs are put together well typed.
LEMMA GatherKeeps ==
    ASSUME PlanInv, Gather PROVE PlanInv'
<1>1. /\ stage = "gather" /\ stage' = "seed" /\ site' = site /\ site \in Sites /\ t' = t /\ t = 0
      /\ plan' = plan /\ plan = << >>
  BY DEF Gather, PlanInv
<1>2. site \in SiteType /\ site.assets \in Asset
  BY <1>1, SitesAssumption DEF SiteType
<1>3. p' = [f \in DOMAIN site.assets \cup {"limits", "priceIn", "priceOut", "solar", "load"} |->
              CASE f = "limits" -> Constraints(slots', site.from, site.aus)
                [] f = "priceIn" -> [i \in Horizon |-> AllIn(i)]
                [] f = "priceOut" -> site.priceOut
                [] f = "solar" -> Resampled(site.forecast)
                [] f = "load" -> site.load
                [] OTHER -> site.assets[f]]
  BY DEF Gather
<1>4. DOMAIN site.assets = {"hasBatt", "low", "high", "charge", "discharge", "init", "terminal",
          "hasEv", "evCap", "evMax", "evInit", "evTarget", "leaves", "storage"}
  BY <1>2 DEF Asset
<1> DEFINE own == DOMAIN site.assets
<1>5. \A f \in own : p'[f] = site.assets[f]
  BY <1>3, <1>4
<1>6. /\ p'["priceIn"] = [i \in Horizon |-> AllIn(i)] /\ p'["priceOut"] = site.priceOut
      /\ p'["solar"] = Resampled(site.forecast) /\ p'["load"] = site.load
      /\ p'["limits"] = Constraints(slots', site.from, site.aus)
  BY <1>3
<1>7. \A f \in {site.load, Resampled(site.forecast), [i \in Horizon |-> AllIn(i)], site.priceOut} :
          f \in [Horizon -> Int]
  <2>1. [i \in Horizon |-> AllIn(i)] \in [Horizon -> Int]
    <3>1. \A i \in Horizon : AllIn(i) \in Int
      BY <1>1, PricesAre
    <3> QED BY <3>1
  <2>2. Resampled(site.forecast) \in [Horizon -> Int]
    <3> DEFINE fc == site.forecast
               shift == Towards0(Boundary(site.from) - fc.start, StepTicks)
    <3>1. fc.kw \in Seq(Int)
      BY <1>2 DEF SiteType
    <3>2. Resampled(fc) = [i \in Horizon |-> IF i + shift + 1 \in DOMAIN fc.kw
                                             THEN Max2(0, fc.kw[i + shift + 1]) ELSE 0]
      BY DEF Resampled
    <3> HIDE DEF shift
    <3>3. \A n \in DOMAIN fc.kw : fc.kw[n] \in Int /\ Max2(0, fc.kw[n]) \in Int
      BY <3>1 DEF Max2
    <3> HIDE DEF fc
    <3> QED BY <3>2, <3>3 DEF fc
  <2>3. site.load \in [Horizon -> Int] /\ site.priceOut \in [Horizon -> Int]
    BY <1>2 DEF SiteType
  <2> QED BY <2>1, <2>2, <2>3
<1>8. Params'
  <2>1. /\ p'.hasBatt = site.assets.hasBatt /\ p'.hasEv = site.assets.hasEv
        /\ p'.storage = site.assets.storage /\ p'.low = site.assets.low
        /\ p'.high = site.assets.high /\ p'.charge = site.assets.charge
        /\ p'.discharge = site.assets.discharge /\ p'.init = site.assets.init
        /\ p'.terminal = site.assets.terminal /\ p'.evCap = site.assets.evCap
        /\ p'.evMax = site.assets.evMax /\ p'.evInit = site.assets.evInit
        /\ p'.evTarget = site.assets.evTarget /\ p'.leaves = site.assets.leaves
    BY <1>4, <1>5
  <2>2. {p'.load, p'.solar, p'.priceIn, p'.priceOut}
          = {site.load, Resampled(site.forecast), [i \in Horizon |-> AllIn(i)], site.priceOut}
    BY <1>6
  <2> QED BY <1>2, <1>7, <2>1, <2>2 DEF Params, Asset
<1> QED BY <1>1, <1>8 DEF PlanInv

\* The planner starts in its invariant.
LEMMA InitPlans ==
    ASSUME InitPlanner PROVE PlanInv
BY DEF InitPlanner, PlanInv

\* Every step keeps it.
LEMMA PlanInvStays ==
    ASSUME PlanInv, [NextPlanner]_plannerVars PROVE PlanInv'
<1>1. CASE Gather
  BY <1>1, GatherKeeps
<1>2. CASE Seed
  BY <1>2, SeedKeeps
<1>3. CASE Forward
  BY <1>3, ForwardKeeps
<1>4. CASE Settle
  BY <1>4, SettleKeeps
<1>5. CASE Backtrack
  BY <1>5, BacktrackKeeps
<1>6. CASE UNCHANGED plannerVars
  <2>1. /\ site' = site /\ p' = p /\ stage' = stage /\ t' = t /\ dp' = dp /\ back' = back
        /\ at' = at /\ plan' = plan
    BY <1>6 DEF plannerVars
  <2>2. States' = States /\ (Params' <=> Params)
    BY <2>1, GridsStay
  <2>3. ASSUME Tables PROVE Tables'
    <3>1. PICK R : /\ Runs(R) /\ Recorded(R, IF stage = "forward" THEN t ELSE Steps)
                   /\ stage \in {"forward", "settle"} => Bellman(R, t, dp)
                   /\ stage \in {"back", "done"} => \E A : Trail(A) /\ End(R, A[Steps])
      BY <2>3 DEF Tables
    <3>2. /\ Runs(R)' /\ \A k : Reached(R, k)' = Reached(R, k)
          /\ \A i, m : Cheapest(R, i, m)' <=> Cheapest(R, i, m)
          /\ \A s : End(R, s)' <=> End(R, s)
          /\ \A i, moves : Interval(i, moves)' = Interval(i, moves)
      BY <2>1, <3>1, RunsStay
    <3>3. \A n : Recorded(R, n)' <=> Recorded(R, n)
      BY <2>1, <2>2, <3>2 DEF Recorded
    <3>4. \A A : Trail(A)' <=> Trail(A)
      BY <2>1, <2>2, <3>2 DEF Trail
    <3>5. Recorded(R, IF stage = "forward" THEN t ELSE Steps)'
      BY <2>1, <3>1, <3>3
    <3>6. (stage \in {"forward", "settle"} => Bellman(R, t, dp))'
      BY <2>1, <3>1, <3>2 DEF Bellman, Least
    <3>7. (stage \in {"back", "done"} => \E A : Trail(A) /\ End(R, A[Steps]))'
      BY <2>1, <3>1, <3>2, <3>4
    <3>8. DOMAIN back' = Horizon
      BY <2>1, <2>3 DEF Tables
    <3> QED BY <3>2, <3>5, <3>6, <3>7, <3>8 DEF Tables
  <2> QED BY <2>1, <2>2, <2>3 DEF PlanInv
<1> QED BY <1>1, <1>2, <1>3, <1>4, <1>5, <1>6 DEF NextPlanner

\* What the planner has been given.
GivenInv ==
    /\ site \in Sites /\ (stage = "gather" => slots = << >>)
    /\ stage # "gather" =>
          /\ slots = Build(site.controls, site.default, site.from)
          /\ p.limits = Constraints(slots, site.from, site.aus)
          /\ p.priceIn = [i \in Horizon |-> AllIn(i)]

\* The planner starts with nothing given.
LEMMA InitGives == ASSUME InitPlanner PROVE GivenInv
BY DEF InitPlanner, GivenInv

\* What it has been given stays.
LEMMA GivenStays ==
    ASSUME GivenInv, [NextPlanner]_plannerVars PROVE GivenInv'
<1>1. site' = site
  BY DEF NextPlanner, Gather, Seed, Forward, Settle, Backtrack, plannerVars
<1>2. \A i : AllIn(i)' = AllIn(i)
  <2>1. \A x : TickOf(x)' = TickOf(x) /\ Prices' = Prices
    BY <1>1 DEF TickOf, Prices
  <2>2. \A i : SupplyPrice(i)' = SupplyPrice(i)
    BY <1>1, <2>1 DEF SupplyPrice
  <2> QED BY <2>1, <2>2 DEF AllIn
<1>3. CASE Gather
  <2>1. /\ stage' = "seed" /\ slots' = Build(site.controls, site.default, site.from)
        /\ p'["limits"] = Constraints(slots', site.from, site.aus)
        /\ p'["priceIn"] = [i \in Horizon |-> AllIn(i)]
    BY <1>3 DEF Gather
  <2> QED BY <1>1, <1>2, <2>1 DEF GivenInv
<1>4. CASE Seed \/ Forward \/ Settle \/ Backtrack \/ UNCHANGED plannerVars
  <2>1. slots' = slots /\ p' = p /\ (stage' = "gather" <=> stage = "gather")
    BY <1>4 DEF Seed, Forward, Settle, Backtrack, plannerVars
  <2> QED BY <1>1, <1>2, <2>1 DEF GivenInv
<1> QED BY <1>3, <1>4 DEF NextPlanner

\* The prices it has been given are those of the tariff.
LEMMA TariffHolds ==
    ASSUME GivenInv PROVE TariffIsExact
<1> DEFINE spec == site.tariff
           Over(d, h) == {k \in DOMAIN spec : d \in spec[k].days
                                            /\ h >= spec[k].from /\ h < spec[k].to}
           Price(k) == spec[k].rate + (IF spec[k].delivery = Absent THEN 0
                                       ELSE spec[k].delivery)
           bare(x) == [x EXCEPT !.days = {}, !.from = 0, !.to = 0]
<1> SUFFICES ASSUME stage = "seed", site.utility = << >>
             PROVE  IF ~Compiles(spec)
                    THEN \/ \E k \in DOMAIN spec : ~SoundPeriod(spec[k])
                         \/ \E d \in 0..Days - 1, h \in 0..Hours - 1 :
                            \/ Cardinality(Over(d, h)) # 1
                            \/ \E e \in 0..Days - 1 : \E k \in Over(d, h), l \in Over(e, h) :
                                  bare(spec[k]) # bare(spec[l])
                    ELSE \A d \in 0..Days - 1, i \in Horizon :
                            \E k \in Over(d, HourOf(TickOf(i))) : p.priceIn[i] = Price(k)
  BY DEF TariffIsExact
<1>1. site \in Sites /\ p.priceIn = [i \in Horizon |-> AllIn(i)]
  BY DEF GivenInv
<1>2. spec \in Seq(Period)
  BY <1>1, SitesAssumption DEF SiteType
<1>3. 0 \in 0..Days - 1 /\ 0 \in 0..Hours - 1
  BY TariffAssumption
<1>4. \A k \in DOMAIN spec : spec[k] \in Period
  BY <1>2
<1> HIDE DEF spec
<1>5. ASSUME NEW k \in DOMAIN spec, NEW d \in 0..Days - 1, NEW h \in 0..Hours - 1
      PROVE  k \in Over(d, h) <=> Fills(spec[k], d, h)
  <2>1. spec[k].from \in Int /\ spec[k].to \in Int /\ h \in Int
    BY <1>4, TariffAssumption DEF Period
  <2> QED BY <2>1 DEF Fills
<1>6. \A d \in 0..Days - 1, h \in 0..Hours - 1 :
         Over(d, h) = {k \in DOMAIN spec : Fills(spec[k], d, h)}
  BY <1>5
<1> HIDE DEF Over
<1>7. CASE ~Compiles(spec)
  <2>1. CASE spec = << >>
    <3>1. Over(0, 0) = {}
      BY <2>1 DEF Over
    <3>2. Cardinality(Over(0, 0)) # 1
      BY <3>1, FS_EmptySet
    <3> QED BY <1>3, <1>7, <3>2
  <2>2. CASE \E k \in DOMAIN spec : ~SoundPeriod(spec[k])
    BY <1>7, <2>2
  <2>3. CASE ~Covered(spec)
    <3>1. PICK d \in 0..Days - 1, h \in 0..Hours - 1 :
             Cardinality({k \in DOMAIN spec : Fills(spec[k], d, h)}) # 1
      BY <2>3 DEF Covered
    <3>2. Cardinality(Over(d, h)) # 1
      BY <1>6, <3>1
    <3> QED BY <1>7, <3>2
  <2>4. CASE Covered(spec) /\ ~SameEveryDay(spec)
    <3>1. PICK d \in 0..Days - 1, h \in 0..Hours - 1 :
              ~(/\ Cell(spec, d, h).rate = Cell(spec, 0, h).rate
                /\ Cell(spec, d, h).label = Cell(spec, 0, h).label
                /\ DelivererOf(spec) => DeliveryOf(Cell(spec, d, h)) = DeliveryOf(Cell(spec, 0, h)))
      BY <2>4 DEF SameEveryDay
    <3>2. PICK k \in DOMAIN spec : Cell(spec, d, h) = spec[k] /\ Fills(spec[k], d, h)
      BY <1>2, <2>4, CellsAre
    <3>3. PICK l \in DOMAIN spec : Cell(spec, 0, h) = spec[l] /\ Fills(spec[l], 0, h)
      BY <1>2, <1>3, <2>4, CellsAre
    <3>4. k \in Over(d, h) /\ l \in Over(0, h)
      BY <1>3, <1>5, <3>2, <3>3
    <3>5. \A x \in Period : /\ bare(x).rate = x.rate /\ bare(x).label = x.label
                            /\ bare(x).delivery = x.delivery
      BY DEF Period
    <3> HIDE DEF bare
    <3>6. bare(spec[k]) # bare(spec[l])
      BY <1>4, <3>1, <3>2, <3>3, <3>5 DEF DeliveryOf
    <3> QED BY <1>3, <1>7, <3>4, <3>6
  <2> QED BY <1>7, <2>1, <2>2, <2>3, <2>4 DEF Compiles
<1>8. CASE Compiles(spec)
  <2> SUFFICES ASSUME NEW d \in 0..Days - 1, NEW i \in Horizon
               PROVE  \E k \in Over(d, HourOf(TickOf(i))) : p.priceIn[i] = Price(k)
    BY <1>8
  <2>1. PICK h : h = HourOf(TickOf(i))
    OBVIOUS
  <2>2. PICK c : c = Cell(spec, 0, h)
    OBVIOUS
  <2>3. h \in 0..Hours - 1 /\ p.priceIn[i] = c.rate + DeliveryOf(c)
    BY <1>1, <1>8, <2>1, <2>2, PricesAre DEF spec
  <2>4. PICK k \in DOMAIN spec : Cell(spec, d, h) = spec[k] /\ Fills(spec[k], d, h)
    BY <1>2, <1>8, <2>3, CellsAre DEF Compiles
  <2>5. k \in Over(d, h)
    BY <1>5, <2>3, <2>4
  <2>6. spec[k].rate = c.rate /\ (DelivererOf(spec) => DeliveryOf(spec[k]) = DeliveryOf(c))
    BY <1>8, <2>2, <2>3, <2>4 DEF Compiles, SameEveryDay
  <2>7. ~DelivererOf(spec) => DeliveryOf(spec[k]) = 0 /\ DeliveryOf(c) = 0
    <3>1. ~DelivererOf(spec) => DeliveryOf(spec[k]) = 0
      BY <2>4 DEF DelivererOf, DeliveryOf
    <3> QED BY <1>2, <1>8, <2>2, <2>3, <3>1, CompiledRates
  <2>8. Price(k) = c.rate + DeliveryOf(c)
    <3>1. Price(k) = spec[k].rate + DeliveryOf(spec[k])
      BY DEF DeliveryOf
    <3> QED BY <2>6, <2>7, <3>1
  <2> QED BY <2>1, <2>3, <2>5, <2>8
<1> QED BY <1>7, <1>8

\* Controls, or what is left of them in the window.
Timed(S) ==
    /\ \A c \in S : c.start \in Int /\ c.made \in Int /\ c.id \in Int
    /\ \A c, d \in S : c.id = d.id => c = d

\* The order of starts and ages is a strict total one.
LEMMA EarlierIsOrder ==
    ASSUME NEW S, Timed(S)
    PROVE  /\ \A a, b, c \in S : Earlier(a, b) /\ Earlier(b, c) => Earlier(a, c)
           /\ \A a, b \in S : Earlier(a, b) => ~Earlier(b, a) /\ a # b
           /\ \A a, b \in S : a = b \/ Earlier(a, b) \/ Earlier(b, a)
BY DEF Timed, Earlier, Newer

\* One after the other.
InOrderOf(S, seq) ==
    /\ seq \in Seq(S)
    /\ \A c \in S : \E k \in 1..Len(seq) : seq[k] = c
    /\ \A j, k \in 1..Len(seq) : j < k => Earlier(seq[j], seq[k])

\* Ranking the controls puts them in that order.
LEMMA InOrderIs ==
    ASSUME NEW S, IsFiniteSet(S), Timed(S)
    PROVE  InOrderOf(S, InOrder(S))
<1> DEFINE n == Cardinality(S)
           Lo(c) == {o \in S : Earlier(o, c)}
           rank == [c \in S |-> Cardinality(Lo(c))]
           g == [c \in S |-> rank[c] + 1]
<1>1. n \in Nat /\ IsFiniteSet(S)
  BY FS_CardinalityType
<1>2. /\ \A a, b, c \in S : Earlier(a, b) /\ Earlier(b, c) => Earlier(a, c)
      /\ \A a, b \in S : Earlier(a, b) => ~Earlier(b, a) /\ a # b
      /\ \A a, b \in S : a = b \/ Earlier(a, b) \/ Earlier(b, a)
  BY EarlierIsOrder
<1>3. ASSUME NEW c \in S
      PROVE  IsFiniteSet(Lo(c)) /\ Cardinality(Lo(c)) \in Nat /\ Cardinality(Lo(c)) < n
  <2>1. Lo(c) \in SUBSET S /\ Lo(c) \in SUBSET (S \ {c})
    BY <1>2
  <2> HIDE DEF Lo
  <2>2. IsFiniteSet(S \ {c}) /\ Cardinality(S \ {c}) = n - 1
    BY <1>1, FS_RemoveElement
  <2>3. IsFiniteSet(Lo(c)) /\ Cardinality(Lo(c)) <= Cardinality(S \ {c})
    BY <2>1, <2>2, FS_Subset
  <2>4. Cardinality(Lo(c)) \in Nat
    BY <2>3, FS_CardinalityType
  <2> HIDE DEF n
  <2> QED BY <1>1, <2>2, <2>3, <2>4
<1>4. ASSUME NEW a \in S, NEW b \in S, Earlier(a, b)
      PROVE  Cardinality(Lo(a)) < Cardinality(Lo(b))
  <2>1. Lo(a) \cup {a} \in SUBSET Lo(b) /\ a \notin Lo(a)
    BY <1>2, <1>4
  <2> HIDE DEF Lo
  <2>2. Cardinality(Lo(a) \cup {a}) = Cardinality(Lo(a)) + 1
    BY <1>3, <2>1, FS_AddElement
  <2>3. Cardinality(Lo(a) \cup {a}) <= Cardinality(Lo(b))
    BY <1>3, <2>1, FS_Subset
  <2>4. Cardinality(Lo(a)) \in Nat /\ Cardinality(Lo(b)) \in Nat
    BY <1>3
  <2> QED BY <2>2, <2>3, <2>4
<1>5. \A c \in S : rank[c] = Cardinality(Lo(c))
  OBVIOUS
<1> HIDE DEF n, Lo, rank
<1>6. \A a, b \in S : rank[a] = rank[b] => a = b
  <2> SUFFICES ASSUME NEW a \in S, NEW b \in S, rank[a] = rank[b], a # b PROVE FALSE
    OBVIOUS
  <2>1. Earlier(a, b) \/ Earlier(b, a)
    BY <1>2
  <2>2. rank[a] \in Nat /\ rank[b] \in Nat
    BY <1>3, <1>5
  <2> QED BY <1>4, <1>5, <2>1, <2>2
<1>7. \A c \in S : g[c] \in 1..n /\ g[c] = rank[c] + 1 /\ rank[c] \in Nat
  BY <1>1, <1>3, <1>5
<1>8. ASSUME NEW k \in 1..n PROVE \E c \in S : rank[c] = k - 1
  <2> SUFFICES ASSUME \A c \in S : rank[c] # k - 1 PROVE FALSE
    OBVIOUS
  <2> DEFINE T == (1..n) \ {k}
  <2>1. g \in [S -> T]
    <3>1. \A c \in S : g[c] \in T
      BY <1>1, <1>7
    <3> QED BY <3>1
  <2>2. IsFiniteSet(1..n) /\ Cardinality(1..n) = n
    BY <1>1, FS_Interval
  <2>3. IsFiniteSet(T) /\ Cardinality(T) = n - 1
    BY <2>2, FS_RemoveElement
  <2>4. Cardinality(T) < Cardinality(S)
    BY <1>1, <2>3 DEF n
  <2> HIDE DEF T, g
  <2>5. PICK x \in S, y \in S : x # y /\ g[x] = g[y]
    BY <1>1, <2>1, <2>3, <2>4, FS_PigeonHole
  <2>6. rank[x] = rank[y]
    BY <1>7, <2>5
  <2> QED BY <1>6, <2>5, <2>6
<1> DEFINE seq == InOrder(S)
           pick(k) == CHOOSE c \in S : Cardinality({o \in S : Earlier(o, c)}) = k - 1
<1>9. ASSUME NEW k \in 1..n PROVE pick(k) \in S /\ rank[pick(k)] = k - 1
  <2>1. PICK c \in S : rank[c] = k - 1
    BY <1>8
  <2>2. c \in S /\ Cardinality({o \in S : Earlier(o, c)}) = k - 1
    BY <1>5, <2>1 DEF Lo
  <2>3. pick(k) \in S /\ Cardinality({o \in S : Earlier(o, pick(k))}) = k - 1
    BY <2>2
  <2> HIDE DEF pick
  <2> QED BY <1>5, <2>3 DEF Lo
<1>10. seq = [k \in 1..n |-> pick(k)]
  BY DEF InOrder, n
<1> HIDE DEF seq, pick
<1>11. \A k \in 1..n : seq[k] \in S /\ rank[seq[k]] = k - 1
  BY <1>9, <1>10
<1>12. seq \in Seq(S) /\ Len(seq) = n
  <2>1. seq \in [1..n -> S]
    BY <1>10, <1>11
  <2> QED BY <1>1, <2>1
<1>13. ASSUME NEW c \in S PROVE \E k \in 1..n : seq[k] = c
  <2>1. PICK k : k = rank[c] + 1
    OBVIOUS
  <2>2. k \in 1..n /\ rank[c] = k - 1
    BY <1>7, <2>1
  <2> QED BY <1>6, <1>11, <2>2
<1>14. ASSUME NEW j \in 1..n, NEW k \in 1..n, j < k PROVE Earlier(seq[j], seq[k])
  <2>1. rank[seq[j]] = j - 1 /\ rank[seq[k]] = k - 1 /\ seq[j] \in S /\ seq[k] \in S
    BY <1>11
  <2>2. ~Earlier(seq[k], seq[j])
    <3>1. ASSUME Earlier(seq[k], seq[j]) PROVE FALSE
      <4>1. rank[seq[k]] < rank[seq[j]]
        BY <1>4, <1>5, <2>1, <3>1
      <4> QED BY <1>1, <1>14, <2>1, <4>1
    <3> QED BY <3>1
  <2>3. seq[j] # seq[k]
    BY <1>1, <1>14, <2>1
  <2> QED BY <1>2, <2>1, <2>2, <2>3
<1> QED BY <1>12, <1>13, <1>14 DEF InOrderOf, seq

\* What is left of a control within the window.
Event == [id : Int, start : Int, end : Int, made : Int, cancelled : BOOLEAN,
          maybe : BOOLEAN, dispatch : Dispatch]

\* Such a control within the window.
InFrame(from) == {c \in Event : from <= c.start /\ c.start < c.end /\ c.end <= from + Window}

\* A control that ends early; a line whose last control is another.
Cut(c, end) == [c EXCEPT !.end = end]

\* A line whose last control is replaced.
Replaced(line, c) == [line EXCEPT ![Len(line)] = c]

\* The last element of a sequence.
LEMMA LastOf ==
    ASSUME NEW S, NEW seq \in Seq(S), seq # << >>
    PROVE  Len(seq) \in 1..Len(seq) /\ Len(seq) \in Nat /\ seq[Len(seq)] \in S
OBVIOUS

\* What appending does to a sequence.
LEMMA AppendIs ==
    ASSUME NEW S, NEW seq \in Seq(S), NEW x \in S
    PROVE  /\ Append(seq, x) \in Seq(S) /\ Len(Append(seq, x)) = Len(seq) + 1
           /\ Append(seq, x) # << >> /\ Append(seq, x)[Len(seq) + 1] = x
           /\ \A k \in 1..Len(seq) : Append(seq, x)[k] = seq[k]
OBVIOUS

\* What replacing the last element does.
LEMMA ReplaceIs ==
    ASSUME NEW S, NEW seq \in Seq(S), NEW x \in S, seq # << >>
    PROVE  /\ Replaced(seq, x) \in Seq(S) /\ Len(Replaced(seq, x)) = Len(seq)
           /\ Replaced(seq, x) # << >> /\ Replaced(seq, x)[Len(seq)] = x
           /\ \A k \in 1..Len(seq) - 1 : Replaced(seq, x)[k] = seq[k]
<1>1. Len(seq) \in Nat /\ Len(seq) \in 1..Len(seq)
  OBVIOUS
<1> QED BY <1>1, ExceptSeq DEF Replaced

\* One step of the merge in its four cases.
LEMMA MergeIs ==
    ASSUME NEW from \in Int, NEW line \in Seq(InFrame(from)), NEW c \in InFrame(from),
           NEW new, new = Merge(line, c), NEW prev, prev = line[Len(line)],
           NEW cut, cut = Cut(prev, c.start)
    PROVE  \/ /\ line = << >> \/ c.start >= prev.end
              /\ new = Append(line, c)
           \/ /\ line # << >> /\ c.start < prev.end /\ ~Newer(c, prev)
              /\ new = line
           \/ /\ line # << >> /\ c.start < prev.end /\ Newer(c, prev) /\ c.start <= prev.start
              /\ new = Replaced(line, c)
           \/ /\ line # << >> /\ c.start < prev.end /\ Newer(c, prev) /\ c.start > prev.start
              /\ cut \in InFrame(from) /\ cut.start = prev.start /\ cut.end = c.start
              /\ cut.end < prev.end
              /\ cut.id = prev.id /\ cut.made = prev.made /\ cut.dispatch = prev.dispatch
              /\ new = Append(Replaced(line, cut), c)
<1>1. c.start \in Int /\ c.end \in Int /\ c.start < c.end /\ c.end <= from + Window /\ from <= c.start
  BY DEF InFrame, Event
<1>2. CASE line = << >>
  BY <1>2 DEF Merge
<1>3. CASE line # << >>
  <2>1. prev \in InFrame(from) /\ prev.start \in Int /\ prev.end \in Int /\ from <= prev.start
    BY <1>3, LastOf DEF InFrame, Event
  <2>2a. [line EXCEPT ![Len(line)].end = c.start] = Replaced(line, cut)
    BY DEF Cut, Replaced
  <2>2. new = IF c.start >= prev.end THEN Append(line, c)
              ELSE IF ~Newer(c, prev) THEN line
              ELSE IF c.start <= prev.start THEN Replaced(line, c)
              ELSE Append(Replaced(line, cut), c)
    <3>1. Merge(line, c) =
             IF c.start >= prev.end THEN Append(line, c)
              ELSE IF ~Newer(c, prev) THEN line
              ELSE IF c.start <= prev.start THEN [line EXCEPT ![Len(line)] = c]
              ELSE Append([line EXCEPT ![Len(line)].end = c.start], c)
      BY <1>3 DEF Merge
    <3>2. [line EXCEPT ![Len(line)] = c] = Replaced(line, c)
      BY DEF Replaced
    <3> QED BY <2>2a, <3>1, <3>2
  <2>4. /\ cut.start = prev.start /\ cut.end = c.start /\ cut \in Event
        /\ cut.id = prev.id /\ cut.made = prev.made /\ cut.dispatch = prev.dispatch
    BY <1>1, <2>1 DEF InFrame, Event, Cut
  <2>5. c.start > prev.start => cut \in InFrame(from)
    <3>1. Window \in Int
      BY ScheduleAssumption
    <3> SUFFICES ASSUME c.start > prev.start PROVE cut \in InFrame(from)
      OBVIOUS
    <3>2. from <= cut.start /\ cut.start < cut.end /\ cut.end <= from + Window
      BY <1>1, <2>1, <2>4, <3>1
    <3> QED BY <2>4, <3>2 DEF InFrame
  <2> QED BY <1>1, <1>3, <2>1, <2>2, <2>4, <2>5
<1> QED BY <1>2, <1>3

\* The merge stays within the window.
LEMMA MergeStays ==
    ASSUME NEW from \in Int, NEW line \in Seq(InFrame(from)), NEW c \in InFrame(from)
    PROVE  Merge(line, c) \in Seq(InFrame(from)) /\ Merge(line, c) # << >>
<1>1. PICK new, prev, cut : /\ new = Merge(line, c) /\ prev = line[Len(line)]
                            /\ cut = Cut(prev, c.start)
  OBVIOUS
<1>2. \/ new = Append(line, c)
      \/ line # << >> /\ new = line
      \/ line # << >> /\ new = Replaced(line, c)
      \/ /\ line # << >> /\ cut \in InFrame(from)
         /\ new = Append(Replaced(line, cut), c)
  BY <1>1, MergeIs
<1>3. CASE new = Append(line, c)
  BY <1>1, <1>3, AppendIs
<1>4. CASE line # << >> /\ new = line
  BY <1>1, <1>4
<1>5. CASE line # << >> /\ new = Replaced(line, c)
  BY <1>1, <1>5, ReplaceIs
<1>6. CASE /\ line # << >> /\ cut \in InFrame(from)
           /\ new = Append(Replaced(line, cut), c)
  <2>1. PICK mid : mid = Replaced(line, cut)
    BY DEF Cut, Replaced
  <2>2. mid \in Seq(InFrame(from))
    BY <1>6, <2>1, ReplaceIs
  <2> QED BY <1>1, <1>6, <2>1, <2>2, AppendIs
<1> QED BY <1>2, <1>3, <1>4, <1>5, <1>6

\* The merged line is what the merge arrives at, one control at a time.
LEMMA MergedIs ==
    ASSUME NEW from \in Int, NEW seq \in Seq(InFrame(from))
    PROVE  \E line : /\ line \in [0..Len(seq) -> Seq(InFrame(from))] /\ line[0] = << >>
                     /\ \A k \in 1..Len(seq) : line[k] = Merge(line[k - 1], seq[k])
                     /\ Merged(seq) = line[Len(seq)]
<1> DEFINE D == Seq(InFrame(from))
           N == Len(seq)
           On(k, T) == Merge(T, seq[k])
           step == [u \in (1..N) \X D |-> On(u[1], u[2])]
           Sequel(f) == [k \in 0..N |-> IF k = 0 THEN << >> ELSE On(k, f[k - 1])]
<1>1. N \in Nat /\ \A k \in 1..N : seq[k] \in InFrame(from) /\ k - 1 \in 0..N
  OBVIOUS
<1>2. ASSUME NEW k \in 1..N, NEW T \in D PROVE On(k, T) \in D
  BY <1>1, MergeStays
<1>3. << >> \in D
  OBVIOUS
<1> HIDE DEF On, N, D
<1>4. step \in [(1..N) \X D -> D] /\ \A k \in 1..N, T \in D : step[<<k, T>>] = On(k, T)
  BY <1>2
<1> HIDE DEF step
<1>5. PICK f : Course(f, N, D, << >>, step)
  BY <1>1, <1>3, <1>4, Recursion
<1>6. /\ f \in [0..N -> D] /\ f[0] = << >> /\ \A k \in 1..N : f[k] = On(k, f[k - 1])
  <2>1. \A k \in 1..N : f[k - 1] \in D
    BY <1>1, <1>5 DEF Course
  <2> QED BY <1>4, <1>5, <2>1 DEF Course
<1>7. f = Sequel(f)
  <2>1. \A k \in 0..N : k = 0 \/ k \in 1..N
    BY <1>1
  <2> QED BY <1>6, <2>1
<1> DEFINE g == CHOOSE h : h = Sequel(h)
<1>8. Merged(seq) = g[N]
  BY DEF Merged, On, N
<1>9. g = Sequel(g)
  <2> HIDE DEF Sequel
  <2> QED BY <1>7
<1> HIDE DEF g
<1>10. g[0] = << >> /\ \A k \in 1..N : g[k] = On(k, g[k - 1])
  <2>1. 0 \in 0..N /\ \A k \in 1..N : k \in 0..N /\ k # 0
    BY <1>1
  <2> QED BY <1>9, <2>1
<1>11. \A k \in 0..N : g[k] = f[k]
  <2>1. Alike(N, g, f)
    BY <1>6, <1>10 DEF Alike
  <2> QED BY <1>1, <2>1, SameCourse
<1>12. N \in 0..N
  BY <1>1
<1>13. Merged(seq) = f[N]
  BY <1>8, <1>11, <1>12
<1> QED BY <1>6, <1>13 DEF On, N, D

\* What the merge has left of a control; a control that no other it meets outdoes.
Piece(x, c) == x.id = c.id /\ x.made = c.made /\ x.start = c.start /\ x.end <= c.end

\* A control newer than every other it meets.
Sure(S, c) == \A o \in S : o # c /\ Overlap(o, c) => Newer(c, o)

\* The line after the first k controls.
Lined(line, seq, k, S) ==
    /\ (k = 0 <=> line = << >>)
    /\ k # 0 => line[Len(line)].start <= seq[k].start
    /\ \A j \in 1..Len(line) - 1 : line[j].end <= line[j + 1].start
    /\ \A j \in 1..Len(line) : \E i \in 1..k : Piece(line[j], seq[i])
    /\ \A i \in 1..k : Sure(S, seq[i]) => \E j \in 1..Len(line) : line[j] = seq[i]

\* Each step of the merge keeps the line as it should be.
LEMMA MergeKeeps ==
    ASSUME NEW from \in Int, NEW S \in SUBSET InFrame(from), NEW seq, InOrderOf(S, seq),
           NEW k \in 1..Len(seq), NEW line \in Seq(InFrame(from)), Lined(line, seq, k - 1, S)
    PROVE  Lined(Merge(line, seq[k]), seq, k, S)
<1> DEFINE c == seq[k]
           n == Len(line)
           prev == line[n]
           cut == Cut(prev, c.start)
           new == Merge(line, c)
<1>1. /\ k \in Nat /\ k > 0 /\ n \in Nat /\ Len(seq) \in Nat /\ seq \in Seq(S)
      /\ \A i \in 1..k : i \in 1..Len(seq) /\ (i = k \/ i \in 1..k - 1)
      /\ \A i \in 1..k - 1 : i \in 1..k /\ i < k
  BY DEF InOrderOf
<1>2. \A i \in 1..Len(seq) : seq[i] \in InFrame(from) /\ seq[i] \in S
  BY <1>1
<1>3. \A x \in InFrame(from) : /\ x.start \in Int /\ x.end \in Int /\ x.start < x.end
                               /\ x.made \in Int /\ x.id \in Int
  BY DEF InFrame, Event
<1>4. c \in InFrame(from) /\ c \in S
  BY <1>2
<1>5. \A i \in 1..k - 1 : seq[i].start <= c.start /\ seq[i] # c
  <2> SUFFICES ASSUME NEW i \in 1..k - 1 PROVE seq[i].start <= c.start /\ seq[i] # c
    OBVIOUS
  <2>1. Earlier(seq[i], c) /\ seq[i] \in InFrame(from)
    BY <1>1, <1>2 DEF InOrderOf
  <2>2. seq[i].start < c.start \/ (seq[i].start = c.start /\ Newer(c, seq[i]))
    BY <2>1 DEF Earlier
  <2>3. seq[i].start \in Int /\ c.start \in Int
    BY <1>3, <1>4, <2>1
  <2>4. seq[i].start = c.start /\ seq[i] = c => FALSE
    <3>1. ~Newer(c, c)
      BY <1>3, <1>4 DEF Newer
    <3> QED BY <2>2, <2>3, <3>1
  <2> QED BY <2>2, <2>3, <2>4
<1>6. /\ (k - 1 = 0 <=> line = << >>)
      /\ k - 1 # 0 => prev.start <= seq[k - 1].start
      /\ \A j \in 1..n - 1 : line[j].end <= line[j + 1].start
      /\ \A j \in 1..n : \E i \in 1..k - 1 : Piece(line[j], seq[i])
      /\ \A i \in 1..k - 1 : Sure(S, seq[i]) => \E j \in 1..n : line[j] = seq[i]
  BY DEF Lined
<1>7. line # << >> => /\ n \in 1..n /\ prev \in InFrame(from) /\ prev.start <= c.start
                      /\ \E i \in 1..k - 1 : Piece(prev, seq[i])
  <2> SUFFICES ASSUME line # << >>
               PROVE  /\ n \in 1..n /\ prev \in InFrame(from) /\ prev.start <= c.start
                      /\ \E i \in 1..k - 1 : Piece(prev, seq[i])
    OBVIOUS
  <2>1. n \in 1..n /\ prev \in InFrame(from)
    BY LastOf
  <2>2. k - 1 # 0 /\ k - 1 \in 1..k - 1
    BY <1>1, <1>6
  <2>3. prev.start <= seq[k - 1].start /\ seq[k - 1].start <= c.start
    BY <1>5, <1>6, <2>2
  <2>4. prev.start \in Int /\ seq[k - 1].start \in Int /\ c.start \in Int
    BY <1>1, <1>2, <1>3, <1>4, <2>1, <2>2
  <2>5. prev.start <= c.start
    BY <2>3, <2>4
  <2>6. \E i \in 1..k - 1 : Piece(prev, seq[i])
    BY <1>6, <2>1
  <2> QED BY <2>1, <2>5, <2>6
<1>8. \A x, y \in InFrame(from) : Newer(x, y) => ~Newer(y, x)
  BY <1>3 DEF Newer
<1>9. ASSUME line # << >>, c.start < prev.end
      PROVE  /\ Sure(S, c) => Newer(c, prev)
             /\ Sure(S, prev) /\ prev \in S => Newer(prev, c)
  <2>1. PICK i \in 1..k - 1 : Piece(prev, seq[i])
    BY <1>7, <1>9
  <2>2. /\ prev.start <= c.start /\ c.start < c.end /\ c.start < seq[i].end /\ seq[i].start = prev.start
        /\ seq[i].made = prev.made /\ seq[i].id = prev.id
    <3>1. seq[i] \in InFrame(from)
      BY <1>1, <1>2
    <3> QED BY <1>3, <1>4, <1>7, <1>9, <2>1, <3>1 DEF Piece
  <2>3. {seq[i].start, seq[i].end, c.start, c.end, prev.start, prev.end} \subseteq Int
    BY <1>1, <1>2, <1>3, <1>4, <1>7, <1>9
  <2>4. Overlap(seq[i], c) /\ seq[i] \in S /\ seq[i] # c
    BY <1>1, <1>2, <1>5, <2>2, <2>3 DEF Overlap
  <2>5. Sure(S, c) => Newer(c, prev)
    <3>1. Newer(c, seq[i]) => Newer(c, prev)
      BY <2>2 DEF Newer
    <3> QED BY <2>4, <3>1 DEF Sure
  <2>6. prev \in S /\ Sure(S, prev) => Newer(prev, c)
    <3>1. Overlap(c, prev)
      BY <1>9, <2>2, <2>3 DEF Overlap
    <3>2. prev # c
      <4>1. ASSUME prev = c PROVE FALSE
        <5>1. Earlier(seq[i], c)
          BY <1>1 DEF InOrderOf
        <5>2. seq[i].start = c.start /\ Newer(c, seq[i])
          BY <2>2, <2>3, <4>1, <5>1 DEF Earlier
        <5>3. c.made \in Int /\ c.id \in Int
          BY <1>3, <1>4
        <5> QED BY <2>2, <4>1, <5>2, <5>3 DEF Newer
      <4> QED BY <4>1
    <3> QED BY <1>4, <3>1, <3>2 DEF Sure
  <2> QED BY <2>5, <2>6
<1>10. Piece(c, c)
  BY <1>3, <1>4 DEF Piece
<1>0. new = Merge(line, c) /\ prev = line[Len(line)] /\ cut = Cut(prev, c.start) /\ n = Len(line)
  OBVIOUS
<1> HIDE DEF c, n, prev, cut, new
<1>11. \/ /\ line = << >> \/ c.start >= prev.end
          /\ new = Append(line, c)
       \/ /\ line # << >> /\ c.start < prev.end /\ ~Newer(c, prev)
          /\ new = line
       \/ /\ line # << >> /\ c.start < prev.end /\ Newer(c, prev) /\ c.start <= prev.start
          /\ new = Replaced(line, c)
       \/ /\ line # << >> /\ c.start < prev.end /\ Newer(c, prev) /\ c.start > prev.start
          /\ cut \in InFrame(from) /\ cut.start = prev.start /\ cut.end = c.start
          /\ cut.end < prev.end
          /\ cut.id = prev.id /\ cut.made = prev.made /\ cut.dispatch = prev.dispatch
          /\ new = Append(Replaced(line, cut), c)
  BY <1>0, <1>4, MergeIs
<1> DEFINE W == InFrame(from)
<1> SUFFICES /\ new # << >> /\ new[Len(new)].start <= c.start
             /\ \A j \in 1..Len(new) - 1 : new[j].end <= new[j + 1].start
             /\ \A j \in 1..Len(new) : \E i \in 1..k : Piece(new[j], seq[i])
             /\ \A i \in 1..k : Sure(S, seq[i]) => \E j \in 1..Len(new) : new[j] = seq[i]
  BY <1>1 DEF Lined, new, c
<1>12. line = << >> => n = 0
  BY DEF n
<1>13. CASE /\ line = << >> \/ c.start >= prev.end
            /\ new = Append(line, c)
  <2>1. Len(new) = n + 1 /\ new # << >> /\ new[n + 1] = c /\ \A j \in 1..n : new[j] = line[j]
    BY <1>4, <1>13, AppendIs DEF n
  <2>2. new[Len(new)].start <= c.start
    BY <1>3, <1>4, <2>1
  <2>3. ASSUME NEW j \in 1..Len(new) - 1 PROVE new[j].end <= new[j + 1].start
    <3>1. j \in 1..n /\ (j = n \/ (j \in 1..n - 1 /\ j + 1 \in 1..n))
      BY <1>1, <2>1, <2>3
    <3>2. CASE j = n
      <4>1. line # << >> /\ c.start >= prev.end /\ prev.end \in Int /\ c.start \in Int
        BY <1>3, <1>4, <1>7, <1>12, <1>13, <3>1, <3>2
      <4> QED BY <2>1, <3>1, <3>2, <4>1 DEF prev
    <3>3. CASE j \in 1..n - 1 /\ j + 1 \in 1..n
      BY <1>6, <2>1, <3>1, <3>3
    <3> QED BY <3>1, <3>2, <3>3
  <2>4. ASSUME NEW j \in 1..Len(new) PROVE \E i \in 1..k : Piece(new[j], seq[i])
    <3>1. j = n + 1 \/ j \in 1..n
      BY <1>1, <2>1
    <3>2. CASE j = n + 1
      BY <1>1, <1>10, <2>1, <3>2 DEF c
    <3>3. CASE j \in 1..n
      BY <1>1, <1>6, <2>1, <3>3
    <3> QED BY <3>1, <3>2, <3>3
  <2>5. ASSUME NEW i \in 1..k, Sure(S, seq[i]) PROVE \E j \in 1..Len(new) : new[j] = seq[i]
    <3>1. n + 1 \in 1..Len(new) /\ \A j \in 1..n : j \in 1..Len(new)
      BY <1>1, <2>1
    <3>2. CASE i = k
      BY <2>1, <3>1, <3>2 DEF c
    <3>3. CASE i \in 1..k - 1
      BY <1>6, <2>1, <2>5, <3>1, <3>3
    <3> QED BY <1>1, <3>2, <3>3
  <2> QED BY <2>1, <2>2, <2>3, <2>4, <2>5
<1>14. CASE /\ line # << >> /\ c.start < prev.end /\ ~Newer(c, prev)
            /\ new = line
  <2>1. \A i \in 1..k : Sure(S, seq[i]) => \E j \in 1..n : line[j] = seq[i]
    BY <1>1, <1>6, <1>9, <1>14 DEF c
  <2>2. \A j \in 1..n : \E i \in 1..k : Piece(line[j], seq[i])
    BY <1>1, <1>6
  <2> QED BY <1>6, <1>7, <1>14, <2>1, <2>2 DEF n, prev
<1>15. CASE /\ line # << >> /\ c.start < prev.end /\ Newer(c, prev) /\ c.start <= prev.start
            /\ new = Replaced(line, c)
  <2>1. Len(new) = n /\ new # << >> /\ new[n] = c /\ \A j \in 1..n - 1 : new[j] = line[j]
    <3>1. /\ Len(Replaced(line, c)) = Len(line) /\ Replaced(line, c) # << >>
          /\ Replaced(line, c)[Len(line)] = c
          /\ \A j \in 1..Len(line) - 1 : Replaced(line, c)[j] = line[j]
      <4>1. line # << >> /\ c \in InFrame(from)
        BY <1>4, <1>15
      <4> QED BY <4>1, ReplaceIs
    <3> QED BY <1>0, <1>15, <3>1
  <2>2. /\ n \in 1..n /\ prev \in W /\ prev.start = c.start /\ c.start \in Int
        /\ \A j \in 1..n : j = n \/ j \in 1..n - 1
    <3>1. n \in 1..n /\ prev \in W /\ prev.start <= c.start
      BY <1>7, <1>15
    <3>2. prev.start \in Int /\ c.start \in Int
      BY <1>3, <1>4, <3>1
    <3> QED BY <1>1, <1>15, <3>1, <3>2
  <2>3. ASSUME NEW j \in 1..Len(new) - 1 PROVE new[j].end <= new[j + 1].start
    <3>1. j \in 1..n - 1 /\ (j + 1 = n \/ j + 1 \in 1..n - 1) /\ j + 1 \in 1..n
      BY <1>1, <2>1
    <3>2. line[j].end <= line[j + 1].start /\ new[j] = line[j]
      BY <1>6, <2>1, <3>1
    <3>3. new[j + 1].start = line[j + 1].start
      BY <2>1, <2>2, <3>1 DEF prev
    <3> QED BY <3>2, <3>3
  <2>4. ASSUME NEW j \in 1..Len(new) PROVE \E i \in 1..k : Piece(new[j], seq[i])
    <3>1. CASE j = n
      BY <1>1, <1>10, <2>1, <3>1 DEF c
    <3>2. CASE j \in 1..n - 1
      <4>1. j \in 1..n
        BY <1>1, <3>2
      <4> QED BY <1>1, <1>6, <2>1, <3>2, <4>1
    <3> QED BY <2>1, <2>2, <3>1, <3>2
  <2>5. ASSUME NEW i \in 1..k, Sure(S, seq[i]) PROVE \E j \in 1..Len(new) : new[j] = seq[i]
    <3>1. CASE i = k
      BY <2>1, <2>2, <3>1 DEF c
    <3>2. CASE i \in 1..k - 1
      <4>1. PICK j \in 1..n : line[j] = seq[i]
        BY <1>6, <2>5, <3>2
      <4>2. j # n
        <5>1. ASSUME j = n PROVE FALSE
          <6>1. prev = seq[i] /\ prev \in S
            BY <1>1, <1>2, <4>1, <5>1 DEF prev
          <6>2. Newer(prev, c)
            BY <1>9, <1>15, <2>5, <6>1
          <6> QED BY <1>4, <1>8, <1>15, <2>2, <6>2
        <5> QED BY <5>1
      <4> QED BY <2>1, <2>2, <4>1, <4>2
    <3> QED BY <1>1, <3>1, <3>2
  <2>6. new[Len(new)].start <= c.start
    BY <2>1, <2>2
  <2> QED BY <2>1, <2>3, <2>4, <2>5, <2>6
<1>16. CASE /\ line # << >> /\ c.start < prev.end /\ Newer(c, prev) /\ c.start > prev.start
            /\ cut \in InFrame(from) /\ cut.start = prev.start /\ cut.end = c.start
            /\ cut.end < prev.end
            /\ cut.id = prev.id /\ cut.made = prev.made /\ cut.dispatch = prev.dispatch
            /\ new = Append(Replaced(line, cut), c)
  <2>0. PICK mid : mid = Replaced(line, cut)
    OBVIOUS
  <2>1. /\ mid \in Seq(W) /\ Len(mid) = n /\ mid[n] = cut /\ \A j \in 1..n - 1 : mid[j] = line[j]
    <3>1. /\ Replaced(line, cut) \in Seq(InFrame(from))
          /\ Len(Replaced(line, cut)) = Len(line) /\ Replaced(line, cut)[Len(line)] = cut
          /\ \A j \in 1..Len(line) - 1 : Replaced(line, cut)[j] = line[j]
      BY <1>16, ReplaceIs
    <3> QED BY <1>0, <2>0, <3>1
  <2>2. Len(new) = n + 1 /\ new # << >> /\ new[n + 1] = c /\ \A j \in 1..n : new[j] = mid[j]
    BY <1>4, <1>16, <2>0, <2>1, AppendIs
  <2>3. /\ n \in 1..n /\ prev \in W /\ c.start \in Int /\ prev.end \in Int
        /\ \A j \in 1..n : j = n \/ j \in 1..n - 1
    BY <1>1, <1>3, <1>4, <1>7, <1>16
  <2>4. ASSUME NEW j \in 1..Len(new) - 1 PROVE new[j].end <= new[j + 1].start
    <3>1. j \in 1..n /\ (j = n \/ (j \in 1..n - 1 /\ j + 1 \in 1..n))
      BY <1>1, <2>2, <2>4
    <3>2. CASE j = n
      BY <1>16, <2>1, <2>2, <2>3, <3>2
    <3>3. CASE j \in 1..n - 1 /\ j + 1 \in 1..n
      <4>1. line[j].end <= line[j + 1].start /\ new[j] = line[j] /\ new[j + 1] = mid[j + 1]
        BY <1>6, <2>1, <2>2, <3>1, <3>3
      <4>2. mid[j + 1].start = line[j + 1].start
        BY <1>16, <2>1, <2>3, <3>3 DEF prev
      <4> QED BY <4>1, <4>2
    <3> QED BY <3>1, <3>2, <3>3
  <2>5. ASSUME NEW j \in 1..Len(new) PROVE \E i \in 1..k : Piece(new[j], seq[i])
    <3>1. j = n + 1 \/ j \in 1..n
      BY <1>1, <2>2
    <3>2. CASE j = n + 1
      BY <1>1, <1>10, <2>2, <3>2 DEF c
    <3>3. CASE j \in 1..n
      <4>1. PICK i \in 1..k - 1 : Piece(line[j], seq[i])
        BY <1>6, <3>3
      <4>2. CASE j = n
        <5>1. seq[i].end \in Int
          BY <1>1, <1>2, <1>3
        <5>2. new[j] = cut /\ Piece(prev, seq[i])
          BY <2>1, <2>2, <3>3, <4>1, <4>2 DEF prev
        <5>3. cut.end \in Int
          BY <1>16, <2>3
        <5>4. Piece(cut, seq[i])
          BY <1>16, <2>3, <5>1, <5>2, <5>3 DEF Piece
        <5> QED BY <1>1, <5>2, <5>4
      <4>3. CASE j \in 1..n - 1
        BY <1>1, <2>1, <2>2, <3>3, <4>1, <4>3
      <4> QED BY <2>3, <3>3, <4>2, <4>3
    <3> QED BY <3>1, <3>2, <3>3
  <2>6. ASSUME NEW i \in 1..k, Sure(S, seq[i]) PROVE \E j \in 1..Len(new) : new[j] = seq[i]
    <3>1. n + 1 \in 1..Len(new) /\ \A j \in 1..n : j \in 1..Len(new)
      BY <1>1, <2>2
    <3>2. CASE i = k
      BY <2>2, <3>1, <3>2 DEF c
    <3>3. CASE i \in 1..k - 1
      <4>1. PICK j \in 1..n : line[j] = seq[i]
        BY <1>6, <2>6, <3>3
      <4>2. j # n
        <5>1. ASSUME j = n PROVE FALSE
          <6>1. prev = seq[i] /\ prev \in S
            BY <1>1, <1>2, <4>1, <5>1 DEF prev
          <6>2. Newer(prev, c)
            BY <1>9, <1>16, <2>6, <6>1
          <6> QED BY <1>4, <1>8, <1>16, <2>3, <6>2
        <5> QED BY <5>1
      <4> QED BY <2>1, <2>2, <2>3, <3>1, <4>1, <4>2
    <3> QED BY <1>1, <3>2, <3>3
  <2>7. new[Len(new)].start <= c.start
    BY <2>2, <2>3
  <2> QED BY <2>2, <2>4, <2>5, <2>6, <2>7
<1> QED BY <1>11, <1>13, <1>14, <1>15, <1>16

\* The type of a slot.
SlotType == [start : Int, end : Int, dispatch : Dispatch]

\* Slots without gap or overlap from the window's start on.
Tiled(slots0, from) ==
    /\ slots0 # << >> => slots0[1].start = from
    /\ \A k \in 1..Len(slots0) - 1 : slots0[k].end = slots0[k + 1].start
    /\ \A k \in 1..Len(slots0) : slots0[k].start < slots0[k].end

\* The cursor is a tick.
LEMMA CursorIs ==
    ASSUME NEW from \in Int, NEW line \in Seq(SlotType)
    PROVE  Cursor(line, from) \in Int
<1>1. CASE line = << >>
  BY <1>1 DEF Cursor
<1>2. CASE line # << >>
  <2>1. line[Len(line)] \in SlotType
    BY <1>2, LastOf
  <2>2. line[Len(line)].end \in Int
    BY <2>1 DEF SlotType
  <2> QED BY <1>2, <2>2 DEF Cursor
<1> QED BY <1>1, <1>2

\* A slot is a slot.
LEMMA SlotIs ==
    ASSUME NEW a \in Int, NEW b \in Int, NEW d \in Dispatch
    PROVE  Slot(a, b, d) \in SlotType /\ Slot(a, b, d).start = a /\ Slot(a, b, d).end = b
           /\ Slot(a, b, d).dispatch = d
BY DEF Slot, SlotType

\* A slot that begins at the cursor leaves no gap.
LEMMA AppendWhole ==
    ASSUME NEW from \in Int, NEW line \in Seq(SlotType), Tiled(line, from),
           NEW x \in SlotType, x.start = Cursor(line, from), x.start < x.end
    PROVE  Tiled(Append(line, x), from) /\ Cursor(Append(line, x), from) = x.end
<1>1. PICK new, n : new = Append(line, x) /\ n = Len(line)
  OBVIOUS
<1>2. n \in Nat /\ (line = << >> <=> n = 0)
  BY <1>1
<1>3. new # << >> /\ Len(new) = n + 1 /\ new[n + 1] = x /\ \A k \in 1..n : new[k] = line[k]
  BY <1>1, AppendIs
<1>4. Cursor(new, from) = x.end
  BY <1>3 DEF Cursor
<1>5. new[1].start = from
  <2>1. CASE n = 0
    BY <1>2, <1>3, <2>1 DEF Cursor
  <2>2. CASE n # 0
    <3>1. 1 \in 1..n
      BY <1>2, <2>2
    <3> QED BY <1>2, <1>3, <2>2, <3>1 DEF Tiled
  <2> QED BY <2>1, <2>2
<1>6. ASSUME NEW k \in 1..Len(new) - 1 PROVE new[k].end = new[k + 1].start
  <2>1. k \in 1..n /\ (k = n \/ (k \in 1..Len(line) - 1 /\ k + 1 \in 1..n))
    BY <1>1, <1>2, <1>3, <1>6
  <2>2. CASE k = n
    <3>1. line # << >> /\ line[n].end = x.start
      BY <1>1, <1>2, <2>1, <2>2 DEF Cursor
    <3> QED BY <1>3, <2>1, <2>2, <3>1
  <2>3. CASE k \in 1..Len(line) - 1 /\ k + 1 \in 1..n
    BY <1>3, <2>1, <2>3 DEF Tiled
  <2> QED BY <2>1, <2>2, <2>3
<1>7. ASSUME NEW k \in 1..Len(new) PROVE new[k].start < new[k].end
  <2>1. k = n + 1 \/ k \in 1..Len(line)
    BY <1>1, <1>2, <1>3, <1>7
  <2> QED BY <1>1, <1>3, <2>1 DEF Tiled
<1> QED BY <1>1, <1>4, <1>5, <1>6, <1>7 DEF Tiled

\* Filling in a control: with the gap before it, or without.
LEMMA FillIs ==
    ASSUME NEW from \in Int, NEW line \in Seq(SlotType), NEW c \in InFrame(from),
           NEW default \in Dispatch, NEW new, new = Fill(line, c, default, from),
           NEW gap, gap = Slot(Cursor(line, from), c.start, default),
           NEW x, x = Slot(c.start, c.end, c.dispatch)
    PROVE  /\ gap \in SlotType /\ x \in SlotType
           /\ x.start = c.start /\ x.end = c.end /\ c.start < c.end /\ c.start \in Int
           /\ gap.start = Cursor(line, from) /\ gap.end = c.start
           /\ \/ c.start > Cursor(line, from) /\ new = Append(Append(line, gap), x)
              \/ c.start <= Cursor(line, from) /\ new = Append(line, x)
<1>1. c.start \in Int /\ c.end \in Int /\ c.dispatch \in Dispatch /\ c.start < c.end
  BY DEF InFrame, Event
<1>2. Cursor(line, from) \in Int
  BY CursorIs
<1>3. new = IF c.start > Cursor(line, from) THEN Append(Append(line, gap), x) ELSE Append(line, x)
  BY DEF Fill
<1> QED BY <1>1, <1>2, <1>3, SlotIs

\* Filling in a control leaves slots.
LEMMA FillStays ==
    ASSUME NEW from \in Int, NEW line \in Seq(SlotType), NEW c \in InFrame(from),
           NEW default \in Dispatch
    PROVE  Fill(line, c, default, from) \in Seq(SlotType)
<1>1. PICK new, gap, x : /\ new = Fill(line, c, default, from)
                         /\ gap = Slot(Cursor(line, from), c.start, default)
                         /\ x = Slot(c.start, c.end, c.dispatch)
  OBVIOUS
<1>2. /\ gap \in SlotType /\ x \in SlotType
      /\ new = Append(Append(line, gap), x) \/ new = Append(line, x)
  BY <1>1, FillIs
<1>3. Append(line, gap) \in Seq(SlotType) /\ Append(line, x) \in Seq(SlotType)
  BY <1>2, AppendIs
<1>4. Append(Append(line, gap), x) \in Seq(SlotType)
  BY <1>2, <1>3, AppendIs
<1> QED BY <1>1, <1>2, <1>3, <1>4

\* Filling in a control leaves no gap and loses no slot.
LEMMA FillKeeps ==
    ASSUME NEW from \in Int, NEW line \in Seq(SlotType), NEW c \in InFrame(from),
           NEW default \in Dispatch, Tiled(line, from), Cursor(line, from) <= c.start,
           NEW new, new = Fill(line, c, default, from)
    PROVE  /\ Tiled(new, from) /\ Cursor(new, from) = c.end
           /\ \A k \in 1..Len(line) : k \in 1..Len(new) /\ new[k] = line[k]
           /\ \E k \in 1..Len(new) : new[k] = Slot(c.start, c.end, c.dispatch)
<1>1. PICK gap, x : /\ gap = Slot(Cursor(line, from), c.start, default)
                    /\ x = Slot(c.start, c.end, c.dispatch)
  OBVIOUS
<1>2. /\ gap \in SlotType /\ x \in SlotType /\ Cursor(line, from) \in Int
      /\ x.start = c.start /\ x.end = c.end /\ c.start < c.end /\ c.start \in Int
      /\ gap.start = Cursor(line, from) /\ gap.end = c.start
      /\ \/ c.start > Cursor(line, from) /\ new = Append(Append(line, gap), x)
         \/ c.start <= Cursor(line, from) /\ new = Append(line, x)
  BY <1>1, FillIs, CursorIs
<1>3. CASE c.start > Cursor(line, from) /\ new = Append(Append(line, gap), x)
  <2>1. PICK mid : mid = Append(line, gap)
    OBVIOUS
  <2>2. Tiled(mid, from) /\ Cursor(mid, from) = c.start
    BY <1>2, <1>3, <2>1, AppendWhole
  <2>3. /\ mid \in Seq(SlotType) /\ Len(mid) = Len(line) + 1
        /\ \A k \in 1..Len(line) : mid[k] = line[k]
    BY <1>2, <2>1, AppendIs
  <2>4. Tiled(new, from) /\ Cursor(new, from) = c.end
    BY <1>2, <1>3, <2>1, <2>2, <2>3, AppendWhole
  <2>5. /\ Len(new) = Len(mid) + 1 /\ new[Len(mid) + 1] = x
        /\ \A k \in 1..Len(mid) : new[k] = mid[k]
    BY <1>2, <1>3, <2>1, <2>3, AppendIs
  <2>6. Len(line) \in Nat
    OBVIOUS
  <2> QED BY <1>1, <2>3, <2>4, <2>5, <2>6
<1>4. CASE c.start <= Cursor(line, from) /\ new = Append(line, x)
  <2>1. Tiled(new, from) /\ Cursor(new, from) = c.end
    BY <1>2, <1>4, AppendWhole
  <2>2. /\ Len(new) = Len(line) + 1 /\ new[Len(line) + 1] = x
        /\ \A k \in 1..Len(line) : new[k] = line[k]
    BY <1>2, <1>4, AppendIs
  <2>3. Len(line) \in Nat
    OBVIOUS
  <2> QED BY <1>1, <2>1, <2>2, <2>3
<1> QED BY <1>2, <1>3, <1>4

\* The slots are what the filling arrives at, one control at a time.
LEMMA SlottedIs ==
    ASSUME NEW from \in Int, NEW seq \in Seq(InFrame(from)), NEW default \in Dispatch
    PROVE  \E line : /\ line \in [0..Len(seq) -> Seq(SlotType)] /\ line[0] = << >>
                     /\ \A k \in 1..Len(seq) : line[k] = Fill(line[k - 1], seq[k], default, from)
                     /\ Slotted(seq, default, from) = line[Len(seq)]
<1> DEFINE D == Seq(SlotType)
           N == Len(seq)
           On(k, T) == Fill(T, seq[k], default, from)
           step == [u \in (1..N) \X D |-> On(u[1], u[2])]
           Sequel(f) == [k \in 0..N |-> IF k = 0 THEN << >> ELSE On(k, f[k - 1])]
<1>1. N \in Nat /\ \A k \in 1..N : seq[k] \in InFrame(from) /\ k - 1 \in 0..N
  OBVIOUS
<1>2. ASSUME NEW k \in 1..N, NEW T \in D PROVE On(k, T) \in D
  BY <1>1, FillStays
<1>3. << >> \in D
  OBVIOUS
<1> HIDE DEF On, N, D
<1>4. step \in [(1..N) \X D -> D] /\ \A k \in 1..N, T \in D : step[<<k, T>>] = On(k, T)
  BY <1>2
<1> HIDE DEF step
<1>5. PICK f : Course(f, N, D, << >>, step)
  BY <1>1, <1>3, <1>4, Recursion
<1>6. /\ f \in [0..N -> D] /\ f[0] = << >> /\ \A k \in 1..N : f[k] = On(k, f[k - 1])
  <2>1. \A k \in 1..N : f[k - 1] \in D
    BY <1>1, <1>5 DEF Course
  <2> QED BY <1>4, <1>5, <2>1 DEF Course
<1>7. f = Sequel(f)
  <2>1. \A k \in 0..N : k = 0 \/ k \in 1..N
    BY <1>1
  <2> QED BY <1>6, <2>1
<1> DEFINE g == CHOOSE h : h = Sequel(h)
<1>8. Slotted(seq, default, from) = g[N]
  BY DEF Slotted, On, N
<1>9. g = Sequel(g)
  <2> HIDE DEF Sequel
  <2> QED BY <1>7
<1> HIDE DEF g
<1>10. g[0] = << >> /\ \A k \in 1..N : g[k] = On(k, g[k - 1])
  <2>1. 0 \in 0..N /\ \A k \in 1..N : k \in 0..N /\ k # 0
    BY <1>1
  <2> QED BY <1>9, <2>1
<1>11. \A k \in 0..N : g[k] = f[k]
  <2>1. Alike(N, g, f)
    BY <1>6, <1>10 DEF Alike
  <2> QED BY <1>1, <2>1, SameCourse
<1>12. N \in 0..N
  BY <1>1
<1>13. Slotted(seq, default, from) = f[N]
  BY <1>8, <1>11, <1>12
<1> QED BY <1>6, <1>13 DEF On, N, D

\* There is no first of none.
LEMMA NoneYet == \A j \in 1..0 : FALSE
OBVIOUS

\* Slots for the whole line, without a gap, each control in its own.
LEMMA SlottedWhole ==
    ASSUME NEW from \in Int, NEW line \in Seq(InFrame(from)), NEW default \in Dispatch,
           \A j \in 1..Len(line) - 1 : line[j].end <= line[j + 1].start,
           NEW new, new = Slotted(line, default, from)
    PROVE  /\ new \in Seq(SlotType) /\ Tiled(new, from) /\ Cursor(new, from) <= from + Window
           /\ \A j \in 1..Len(line) : \E k \in 1..Len(new) :
                 new[k] = Slot(line[j].start, line[j].end, line[j].dispatch)
<1> DEFINE N == Len(line)
           Slot0(j) == Slot(line[j].start, line[j].end, line[j].dispatch)
<1>1. PICK f : /\ f \in [0..N -> Seq(SlotType)] /\ f[0] = << >>
               /\ \A k \in 1..N : f[k] = Fill(f[k - 1], line[k], default, from)
               /\ Slotted(line, default, from) = f[N]
  BY SlottedIs
<1>2. N \in Nat /\ \A j \in 1..N : line[j] \in InFrame(from)
  OBVIOUS
<1>3. \A j \in 1..N : /\ from <= line[j].start /\ line[j].start \in Int /\ line[j].end \in Int
                      /\ line[j].start < line[j].end /\ line[j].end <= from + Window
  BY <1>2 DEF InFrame, Event
<1> DEFINE SoFar(k) == /\ Tiled(f[k], from)
                       /\ Cursor(f[k], from) = IF k = 0 THEN from ELSE line[k].end
                       /\ \A j \in 1..k : \E i \in 1..Len(f[k]) : f[k][i] = Slot0(j)
           S == {k \in Nat : k <= N => SoFar(k)}
<1> HIDE DEF N, Slot0
<1>4. 0 \in S
  <2>1. Tiled(<< >>, from) /\ Cursor(<< >>, from) = from
    BY DEF Tiled, Cursor
  <2>2. \A j \in 1..0 : FALSE
    BY NoneYet
  <2>3. Tiled(f[0], from) /\ Cursor(f[0], from) = from
    BY <1>1, <2>1
  <2>4. SoFar(0)
    BY <2>2, <2>3
  <2> QED BY <2>4
<1>5. ASSUME NEW m \in Nat, m \in S PROVE m + 1 \in S
  <2>0. m + 1 \in Nat
    OBVIOUS
  <2> SUFFICES ASSUME m + 1 <= N PROVE SoFar(m + 1)
    <3> HIDE DEF SoFar
    <3> QED BY <2>0
  <2>1. /\ m + 1 \in 1..N /\ (m + 1) - 1 = m /\ m \in 0..N /\ m <= N /\ m + 1 # 0
        /\ (m # 0 => m \in 1..N /\ m \in 1..N - 1)
        /\ \A j \in 1..m + 1 : j = m + 1 \/ j \in 1..m
    BY <1>2
  <2>2. SoFar(m)
    BY <1>5, <2>1
  <2>3. PICK old, new0, c : old = f[m] /\ new0 = f[m + 1] /\ c = line[m + 1]
    OBVIOUS
  <2>4. old \in Seq(SlotType) /\ c \in InFrame(from) /\ new0 = Fill(old, c, default, from)
    BY <1>1, <1>2, <2>1, <2>3
  <2>5. Tiled(old, from) /\ Cursor(old, from) <= c.start
    <3>1. CASE m = 0
      BY <1>3, <2>1, <2>2, <2>3, <3>1
    <3>2. CASE m # 0
      <4>1. Cursor(old, from) = line[m].end /\ line[m].end <= line[m + 1].start
        BY <2>1, <2>2, <2>3, <3>2 DEF N
      <4> QED BY <2>2, <2>3, <4>1
    <3> QED BY <3>1, <3>2
  <2>6. /\ Tiled(new0, from) /\ Cursor(new0, from) = c.end
        /\ \A k \in 1..Len(old) : k \in 1..Len(new0) /\ new0[k] = old[k]
        /\ \E k \in 1..Len(new0) : new0[k] = Slot(c.start, c.end, c.dispatch)
    BY <2>4, <2>5, FillKeeps
  <2>7. ASSUME NEW j \in 1..m + 1 PROVE \E i \in 1..Len(new0) : new0[i] = Slot0(j)
    <3>1. CASE j = m + 1
      BY <2>3, <2>6, <3>1 DEF Slot0
    <3>2. CASE j \in 1..m
      <4>1. PICK i \in 1..Len(old) : old[i] = Slot0(j)
        BY <2>2, <2>3, <3>2
      <4> QED BY <2>6, <4>1
    <3> QED BY <2>1, <3>1, <3>2
  <2> QED BY <2>1, <2>3, <2>6, <2>7
<1> HIDE DEF S
<1>6. Nat \subseteq S
  BY <1>4, <1>5, Induction
<1>7. SoFar(N)
  <2>1. N \in S /\ N <= N
    BY <1>2, <1>6
  <2> HIDE DEF SoFar
  <2> QED BY <2>1 DEF S
<1>8. Cursor(new, from) <= from + Window
  <2>1. Window \in Nat
    <3>1. \A x, y \in Nat : x * y \in Nat
      OBVIOUS
    <3> QED BY <3>1, ScheduleAssumption
  <2>2. CASE N = 0
    BY <1>1, <1>7, <2>1, <2>2
  <2>3. CASE N # 0
    <3>1. N \in 1..N
      BY <1>2, <2>3
    <3> QED BY <1>1, <1>3, <1>7, <2>3, <3>1
  <2> QED BY <2>2, <2>3
<1>9. N \in 0..N
  BY <1>2
<1> QED BY <1>1, <1>7, <1>8, <1>9 DEF N, Slot0

-----------------------------------------------------------------------------
\* What the window leaves of the live controls.
Live(controls, from) == {Clipped(c, from) : c \in Active(Candidates(controls, from))}

\* What is left of the live controls: each within the window, no two with one number.
LEMMA LiveIs ==
    ASSUME NEW from \in Int, NEW controls \in SUBSET Control, IsFiniteSet(controls),
           \A c, d \in controls : c.id = d.id => c = d
    PROVE  /\ Live(controls, from) \in SUBSET InFrame(from)
           /\ IsFiniteSet(Live(controls, from)) /\ Timed(Live(controls, from))
<1> DEFINE A == Active(Candidates(controls, from))
           f == [c \in A |-> Clipped(c, from)]
<1>1. A \subseteq controls /\ \A c \in A : c.end > from /\ c.start < from + Window
  BY DEF Active, Candidates
<1> HIDE DEF A
<1>2. A \in SUBSET controls
  BY <1>1
<1>3. IsFiniteSet(A)
  BY <1>2, FS_Subset
<1>4. Live(controls, from) = {f[c] : c \in A}
  BY DEF Live, A
<1>5. Window \in Nat /\ Window > 0
  <2>1. \A x, y \in Nat \ {0} : x * y \in Nat /\ x * y > 0
    OBVIOUS
  <2> QED BY <2>1, ScheduleAssumption
<1>6. ASSUME NEW c \in A
      PROVE  /\ f[c] \in InFrame(from) /\ f[c].id = c.id
  <2>1. /\ c \in [id : Int, start : Int, end : Int, made : Int, cancelled : BOOLEAN,
                  maybe : BOOLEAN, dispatch : Dispatch]
        /\ c.start < c.end /\ c.end > from /\ c.start < from + Window
    BY <1>1 DEF Control
  <2>0. At(c.start, from) \in Int /\ Upto(c.end, from + Window) \in Int
    BY <1>5, <2>1 DEF At, Upto
  <2>9. f[c] = [c EXCEPT !.start = At(c.start, from), !.end = Upto(c.end, from + Window)]
    BY DEF Clipped
  <2>2. /\ f[c] \in Event /\ f[c].id = c.id /\ f[c].start = At(c.start, from)
        /\ f[c].end = Upto(c.end, from + Window)
    BY <2>0, <2>1, <2>9 DEF Event
  <2>3. c.start \in Int /\ c.end \in Int
    BY <2>1
  <2> HIDE DEF f
  <2>4. from <= f[c].start /\ f[c].start < f[c].end /\ f[c].end <= from + Window
    BY <1>5, <2>1, <2>2, <2>3 DEF At, Upto
  <2> QED BY <2>2, <2>4 DEF InFrame
<1> HIDE DEF f
<1>7. Live(controls, from) \in SUBSET InFrame(from)
  BY <1>4, <1>6
<1>8. IsFiniteSet(Live(controls, from))
  BY <1>3, <1>4, ImageIsFinite
<1>9. \A c, d \in Live(controls, from) : c.id = d.id => c = d
  BY <1>1, <1>4, <1>6
<1>10. \A c \in Live(controls, from) : c.start \in Int /\ c.made \in Int /\ c.id \in Int
  BY <1>7 DEF InFrame, Event
<1> QED BY <1>7, <1>8, <1>9, <1>10 DEF Timed

\* The line of controls keeps every one that no other it meets outdoes.
LEMMA MergedKeeps ==
    ASSUME NEW from \in Int, NEW S \in SUBSET InFrame(from), IsFiniteSet(S), Timed(S),
           NEW line, line = Merged(InOrder(S))
    PROVE  /\ line \in Seq(InFrame(from))
           /\ \A j \in 1..Len(line) - 1 : line[j].end <= line[j + 1].start
           /\ \A c \in S : Sure(S, c) => \E j \in 1..Len(line) : line[j] = c
<1>1. PICK seq : seq = InOrder(S)
  OBVIOUS
<1>2. InOrderOf(S, seq) /\ seq \in Seq(S)
  BY <1>1, InOrderIs DEF InOrderOf
<1>3. seq \in Seq(InFrame(from)) /\ Len(seq) \in Nat
  BY <1>2
<1>4. PICK N : N = Len(seq)
  OBVIOUS
<1>5. PICK f : /\ f \in [0..N -> Seq(InFrame(from))] /\ f[0] = << >>
               /\ \A k \in 1..N : f[k] = Merge(f[k - 1], seq[k])
               /\ line = f[N]
  BY <1>1, <1>3, <1>4, MergedIs
<1> DEFINE T == {k \in Nat : k <= N => Lined(f[k], seq, k, S)}
<1>6. 0 \in T
  <2>1. 1..0 = {} /\ 1..Len(<< >>) = {} /\ 1..Len(<< >>) - 1 = {}
    OBVIOUS
  <2> QED BY <1>5, <2>1 DEF Lined
<1>7. ASSUME NEW m \in Nat, m \in T PROVE m + 1 \in T
  <2> SUFFICES ASSUME m + 1 <= N PROVE Lined(f[m + 1], seq, m + 1, S)
    OBVIOUS
  <2>1. m + 1 \in 1..Len(seq) /\ (m + 1) - 1 = m /\ m \in 0..N /\ m <= N /\ m + 1 \in 1..N
    BY <1>3, <1>4
  <2>2. f[m] \in Seq(InFrame(from)) /\ f[m + 1] = Merge(f[m], seq[m + 1])
    BY <1>5, <2>1
  <2>3. Lined(f[m], seq, (m + 1) - 1, S)
    BY <1>7, <2>1
  <2>4. Lined(Merge(f[m], seq[m + 1]), seq, m + 1, S)
    BY <1>2, <2>1, <2>2, <2>3, MergeKeeps
  <2> QED BY <2>2, <2>4
<1> HIDE DEF T
<1>8. Nat \subseteq T
  BY <1>6, <1>7, Induction
<1>9. Lined(line, seq, N, S)
  BY <1>3, <1>4, <1>5, <1>8 DEF T
<1>10. line \in Seq(InFrame(from))
  BY <1>3, <1>4, <1>5
<1>11. \A c \in S : Sure(S, c) => \E j \in 1..Len(line) : line[j] = c
  BY <1>2, <1>4, <1>9 DEF Lined, InOrderOf
<1> QED BY <1>9, <1>10, <1>11 DEF Lined

\* The schedule northbound builds: whole over the window, and with a slot of
\* its own for every control that no other it meets outdoes.
LEMMA BuildIs ==
    ASSUME NEW from \in Int, NEW controls \in SUBSET Control, IsFiniteSet(controls),
           \A c, d \in controls : c.id = d.id => c = d,
           NEW default \in Dispatch, NEW S, S = Live(controls, from),
           NEW new, new = Build(controls, default, from)
    PROVE  /\ new \in Seq(SlotType) /\ Tiled(new, from) /\ new # << >>
           /\ new[Len(new)].end = from + Window
           /\ \A c \in S : Sure(S, c) =>
                 \E k \in 1..Len(new) : new[k] = Slot(c.start, c.end, c.dispatch)
<1>1. S \in SUBSET InFrame(from) /\ IsFiniteSet(S) /\ Timed(S)
  BY LiveIs
<1>2. PICK line : line = Merged(InOrder(S))
  OBVIOUS
<1>3. /\ line \in Seq(InFrame(from))
      /\ \A j \in 1..Len(line) - 1 : line[j].end <= line[j + 1].start
      /\ \A c \in S : Sure(S, c) => \E j \in 1..Len(line) : line[j] = c
  BY <1>1, <1>2, MergedKeeps
<1>4. PICK old : old = Slotted(line, default, from)
  OBVIOUS
<1>5. /\ old \in Seq(SlotType) /\ Tiled(old, from) /\ Cursor(old, from) <= from + Window
      /\ \A j \in 1..Len(line) : \E k \in 1..Len(old) :
            old[k] = Slot(line[j].start, line[j].end, line[j].dispatch)
  BY <1>3, <1>4, SlottedWhole
<1>6. \A c \in S : Sure(S, c) =>
         \E k \in 1..Len(old) : old[k] = Slot(c.start, c.end, c.dispatch)
  BY <1>3, <1>5
<1>7. PICK gap : gap = Slot(Cursor(old, from), from + Window, default)
  OBVIOUS
<1>8. new = IF Cursor(old, from) < from + Window THEN Append(old, gap) ELSE old
  BY <1>2, <1>4, <1>7 DEF Build, Live
<1>9. Window \in Nat /\ Window > 0
  <2>1. \A x, y \in Nat \ {0} : x * y \in Nat /\ x * y > 0
    OBVIOUS
  <2> QED BY <2>1, ScheduleAssumption
<1>10. Cursor(old, from) \in Int /\ gap \in SlotType /\ gap.start = Cursor(old, from)
       /\ gap.end = from + Window
  BY <1>5, <1>7, <1>9, CursorIs, SlotIs
<1>11. CASE Cursor(old, from) < from + Window
  <2>1. new = Append(old, gap)
    BY <1>8, <1>11
  <2>2. Tiled(new, from) /\ Cursor(new, from) = from + Window
    BY <1>5, <1>10, <1>11, <2>1, AppendWhole
  <2>3. /\ new \in Seq(SlotType) /\ new # << >> /\ Len(new) = Len(old) + 1
        /\ \A k \in 1..Len(old) : new[k] = old[k]
    BY <1>5, <1>10, <2>1, AppendIs
  <2>4. \A k \in 1..Len(old) : k \in 1..Len(new)
    BY <1>5, <2>3
  <2>5. new[Len(new)].end = from + Window
    BY <2>2, <2>3 DEF Cursor
  <2> QED BY <1>6, <2>2, <2>3, <2>4, <2>5
<1>12. CASE ~(Cursor(old, from) < from + Window)
  <2>1. new = old /\ Cursor(old, from) = from + Window
    BY <1>5, <1>8, <1>9, <1>10, <1>12
  <2>2. old # << >>
    BY <1>9, <2>1 DEF Cursor
  <2> QED BY <1>5, <1>6, <2>1, <2>2 DEF Cursor
<1> QED BY <1>11, <1>12

\* Which step a tick falls in.
LEMMA DivBounds ==
    ASSUME NEW x \in Int, NEW d \in Nat \ {0}, NEW k \in Int
    PROVE  /\ x <= k * d => x \div d <= k
           /\ x >= k * d => x \div d >= k
           /\ x \div d \in Int
<1>1. PICK q : q = x \div d
  OBVIOUS
<1>2. q \in Int /\ q * d <= x /\ x < q * d + d
  BY <1>1
<1>3. \A a, b \in Int : a >= b + 1 => a * d >= b * d + d
  OBVIOUS
<1>4. k * d \in Int /\ q * d \in Int
  BY <1>2
<1>5. ASSUME x <= k * d, q > k PROVE FALSE
  <2>1. q >= k + 1
    BY <1>2, <1>5
  <2>2. q * d >= k * d + d
    BY <1>2, <1>3, <2>1
  <2> QED BY <1>2, <1>4, <1>5, <2>2
<1>6. ASSUME x >= k * d, q < k PROVE FALSE
  <2>1. k >= q + 1
    BY <1>2, <1>6
  <2>2. k * d >= q * d + d
    BY <1>2, <1>3, <2>1
  <2> QED BY <1>2, <1>4, <1>6, <2>2
<1> QED BY <1>1, <1>2, <1>5, <1>6

\* A later slot begins no sooner than an earlier one ends.
LEMMA WholeIsOrdered ==
    ASSUME NEW from \in Int, NEW line \in Seq(SlotType), Tiled(line, from),
           NEW k \in 1..Len(line), NEW l \in 1..Len(line), k < l
    PROVE  line[k].end <= line[l].start
<1> DEFINE n == Len(line)
           S == {m \in Nat : k + 1 + m <= n => line[k].end <= line[k + 1 + m].start}
<1>1. /\ n \in Nat /\ k \in Int /\ l \in Int /\ k >= 1 /\ l <= n
      /\ \A m \in 1..n : line[m].start \in Int /\ line[m].end \in Int
  <2>1. \A m \in 1..n : line[m] \in SlotType
    OBVIOUS
  <2>2. \A m \in 1..n : line[m].start \in Int /\ line[m].end \in Int
    BY <2>1 DEF SlotType
  <2> QED BY <2>2
<1>2. /\ \A m \in 1..n - 1 : line[m].end = line[m + 1].start
      /\ \A m \in 1..n : line[m].start < line[m].end
  BY DEF Tiled
<1> HIDE DEF n
<1>3. 0 \in S
  <2>1. k + 1 + 0 = k + 1 /\ (k + 1 <= n => k \in 1..n - 1 /\ k + 1 \in 1..n /\ k \in 1..n)
    BY <1>1
  <2> QED BY <1>1, <1>2, <2>1
<1>4. ASSUME NEW m \in Nat, m \in S PROVE m + 1 \in S
  <2>1. /\ m + 1 \in Nat /\ k + 1 + (m + 1) = (k + 1 + m) + 1
        /\ (k + 1 + (m + 1) <= n => /\ k + 1 + m \in 1..n - 1 /\ k + 1 + m \in 1..n
                                    /\ (k + 1 + m) + 1 \in 1..n /\ k + 1 + m <= n /\ k \in 1..n)
    <3>1. PICK j : j = k + 1 + m
      OBVIOUS
    <3>2. /\ j \in Int /\ j >= 1 /\ k <= j /\ k >= 1 /\ k \in Int /\ n \in Int
          /\ m + 1 \in Nat /\ k + 1 + (m + 1) = j + 1
      BY <1>1, <3>1
    <3>3. j + 1 <= n => /\ j \in 1..n - 1 /\ j \in 1..n /\ j + 1 \in 1..n /\ j <= n
                        /\ k \in 1..n
      BY <3>2
    <3> QED BY <3>1, <3>2, <3>3
  <2>2. ASSUME k + 1 + (m + 1) <= n PROVE line[k].end <= line[k + 1 + (m + 1)].start
    <3>1. line[k].end <= line[k + 1 + m].start
      BY <1>4, <2>1, <2>2
    <3>2. PICK j : j = k + 1 + m
      OBVIOUS
    <3>3. j \in 1..n - 1 /\ j \in 1..n /\ j + 1 \in 1..n /\ k \in 1..n
      BY <2>1, <2>2, <3>2
    <3>4. line[j].start < line[j].end /\ line[j].end = line[j + 1].start
      BY <1>2, <3>3
    <3>5. line[k].end <= line[j + 1].start
      BY <1>1, <3>1, <3>2, <3>3, <3>4
    <3> QED BY <2>1, <3>2, <3>5
  <2> QED BY <2>1, <2>2
<1> HIDE DEF S
<1>5. Nat \subseteq S
  BY <1>3, <1>4, Induction
<1>6. l - k - 1 \in Nat /\ k + 1 + (l - k - 1) = l
  BY <1>1
<1> QED BY <1>1, <1>5, <1>6 DEF S

\* What clipping leaves alone, and that it only shortens.
LEMMA ClipIs ==
    ASSUME NEW from \in Int, NEW c \in Control
    PROVE  /\ Clipped(c, from).id = c.id /\ Clipped(c, from).made = c.made
           /\ Clipped(c, from).dispatch = c.dispatch
           /\ Clipped(c, from).start = At(c.start, from)
           /\ Clipped(c, from).end = Upto(c.end, from + Window)
           /\ c.start <= Clipped(c, from).start /\ Clipped(c, from).end <= c.end
           /\ Clipped(c, from).start \in Int /\ Clipped(c, from).end \in Int
<1>1. Window \in Nat
  <2>1. \A x, y \in Nat : x * y \in Nat
    OBVIOUS
  <2> QED BY <2>1, ScheduleAssumption
<1>2. /\ c \in [id : Int, start : Int, end : Int, made : Int, cancelled : BOOLEAN,
                maybe : BOOLEAN, dispatch : Dispatch]
      /\ c.start \in Int /\ c.end \in Int
  BY DEF Control
<1>3. /\ At(c.start, from) \in Int /\ Upto(c.end, from + Window) \in Int
      /\ c.start <= At(c.start, from) /\ Upto(c.end, from + Window) <= c.end
  BY <1>1, <1>2 DEF At, Upto
<1>4. Clipped(c, from) = [c EXCEPT !.start = At(c.start, from), !.end = Upto(c.end, from + Window)]
  BY DEF Clipped
<1>5. /\ Clipped(c, from).id = c.id /\ Clipped(c, from).made = c.made
      /\ Clipped(c, from).dispatch = c.dispatch
      /\ Clipped(c, from).start = At(c.start, from)
      /\ Clipped(c, from).end = Upto(c.end, from + Window)
  BY <1>2, <1>4
<1> QED BY <1>3, <1>5

\* A control newer than every other it meets is newer than all that is left of
\* them in the window.
LEMMA SureIs ==
    ASSUME NEW from \in Int, NEW controls \in SUBSET Control, NEW c \in controls,
           ~c.cancelled, c.end > from, c.start < from + Window,
           \A o \in controls \ {c} : ~o.cancelled /\ Overlap(o, c) => Newer(c, o)
    PROVE  Clipped(c, from) \in Live(controls, from)
           /\ Sure(Live(controls, from), Clipped(c, from))
<1>1. \A o \in controls : o.made \in Int /\ o.id \in Int /\ o.start \in Int /\ o.end \in Int
  BY DEF Control
<1>2. c \in Candidates(controls, from)
  BY DEF Candidates
<1>3. ~Superseded(c, Candidates(controls, from))
  <2> SUFFICES ASSUME NEW o \in Candidates(controls, from), o # c, ~o.cancelled, Overlap(o, c),
                      o.made > c.made
               PROVE  FALSE
    BY DEF Superseded
  <2>1. o \in controls
    BY DEF Candidates
  <2>2. Newer(c, o)
    BY <2>1
  <2> QED BY <1>1, <2>1, <2>2 DEF Newer
<1>4. c \in Active(Candidates(controls, from))
  BY <1>2, <1>3 DEF Active
<1>5. Clipped(c, from) \in Live(controls, from)
  BY <1>4 DEF Live
<1>6. ASSUME NEW e \in Live(controls, from), e # Clipped(c, from), Overlap(e, Clipped(c, from))
      PROVE  Newer(Clipped(c, from), e)
  <2>1. PICK o \in Active(Candidates(controls, from)) : e = Clipped(o, from)
    BY DEF Live
  <2>2. o \in controls /\ ~o.cancelled /\ o # c
    BY <1>6, <2>1 DEF Active, Candidates
  <2>3. o \in Control /\ c \in Control
    BY <2>2
  <2>4. PICK d : d = Clipped(c, from)
    OBVIOUS
  <2>5. /\ d.id = c.id /\ d.made = c.made /\ e.id = o.id /\ e.made = o.made
        /\ o.start <= e.start /\ e.end <= o.end /\ c.start <= d.start /\ d.end <= c.end
        /\ e.start \in Int /\ e.end \in Int /\ d.start \in Int /\ d.end \in Int
    BY <2>1, <2>3, <2>4, ClipIs
  <2>6. e.start < d.end /\ d.start < e.end
    BY <1>6, <2>4 DEF Overlap
  <2>7. Overlap(o, c)
    BY <1>1, <2>2, <2>5, <2>6 DEF Overlap
  <2>8. Newer(c, o)
    BY <2>2, <2>7
  <2> QED BY <2>4, <2>5, <2>8 DEF Newer
<1> QED BY <1>5, <1>6 DEF Sure

\* The step's constraint is that of the last slot over it.
LEMMA ConstraintIs ==
    ASSUME NEW from \in Int, NEW aus, NEW line \in Seq(SlotType), Tiled(line, from),
           NEW i \in Horizon, NEW k \in 1..Len(line),
           NEW ws \in Int, ws = Boundary(from),
           line[k].start <= ws + i * StepTicks, line[k].end >= ws + (i + 1) * StepTicks
    PROVE  Constraints(line, from, aus)[i] = Mapped(line[k].dispatch, aus)
<1> DEFINE Of == {l \in DOMAIN line : i \in StepsOf(line[l], ws)}
<1>1. /\ StepTicks \in Nat \ {0} /\ i \in Int /\ DOMAIN line = 1..Len(line)
      /\ i * StepTicks \in Int /\ (i + 1) * StepTicks \in Int /\ i \in 0..Steps - 1
  BY ScheduleAssumption DEF Horizon
<1>2. \A l \in 1..Len(line) : line[l].start \in Int /\ line[l].end \in Int
  <2>1. \A l \in 1..Len(line) : line[l] \in SlotType
    OBVIOUS
  <2> QED BY <2>1 DEF SlotType
<1>3. (line[k].start - ws) \div StepTicks <= i
  <2>1. line[k].start - ws \in Int /\ line[k].start - ws <= i * StepTicks
    <3>1. PICK b, x : b = i * StepTicks /\ x = line[k].start
      OBVIOUS
    <3>2. b \in Int /\ x \in Int /\ x <= ws + b
      BY <1>1, <1>2, <3>1
    <3>3. x - ws \in Int /\ x - ws <= b
      BY <3>2
    <3> QED BY <1>1, <3>1, <3>3
  <2> QED BY <1>1, <2>1, DivBounds
<1>4. (line[k].end - ws) \div StepTicks >= i + 1
  <2>1. line[k].end - ws \in Int /\ line[k].end - ws >= (i + 1) * StepTicks /\ i + 1 \in Int
    <3>1. PICK b, x : b = (i + 1) * StepTicks /\ x = line[k].end
      OBVIOUS
    <3>2. b \in Int /\ x \in Int /\ x >= ws + b
      BY <1>1, <1>2, <3>1
    <3>3. x - ws \in Int /\ x - ws >= b
      BY <3>2
    <3> QED BY <1>1, <3>1, <3>3
  <2> QED BY <1>1, <2>1, DivBounds
<1>5. k \in Of
  <2>1. /\ (line[k].start - ws) \div StepTicks \in Int
        /\ (line[k].end - ws) \div StepTicks \in Int
    <3>1. line[k].start - ws \in Int /\ line[k].end - ws \in Int
      BY <1>2
    <3> QED BY <1>1, <3>1, DivBounds
  <2>2. i >= (line[k].start - ws) \div StepTicks /\ i < (line[k].end - ws) \div StepTicks
    BY <1>1, <1>3, <1>4, <2>1
  <2> QED BY <1>1, <2>2 DEF StepsOf
<1>6. ASSUME NEW l \in Of PROVE l <= k
  <2>1. l \in 1..Len(line) /\ i >= (line[l].start - ws) \div StepTicks
    BY <1>1 DEF StepsOf
  <2>2. ASSUME k < l PROVE FALSE
    <3>1. line[k].end <= line[l].start
      BY <2>1, <2>2, WholeIsOrdered
    <3>2. /\ line[l].start - ws \in Int /\ line[l].start - ws >= (i + 1) * StepTicks
          /\ i + 1 \in Int
      <4>1. PICK b : b = (i + 1) * StepTicks
        OBVIOUS
      <4>2. /\ b \in Int /\ line[k].end >= ws + b /\ line[k].end \in Int
            /\ line[l].start \in Int
        BY <1>1, <1>2, <2>1, <4>1
      <4>3. line[l].start >= ws + b
        BY <3>1, <4>2
      <4>4. line[l].start - ws >= b
        BY <4>2, <4>3
      <4> QED BY <1>1, <4>1, <4>2, <4>4
    <3>3. (line[l].start - ws) \div StepTicks >= i + 1
      BY <1>1, <3>2, DivBounds
    <3>4. (line[l].start - ws) \div StepTicks \in Int
      BY <1>1, <3>2
    <3> QED BY <1>1, <2>1, <3>3, <3>4
  <2>3. k \in Int /\ l \in Int
    BY <2>1
  <2> QED BY <2>2, <2>3
<1>7. Of \subseteq Int
  BY <1>1
<1>8. Constraints(line, from, aus)[i] =
        IF Of = {} THEN Free
        ELSE Mapped(line[CHOOSE m \in Of : \A l \in Of : l <= m].dispatch, aus)
  BY <1>1 DEF Constraints
<1> HIDE DEF Of
<1>9. (CHOOSE m \in Of : \A l \in Of : l <= m) = k
  <2>1. PICK best : best = CHOOSE m \in Of : \A l \in Of : l <= m
    OBVIOUS
  <2>2. best \in Of /\ \A l \in Of : l <= best
    BY <1>5, <1>6, <2>1
  <2>3. best <= k /\ k <= best /\ best \in Int /\ k \in Int
    BY <1>5, <1>6, <1>7, <2>2
  <2>4. best = k
    BY <2>3
  <2> QED BY <2>1, <2>4
<1> QED BY <1>5, <1>8, <1>9

\* The schedule the planner has been given is whole.
LEMMA SlotsHold == ASSUME GivenInv PROVE SlotsAreWhole
<1>1. CASE stage = "gather"
  BY <1>1 DEF GivenInv, SlotsAreWhole
<1>2. CASE stage # "gather"
  <2>1. /\ site.controls \in SUBSET Control /\ IsFiniteSet(site.controls)
        /\ \A c, d \in site.controls : c.id = d.id => c = d
        /\ site.default \in Dispatch /\ site.from \in Int
    BY SitesAssumption DEF GivenInv, SiteType
  <2>2. slots = Build(site.controls, site.default, site.from)
    BY <1>2 DEF GivenInv
  <2>3. /\ slots \in Seq(SlotType) /\ Tiled(slots, site.from) /\ slots # << >>
        /\ slots[Len(slots)].end = site.from + Window
    <3>1. PICK S : S = Live(site.controls, site.from)
      OBVIOUS
    <3> QED BY <2>1, <2>2, <3>1, BuildIs
  <2>4. DOMAIN slots = 1..Len(slots)
    BY <2>3
  <2> QED BY <2>3, <2>4 DEF Tiled, SlotsAreWhole
<1> QED BY <1>1, <1>2

\* The newest of the controls that meet keeps its steps.
LEMMA NewestHolds == ASSUME GivenInv PROVE NewestEventHolds
<1> SUFFICES ASSUME stage # "gather", NEW c \in site.controls, ~c.cancelled,
                    \A o \in site.controls \ {c} : ~o.cancelled /\ Overlap(o, c) => Newer(c, o),
                    NEW i \in Horizon, TickOf(i) >= Max2(c.start, site.from),
                    TickOf(i + 1) <= c.end
             PROVE  p.limits[i] = Mapped(c.dispatch, site.aus)
  BY DEF NewestEventHolds
<1>1. /\ site.controls \in SUBSET Control /\ IsFiniteSet(site.controls)
      /\ \A a, b \in site.controls : a.id = b.id => a = b
      /\ site.default \in Dispatch /\ site.from \in Int /\ site \in Sites
  BY SitesAssumption DEF GivenInv, SiteType
<1>2. PICK from, ws : from = site.from /\ ws = Boundary(from)
  OBVIOUS
<1>3. i \in Int /\ i + 1 \in Int /\ 0 <= i /\ i <= Steps - 1 /\ Steps \in Nat
      /\ StepTicks \in Nat \ {0} /\ Window = Steps * StepTicks
  BY ScheduleAssumption DEF Horizon
<1>4. /\ TickOf(i) = ws + i * StepTicks /\ TickOf(i + 1) = ws + (i + 1) * StepTicks
      /\ ws \in Int /\ ws <= from /\ from \in Int
  BY <1>1, <1>2, <1>3, TicksAre
<1>5. /\ i * StepTicks \in Int /\ (i + 1) * StepTicks \in Int /\ Window \in Int
      /\ (i + 1) * StepTicks = i * StepTicks + StepTicks /\ (i + 1) * StepTicks <= Window
  <2>1. \A a, b \in Int : a <= b => a * StepTicks <= b * StepTicks
    BY <1>3
  <2>2. i + 1 <= Steps /\ Steps \in Int
    BY <1>3
  <2>3. (i + 1) * StepTicks <= Window
    BY <1>3, <2>1, <2>2
  <2>4. i * StepTicks \in Int /\ Window \in Int /\ (i + 1) * StepTicks = i * StepTicks + StepTicks
    BY <1>3
  <2> QED BY <1>3, <2>3, <2>4
<1>6. c \in Control /\ c.start \in Int /\ c.end \in Int
  BY <1>1 DEF Control
<1>7. /\ c.start <= ws + i * StepTicks /\ from <= ws + i * StepTicks
      /\ ws + (i + 1) * StepTicks <= c.end
  BY <1>2, <1>4, <1>5, <1>6 DEF Max2
<1>8. c.end > from /\ c.start < from + Window
  <2>1. PICK a, b : a = i * StepTicks /\ b = (i + 1) * StepTicks
    OBVIOUS
  <2>2. /\ a \in Int /\ b \in Int /\ Window \in Int /\ b = a + StepTicks /\ b <= Window
        /\ c.start <= ws + a /\ from <= ws + a /\ ws + b <= c.end
    BY <1>5, <1>7, <2>1
  <2> QED BY <1>3, <1>4, <1>6, <2>2
<1>9. PICK S, d : S = Live(site.controls, from) /\ d = Clipped(c, from)
  OBVIOUS
<1>10. d \in S /\ Sure(S, d)
  BY <1>1, <1>2, <1>8, <1>9, SureIs
<1>11. slots = Build(site.controls, site.default, from) /\ p.limits = Constraints(slots, from, site.aus)
  BY <1>2 DEF GivenInv
<1>12. /\ slots \in Seq(SlotType) /\ Tiled(slots, from)
       /\ \A x \in S : Sure(S, x) =>
             \E k \in 1..Len(slots) : slots[k] = Slot(x.start, x.end, x.dispatch)
  BY <1>1, <1>2, <1>9, <1>11, BuildIs
<1>13. PICK k \in 1..Len(slots) : slots[k] = Slot(d.start, d.end, d.dispatch)
  BY <1>10, <1>12
<1>14. slots[k].start = d.start /\ slots[k].end = d.end /\ slots[k].dispatch = d.dispatch
  BY <1>13 DEF Slot
<1>15. d.start = At(c.start, from) /\ d.end = Upto(c.end, from + Window) /\ d.dispatch = c.dispatch
  BY <1>4, <1>6, <1>9, ClipIs
<1>16. slots[k].start <= ws + i * StepTicks
  BY <1>7, <1>14, <1>15 DEF At
<1>17. slots[k].end >= ws + (i + 1) * StepTicks
  BY <1>4, <1>5, <1>6, <1>7, <1>14, <1>15 DEF Upto
<1>18. Constraints(slots, from, site.aus)[i] = Mapped(slots[k].dispatch, site.aus)
  BY <1>2, <1>4, <1>12, <1>16, <1>17, ConstraintIs
<1> QED BY <1>11, <1>14, <1>15, <1>18

\* Whatever site it plans for, the planner is given the utility's schedule and
\* the tariff as they are (schedule.Build, derConstraintsFromSchedule,
\* compileTariff), and the plan it finishes keeps the envelope and costs no more
\* than any other run of commands on the grid (DailyPlanner.Plan).
THEOREM PlansAreSound == SpecPlanner => []PlanIsSound
<1>1. InitPlanner => PlanInv /\ GivenInv
  BY InitPlans, InitGives
<1>2. PlanInv /\ GivenInv /\ [NextPlanner]_plannerVars => PlanInv' /\ GivenInv'
  BY PlanInvStays, GivenStays
<1>3. PlanInv /\ GivenInv => PlanIsSound
  BY DoneIsBest, DoneKeepsEnvelope, DoneSellsWhatIsLost, SlotsHold, NewestHolds, TariffHolds
     DEF PlanIsSound
<1> QED BY <1>1, <1>2, <1>3, PTL DEF SpecPlanner
=============================================================================
