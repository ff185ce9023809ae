# Verification of lexa-hub

lexa-hub is a home energy gateway: it takes grid limits from a utility server (IEEE 2030.5 /
CSIP) and prices from OpenADR, plans what batteries, inverters and chargers should do, drives
them over Modbus and OCPP, and tells the utility when it cannot comply. This directory holds
TLA+ modules of the parts that decide what a device is told, what the utility and the cloud
hear and what survives a crash; the TLC configurations that check small instances of them; and
TLAPS proofs of what matters most in them.

Contents: [1 the system](#1-the-system) · [2 the modules](#2-the-modules) ·
[3 the runs](#3-the-runs) · [4 bounds](#4-bounds) · [5 fairness](#5-fairness) ·
[6 proofs](#6-what-is-proved) · [7 findings](#7-findings-and-observations) ·
[8 not modelled](#8-what-is-not-modelled) · [9 plan](#9-plan)

A check: `tlc -workers 2 -config MCReconciler.cfg MCReconciler`; the proofs of a module:
`tlapm ReconcilerProofs.tla`. `PROJECT.json` lists components, runs, mutants, the source lines
of every definition, findings, hazards and theorems.

## 1 The system

The services are separate processes that share an MQTT broker. Retained messages carry state
across restarts; everything else is lost with a process.

    utility --- northbound ---+                          +--- modbus --- battery, inverter, meter
                              |       MQTT broker        |
    OpenADR --- openadr ------+--- hub (inputs, engine, -+--- ocpp ----- chargers
                              |    plan authors,         |
    cloud ----- cloudlink ----+    actuators, breaches)  +--- api (app, commissioning)

The life of a limit: northbound walks the utility's server, selects the control in force and
publishes it; the hub adopts it for as long as it holds; the authors of the plan (the optimizer's
cascade, a stack of constraints, or the gateway's stack) turn it into commands; an actuator per
device merges a command into a *desired document* (`seq`, `issuedAt`, fields) and publishes it
retained; the device's shell hands it to a *reconciler*, which writes it, verifies it by
readback, retries, and reports non-convergence; the hub merges those reports with the meter into
a *breach episode*; northbound answers the utility with CannotComply. On the side: intents of the
app and the cloud reach the hub over retained topics, records go to the cloud through a
disk-backed spool, every service keeps an audit journal, and commissioning rewrites
configuration files under running services.

| Component | State it keeps | What is hard |
|---|---|---|
| reconciler core (`internal/reconcile`) | standing document, convergence window, episode, backoff cursor, staleness | pure, shared by all shells; any order of calls; shortcuts that skip a write; edge-triggered verdicts |
| desired-document channel (`cmd/hub/desired.go`, `internal/mqttutil`) | last published document, seq, tracked publish | asynchronous publish with roll-back against a client that still resends; restarts on both sides |
| battery shell, Tier-0 interlock, device session (`cmd/modbus`) | reconciler, reconnect flag; charge note, trips; open device or none | three goroutines, two mutexes, neither held across the other's decision; writes without a session vanish |
| solar shell (`cmd/modbus/reconcile_solar.go`) | reconciler, own copy of the ceiling, seed | one-sided divergence; a seed that competes with retained documents |
| advanced functions (`cmd/hub/adv.go`, `cmd/modbus/reconcile_adv.go`) | author: control, curves, document; shell: a reconciler per axis | a control and its curves on two topics; write, adopt, enable, read back against a device that resists; what is loaded need not be on |
| EVSE shell, OCPP bridge (`cmd/ocpp`) | reconciler, station, connected flag | asynchronous calls given up after 10 s and taken later |
| EVSE pairing (`cmd/ocpp/pairing.go`, `pending.go`) | decisions and their file, pending surface | handlers racing a decision; a document built under a mutex and published outside it |
| breach episodes (`cmd/hub/breach.go`, `snapshot.go`) | plan breach, device reports, open episode, snapshot | two kinds of evidence, two goroutines, publication outside the mutex, restarts |
| optimizer cascade (`orchestrator/optimizer.go`, `auslimits.go`) | guards of every rule | a dozen rules over one plan, each with hold windows and counters, fed back through the meter |
| constraint stack, arbiter, wrapper (`orchestrator/constraint`) | a session per constraint | priorities per axis; a plan composed of two authors |
| mode manager, intents, engine (`cmd/hub/mode.go`, `intent.go`, `orchestrator/engine.go`) | mode, inputs, charge-now timer, command queue | retained topics against boot order; rejected intents that replace retained ones; stale timers; a full queue |
| planner, tariff, DER schedule (`orchestrator/planner.go`, `cmd/hub/tariff.go`, `northbound/schedule`) | - | dynamic programme on a grid; clipping and merging of slots |
| DER scheduler, walk, control cache (`northbound/scheduler`, `run`, `discovery`, `cmd/hub/state.go`) | windows, last good control, poll rate, PIN verdict; retained control and its expiry | one bad walk, a moved clock, a redelivered message must not end a control, nor keep it |
| response tracker and store (`northbound/responses`) | what was told of each event, append log | once and truthfully towards the utility, across crashes |
| DER reports, log events (`cmd/hub/dersite.go`, `logevent.go`, `northbound/derreport`, `logevent`) | hashes of what was sent, edges, pending list | two threads over one record; retries and latches |
| certificates (`cmd/northbound/rotate.go`, `certmon.go`) | sessions of the fetchers, sentinel; days left | a swap under an exchange; a sentinel replaced while it is worked on |
| spool, uplink, downlink (`internal/spool`, `cmd/cloudlink`) | segments, cursors, seq files; allowances | eviction between peek and commit; torn tails; subscription lost with a session; a journal that buffers and may refuse |
| journal (`internal/journal`) | buffer, files | crash between renames, refused writes and newlines, torn tails |
| commissioning, migration (`cmd/api/configwrite.go`, `cmd/lexa-migrate`, `scripts/lexa-commission-apply`) | staged, live and backup files, restart request and result | a power cut between any two steps; answers matched by a time stamp |

Components that are not modelled are listed with their reason in `PROJECT.json` and section 8.

## 2 The modules

Handlers are actions; what holds a mutex throughout is one step, and steps are cut where the code
releases a mutex, returns to a loop, or may crash. Pure functions are operators that return a
record. Names are the code's. Comments head each module with its abstractions.

**Devices.** `ReconcilerCore` translates `reconcile.go`: each operation returns
`[r, write, reports]`. It has no variables, so that all shells and proofs share it. `Reconciler`
drives one core with any order of calls and ghosts for what an observer of reports and writes
knows. `DesiredChannel` is the actuators' merge, dedupe, heartbeat and roll-back, the client's
resend store and the consumer's gate. `BatteryShell` is the core, the shell's mutex (`job`), the
poll goroutine (`poll`), the interlock and the session. `SolarShell` adds the seed and one-sided
readback. `AdvAuthor` and `AdvShell` are the advanced document from the control to the curve on
the device, whose functions have a content (`dev`) and an enable point (`on`). `EvseShell` is one configured station, `Pairing` those that are not.

**The plan.** `Cascade` has the rules of `Optimize` in their order, each an operator on the pass
(plan, guards, measured state). `ConstraintStack` has the arbiter (intervals within and across
tiers), the seven constraints, the passthrough, post-arbitration safety and the composition with
the cascade's plan; a constraint reuses the cascade's operator for the session it ports.
`PlanAuthors` closes the loop: the ticks of the two modes, the safety tick, and a site whose pack,
inverter, charger and meter may each disobey, lag or go dark.
`Intents` is the inputs, the mode manager, the timer and the engine's queue and loops. `Schedule`
has the DER slots and the tariff, `Planner` the dynamic programme over them. `BreachEpisodes`
merges evidence and publishes edges.

**The utility.** `Scheduler` selects (pure); `Responses` is the tracker with its log over it;
`Lease` is the walk, its publication, and the control's life at the hub. `SiteReport` and
`AlarmEvents` are what the hub reports and northbound posts. `Rotation` is the swap of sessions and
the certificate watch.

**The cloud and the disk.** `Spool` has segments, cursors, eviction and recovery (pure), `Uplink`
the collectors, the batcher, crashes and the cloud over it; `ClassQueue` is the abstract
specification, a queue per priority class, which `Uplink` refines (`IsClassQueue`: `queue` is what
can be read from the cursor on, `offer` the frame). `Downlink` is commands of cloud and app with
the journal as far as the handler knows it (`record`), `Journal` the audit log's writer and files, `Commission` the configuration's writes, migrations and restarts.

The `MC*` modules give constants their values. Where one run covers components that share no
state, its specification is the union of theirs with a `part` that says which one a behaviour is
about while the others rest, and properties hold of the part at work. `CoreProofs`, the six
other `*Proofs` modules and the end of `DesiredChannel` hold the theorems (section 6).

## 3 The runs

| Run | Properties | What it shows |
|---|---|---|
| `reconciler` | `StreamMirrorsEpisode`, `EpisodeIsEarned`, `StandingWasWritten`, `StaleIsTrue`, `CorrectivePacing` | the reports alone tell which episode is open; an episode rests on a full timeout of observed divergence; whatever stands was handed out for writing; a stale verdict is withdrawn by a refresh; corrective writes keep the backoff through reconnects and refreshes |
| `desired_channel` | `RecoversWithinHeartbeat`, `NoReplay` | no device falls back to an earlier document, and one heartbeat after the last disturbance it stands on the hub's intent, as would a consumer that starts then |
| `battery_shell` | `SessionCarriesStanding`, `UnsafeEnds` | a reopened session is given the standing intent; an unsafe discharge ends |
| `battery_shell_restore` | `NoRestoreWhileTripped` (violated) | section 7 |
| `solar_shell` | `CapObeyed` | after seeds, re-seeds, delays, refusals, reboots and restarts the inverter ends under the ceiling that stands |
| `advanced` | `AdvancedStands`, `ControlReachesDevice` | no document mixes two controls, a curve reported adopted is in the registers of the device while its session lasts, and in the end the device runs what the utility asks for, switched on (but for the skip of section 7) |
| `ocpp` | `ProfileInForce`, `StrangersStayOut`, `OcppSettles` | a reached station holds the profile adopted last; nobody unapproved is plant; the vehicle ends under the limit and a waiting station is surfaced |
| `site_control` | `EveryAuthorReports`, `EveryAuthorHoldsCaps`, `DrainIsCut`, `SiteComesToRest` | whoever plans, a lasting miss is reported, caps bound the plan, a draining pack is cut; an obeying site comes to rest inside its limits and a mode switch leaves no cap behind |
| `hub` | `InputsAreKept`, `PlanIsSound`, `ConfigIsWhole`, `EndsWhenAllClear`, `OneAlertPerBreach`, `AnswersAreHonest`, `HubSettles` | an input the user set outlives rejected intents, restarts and stale timers; the plan keeps the envelope it is given and costs no more than any other command sequence on the grid; files are whole; episodes end only without evidence and are announced once; "restarted" was a restart; inputs reach the plan, episodes agree with the site, what was written is run |
| `northbound` | `TrackerRemembers`, `EndsOnTime`, `OnlyForCause`, `NorthboundSettles` | the log gives back what was told; a control ends at its time and not without a cause; every started event is reported ended |
| `reports` | `RecordIsTrue`, `ToldOnce`, `SessionsStand`, `ExpiryIsKnown`, `UtilityIsToldTheTruth` | the record of what was sent is what the server has, no edge is told twice, rotation costs no session, an expiry is known in time |
| `cloud` | `NothingIsLost`, `CommandsAreAccounted`, `JournalIsWhole`, `IsClassQueue`, `CloudSettles` | every stored record is pending, arrived or accounted for; a class is a queue; commands keep to their allowance and enter the journal before they act, what a failed write or a crash takes of that record is bounded; synced lines stay in order and are lost only to a refused newline |

Every property of a passing run has a mutant of the modelled code (operators named `Mut...`, next
to the definition they change) under which TLC finds it violated. Deadlock is checked where the
system never stops; the bounded runs that may exhaust their bounds switch it off.

## 4 Bounds

Every bound is a named constant and appears in a guard. No symmetry is used: mRIDs, classes and
shells are ordered or differ.

- `MCReconciler`: two fields (one with tolerance), targets apart by more and by less than it,
  documents newer, equal, older, restarted and stale, backoff ⟨1, 2⟩ with three attempts, each
  timer due within the clock's 5 s.
- `MCDesiredChannel`: heartbeat 2, stale 4, time-out 1, clock 6, four publishes, two faults:
  a time-out, a roll-back, a second publish and the heartbeat that repairs both. The ratio
  heartbeat ≤ stale/2 is the code's. Channels do not interact; one per class.
- `MCBatteryShell`: charge with and without Connect, discharge, disconnect; two documents, one
  fault; episodes are left to `MCReconciler`, the interleavings are the subject.
- `MCSolarShell`: a cap under the sun's power and the release above it, one restart, one fault.
- `MCAdvanced`: three controls that switch a curve over a power factor, drop it with a cease, and
  end all; one device fault of each kind, among them an adoption whose enabling is refused.
- `MCOcpp`: one limit under the rated maximum, two events, one late call; two stations, one of
  which is lively, two disk failures or restarts.
- `MCSite`: powers in units of a few hundred watts (nameplate 8, pack 4, car 3 to 6), `Ticks` 2,
  states of charge on both sides of the reserve and the taper; from three starts, two changes of
  anything and one move of the charge. With authors: one mode switch, all constraints active or
  none, one change.
- `MCHub`: per topic set one to three publications, valid or not, and a fault or a departure
  that passes; about a thousand planner sites of
  three steps (all tariffs, two overlapping events in every order, every kind of limit against
  every pair of devices); two shells with one restart, one blind spell, one lost alert; two
  writers on two services or one, up to two crashes.
- `MCNorthbound`: two events of which the later supersedes; one clock glitch, one crash, two
  edits; pages of one entry, one set of troubles per behaviour.
- `MCReports`: one battery; one alarm bit flipped three times; two fetchers, two CAs, two
  sentinels; twelve-hour units up to five days.
- `MCCloud`: four records in two classes over three units of budget and segments of two, so that
  rotation, eviction and a stale cursor file occur; bursts of two; a record that syncs every third
  line or when the next finds it a unit old, so that lines wait; two files of two lines, half lines
  and refused newlines.

## 5 Fairness

Nothing is assumed of faults, documents, edits or users. Assumed is:

- what a ticker or a blocked goroutine does: the poll loop and the holder of a mutex
  (`BatteryShell`), reads (`SolarShell`), the engine's passes and planner, the walk and the minute
  tick, the batcher (`WF` of each);
- that the broker delivers what it holds and a subscriber's handler is called, that a publish ends
  by success or time-out, that a link, a session, a station or a server comes back (`WF`);
- `SF` where a chance recurs and is not held: a reading that is plausible (`SolarShell`: a sensor
  that never yields one gives nothing to correct by), a boot notification that is not rate-limited
  (`Pairing`), the mutex of a fetcher between two exchanges (`Rotation`).

## 6 What is proved

Eight modules; every theorem is for all values of the constants that the named assumptions allow.
The assumptions (`ConfigAssumption`, `EnvironmentAssumption`, `ShellAssumption`, `EvseAssumption`,
`RotationAssumption`, `CertAssumption`, `MigrateAssumption`, `ScenesAssumption`,
`CascadeAssumption`, `StackAssumption`, `OptimizerAssumption`, `AuthorsAssumption`,
`ChannelAssumption`, `SiteAssumption`, `DownlinkAssumption`, `SpoolAssumption`, `UplinkAssumption`, `AlarmAssumption`,
`SchedulerAssumption`, `WalkAssumption`, `CacheAssumption`, `EngineAssumption`, `IntentsAssumption`, `AxesAssumption` and those of `BreachEpisodes`) say what the configuration's defaults and validation guarantee: positive
timeouts, a backoff schedule that does not fall, a nameplate below the arbiter's infinity, finite
limits, a value for "none" that is no number. `ControlsAssumption` says that a curve set's id determines
its entries, which it does as it is their SHA-256 (`internal/bus/curves.go:57,116`). TLC evaluates each in a run.

| Module | Theorem | States |
|---|---|---|
| `ReconcilerProofs` | `TypeCorrect`, `StreamCorrect`, `EpisodesEarned`, `StandingWritten`, `StaleCorrect`, `PacingCorrect`, `AdvancedStaysTrue` | the five properties of `reconciler`, and its type invariant; `AdvancedStands` |
| `BatteryProofs` | `BatteryTypeCorrect`, `SessionIsCarried`, `NoteIsCurrent` | `SessionCarriesStanding`; the interlock judges by the standing intent |
| `DesiredChannel` | `NeverFallsBack`, `RecoveryIsSure` | `NoReplay`, `RecoversWithinHeartbeat` |
| `EdgeProofs` | `LimitIsInForce`, `StrangersAreKeptOut`, `UplinkIsClassQueue`, `RecordsAreAccounted` | `ProfileInForce`, `StrangersStayOut`, the refinement `IsClassQueue`, `NothingIsLost` |
| `HubProofs` | `BreachTypeCorrect`, `EpisodesEndWhenClear`, `BreachIsAnnouncedOnce`, `ConfigurationIsWhole`, `AnswersCanBeTrusted`, `IntentsTypeCorrect`, `InputsStayKept`, `PlansAreSound` | `EndsWhenAllClear`, `OneAlertPerBreach`, `ConfigIsWhole`, `AnswersAreHonest`, `InputsAreKept`, `PlanIsSound` |
| `AccessProofs` | `RotationCostsNothing`, `ExpiryIsNeverMissed`, `RecordStaysTrue`, `NoEdgeTwice`, `ControlsEndOnTime`, `TrackerNeverForgets` | `SessionsStand`, `ExpiryIsKnown`, `RecordIsTrue`, `ToldOnce`, `EndsOnTime`, `TrackerRemembers` |
| `SiteProofs` | `TightestCeilingHolds`, `LowerTiersNeverWiden`, `SetpointIsAllowed`, `DrainingPackIsCut`, `EveryCapIsHeld`, `LastingMissesAreReported`, `CommandsStayAccounted`, `JournalStaysWhole` | the arbiter's promises; `DrainIsCut`; `EveryAuthorHoldsCaps`; `EveryAuthorReports`; `CommandsAreAccounted`; `JournalIsWhole` |

**The core** (`CoreProofs`, lemmas only). `Sound` is `States`, `Timely` (no timer ahead of the
clock) and `Coherent` (an open episode has an applied document, a window of at least the timeout
and is not converged; a stale verdict is due). Each operation has a lemma on what its result
satisfies (`Good`, `Steady`), independent of who drives it; the proofs of `Reconciler`,
`BatteryShell` and `EvseShell` cite them. `ReconcilerProofs` adds `Paced`: within a window the
backoff cursor is at least the number of corrective writes and the last write at least as late as
the last corrective one, which a schedule that does not fall (`BackoffMonotone`) turns into the gap.

**The advanced shell** (`AdvancedStaysTrue`). That no document blends two controls needs it of every
copy on its way (`WrittenOfOne`) and that control and curves are each some control's
(`FromUtility`); the author writes only where the control names the curves it has, so they are that
control's (`BodyIsOfOne`). "A curve said to be adopted is in the registers" breaks when the session ends
and is mended by the reassert, which an axis makes only if its core has adopted a document: `Slices`
says that a commanded one has. A release leaves the content alone, so what it withdraws is the
statement: a document that asks for something else makes the axis pending, but the code compares
payloads and not what is asked of them; that a release never looks like a curve holds as a curve
without points is dropped before it is commanded (`ReactiveIsOne`, `CurveIsAsked`). That the curve is
switched on as well is not true of the code (section 7). The entry points take the axes one by one, a recursion: `OnlyOn` and `Kept` say
what one axis may do, `AxisStepDoes` that all four kinds of step keep to it, and `RunDoes` carries
it through the order by induction.

**Battery.** "An open session has been given the standing intent" fails between decision and
write. The invariant `CarriedUnlessDue` excuses exactly the stages of the mutex at which a write is
due, a pending reconnect and a write the interlock held; `BlankUntilTold` adds that without a
document nothing was asked for, which is why a reopened session is right before the first one.

**The channel.** The gate sees `seq` and `issuedAt` only, and `seq` goes back with a roll-back and
a restart. `Ordered` says that of what can still arrive (stored with the client, retained) against
what it can meet (retained, standing), neither stamp goes down as the order of firing goes up; it
needs that no stored number exceeds the one a roll-back would leave (`Floor`), which holds because
`harvestPending` reverts to the number of the failed document, not below those before it, and that
a restarted hub comes up with an empty store.

**Recovery** (`RecoveryIsSure`) reasons about calm seconds, those after the one of the last
disturbance. In one the client is connected, what it stores was fired in this second (`InFlight`),
and after a pass the document believed live has the intent's body and is younger than a heartbeat
(`Passed`). What was fired since the last disturbance is the newest document of all; it stands and is
retained, or it is the last one stored with a number above those before it, so the gate will take it
(`Arrives`). A roll-back is harmless because what it returns to is at most as young as the disturbance that
caused it (`HarvestRecovers`): a failure happens in a disturbed second, and an outcome that does not
turn up takes one too. One heartbeat later the live document can only have been fired since. That
a restarted consumer adopts it is where `2 * HeartbeatInterval <= StaleAfter` comes in.

**OCPP.** The profile at the station is the document's only together with two copies: the shell's
current and the core's standing fields (`CopiesAgree`); and a call given up has always spoilt the
last write (`LateIsSpoilt`), which is why nothing is claimed while it may still land. For pairing,
approval is the only way into memory and file, and every handler's verdict it has not used yet was
one (`OnlyTheApproved`).

**The uplink is a queue per class.** `UplinkIsClassQueue` maps every step of `Uplink` to a step of
`ClassQueue` or a stutter; a queue is what `Walk` reads from the cursor. Its invariant is
`SoundClass`: segments in the order of their numbers, all but the active one synced, the cursor
unset or in a segment that exists and, unless it is at the oldest record, not ahead of its file.
The last part is what recovery needs: a crash may leave a cursor file that is ahead, and then the
recovered walk is still a piece of the old one. `Walk`, the eviction loop and recovery are recursions
over the segments. The library's induction theorems take an operator and cannot be used, so
`EdgeProofs` first derives induction and recursion over sets (`Induction`, `Recursion`,
`SameCourse`) from the well-founded inclusion of the intervals `0..n`; from these follow the laws of
`Joined` (`JoinedAppend`, `JoinedSplit`), one lemma per operation on a class (`EvictOldestSound`,
`WrittenSound`, `CommittedSound`, `RecoveredSound`, ...), that the loop evicts from the least
important class only and ends with room or with nothing left to evict (`RoomMade`), and that
`pendingBytes` counts exactly the records the walk yields (`PendingIsWalk`).

**No record is lost** (`RecordsAreAccounted`). On top of `SoundClass` the invariant is `Account`. A
record has one place among the segments of all classes (`OnePlace`), so that a commit or an
eviction takes the one it means; segments and frame hold only what was appended once; and while an
acknowledged frame waits for its commit, whatever of it nothing else explains has arrived
(`FrameSettled`). Every operation then says which pending ids it takes and why: an eviction those
it counts, a commit those of the frame (`CommitTakes`), a crash those torn before a sync
(`RecoveredKeeps`: whatever is on disk and was pending is pending again, unless the cursor file is
ahead).

**Hub.** `HeardIsHeld`: a begin that the hub has heard is held as evidence under its device until
the same shell withdraws it. This needs `OneShellPerDevice`, the theorem's hypothesis: the code
keys evidence by device id alone, so two shells of one device overwrite each other (section 7).
`AnnouncedLasts` and `MeterDecides`: an undisturbed hub that announced a breach still holds it
open and its counter stands at the cap, so no pass announces it again. For files,
`WriteAlone` and `BootAlone` say who may be between the creation and the rename of a staged file,
by program counter; `Apart` is the code's assumption of one request per service at a time. An
answer is true by `HonestInv`: a result that is newer than the request was written by a oneshot
that started the service from what the request had renamed into place. That a migration keeps the
original (`KeepInv`) needs nothing of the requests.

**What the hub was told** (`InputsStayKept`). The invariants speak of what is on its way. Of the
goals on their way that the hub would apply (`GoodGoal`: in range, departure to come), the last says
what the user meant, or there is none and it is what stands already (`Leaves`, in `GoalArrives` and
`ModeKept`); so a rejected intent, a repeated delivery, a new session and a crash undo nothing, as
long as the topic retains a goal the hub would apply. A rejected intent replaces what the topic
retains although its handler changes nothing, and a departure may pass before the goal is read:
`lost` names the inputs that went this way, and they alone are excepted. A message whose id was
handled last is not applied again: that this is safe needs ids never to be given twice (`Numbered`)
and one that comes again to be about what it has set (`Remembered`). The engine has the standing
goal, accelerated while a charge-now runs, in its queue or its inputs (`GoalAdopted`, by what
`Applied` does with one command more), and the only revert that takes effect is the last
charge-now's, which knows that goal. Until the boot is sealed every valid mode and every status on
its way says the mode that was asked for, and a hub that listens has that mode already or a status
that will bring it (`OneVoice`); what is untimely or outruns the boot is excepted as in the property.

**The plan** (`PlansAreSound`). That no legal run of commands is cheaper compares the finished plan
with every run there could have been. `Bellman(R, k, d)` relates the two: the table `d` before step
`k` holds exactly the states that some run of `k` steps reaches, each with the least cost any of them
has. A step of the programme keeps that (`StepKeepsBellman`) because every move it leaves out is
illegal too (`CommandsAreLegal`) and a snapped transition is again a level (`CommandLeads`); and what
it records of a state leads there from a state at its least (`Cheapest`). The way back therefore
follows a cheapest run from a best end (`BestEnds`, `Trail`), and the intervals, which repeat the
sums of the programme, cost what the moves did (`KeptIsCheapest`, `BookedIs`). Envelope and energy
then follow from each booked move being legal. The tariff's runs of equal rate cover the hours, so
the model's rate at an hour is the cell's (`ModelIsExact`), whatever the label breaks. For the
schedule, `Lined` is the invariant of the merge: the line is disjoint and ordered, each piece of it is
what is left of one control, and a control that is newer than all it meets is in it whole
(`MergeKeeps`); filling the gaps keeps every piece (`FillKeeps`), and the slot over a whole step is the
last one that reaches it (`ConstraintIs`). Runs, merge and slots are recursions; what they compute is
found by the same induction (`Recursion`). Assumed of the inputs: that they have their types
(`SiteType`), that no two controls have one MRID, and what `PlannerAssumption` says of the grid, that
it is one of whole units.

**Access.** A client under an exchange is the one its fetcher holds (`NoFreedSessionInUse`) because
the swap takes the mutex; the next client was probed against the root of its time
(`NextAdmitted`), and a root moves only to one the sentinel allows. For certificates, `CheckedThen` says what a
status of a given day implies for a file that has not been replaced since; `DaysUntilBounds`
that rounding up never hides the last day. The record of what was PUT is true by `BatchHolds`: a
batch that is all right has left its rating wherever it has been, unless another ran beside it or
the server moved (`AloneUnlessBeside`, `KnowsServer`). The attempt showed that a move away and back
between two walks has to be excepted for longer than the model first did: the 404 learnt on the way
stays latched, since only another href clears it (`derreport.go:139-156`), and the batch that
follows records what one resource never got. An edge is told once since whatever was told is among
the keys seen (`ToldIsSeen`). That a control ends although nobody says so (`ControlsEndOnTime`) needs
the debounce's counter tied to the time gone by: `Counting` says every tick since the control was
over has been counted, and that the hub has let go when the count is full. `Over` is the later of
the control's end and the last message that repeated it: a message that arrives anchors the hub's
utility time at its own, so with a clock not set back the counting starts afresh and rightly.

**The tracker's memory** (`TrackerNeverForgets`). A call of the tracker is a run of steps, each a
POST and a line, and a crash may fall before or after either, so the invariant speaks of runs.
`RunSound` holds of every run so far: what the tracker and its log know of an event the server heard
of before (`MemKnown`, `StoredKnown`), the log follows the statuses and the episode (`LogSays`), and
every step on the way is one a restart could begin from (`SoundSteps`). `RunGood` adds what holds
only between two calls: the log's alerts are the acknowledged ones, which `ClearAlerts` breaks
between forgetting and its line, and the episode is the active event's. Every operation takes a
good run to a good one that the server has heard no less of (`Goes`); for the first pass, which
recurs over the events, that goes by induction, and yields that every listed event that is not
cancelled has been greeted (`Pass1Sound`), which is why the one that starts next has. The control in
force is such an event or one that was in force before (`EvaluatedKnown`).

**Site.** `DrainInv`: the observer's count of drain misses never exceeds the counter of the author
in charge (`g` for the cascade, `gate` for the gateway's stack), and a count of `Ticks` means the
contactor is open. The lemmas carry the counter through the cascade's rules, through each
constraint and the stack's pass (`SafetyCounts`, `CascadeCounts`, `ComplianceSpeaks`,
`CompliedPasses`, `EmittedCounts`), and show that composing plans never closes what safety opened
(`CandidateNeverCloses`): a candidate's connect opinion is battery safety's or nobody's.

**Caps** (`EveryCapIsHeld`). An unset ceiling and the release to full output are values beside the
numbers, so what has to be shown first is that a ceiling in force is a number at all: `Typed` says of
a pass, and `Levers` of the guards, which quantities are numbers and which are never negative, and
every rule keeps it (`Keeps`), from the measurements (`SiteNumbers`) through the integrator of the
export ceiling (`CeilingIsAmount`) to the standing intents (`MergedStands`). The export rule caps an
inverter in sight at its rating and the two generation rules only lower what they find (`ExportCaps`,
`GenCaps`, `AusGenCaps`), so the restore pass finds nothing to release while a cap is in force
(`BackstopHolds`). In a stack the three constraints demand those ceilings, `TightestCeilingHolds` and
`ClampStaysWithin` carry them through the arbiter (`ResolvedHolds`), and what is emitted
under a demanded ceiling is a number below it (`EmittedCeiling`). Composing takes the axis from one
or the other. The hypothesis, `CapsAreWired`, is that wherever an axis may come from the candidate,
its stack was wired with the three constraints on generation; without it a cap can be lost
(section 7).

**Reports** (`LastingMissesAreReported`). An observer counts, per kind of miss, the ticks in a row
on which the author in charge saw it; each author keeps five such counts of its own (`Book`), with
the limit each is kept of. The invariant `ReportInv` says that the author in charge is `Ahead`: its
book is of the observer's limit and has counted at least as much. It is inductive because a check
raises its count on every tick that sees the miss and speaks at `Ticks` (`Answers`), a meter that
says nothing leaves the counts that need it, and no later rule takes a report back or touches
another's book (`Moves`, `Progress`). The levers of import and load open a session for a new limit
before the check reads it, so for these the check is shown of what the lever leaves. In a stack each
constraint answers as its rule does (`Hears`), and a pass keeps the worse of two reports
(`Listened`, `WorseStays`). While a candidate runs beside the cascade both are ahead: the composed
report is the candidate's (`ComposedReports`), and a candidate that panics hands over to a cascade
that has counted along. The hypothesis, `ReportsAreWired`, is
that a stack from which any axis is taken was wired with all five limits (it implies
`CapsAreWired`): the report goes with the axes, and one constraint alone would silence the
cascade's other four checks (section 7).

**Those who ask from outside.** "At most `Burst` and one per refill over any stretch" says nothing
of the bucket, so it is not inductive. `Spending` relates the two: what the bucket still holds plus
all that was taken since any admission fits in a full bucket plus what has dripped in since; the
brim in `tokenBucket.allow` can only lower the left side. Full buckets after a restart come with an
empty history, so the bound is one on a process's life. The journal of commands buffers: a line
waits for the batch to fill or for the next line to find it old, an `Append` may be refused and its
error is discarded, and a crash or a failed write takes the buffer. `AuditInv` says of the hub's
input and of the forward under way that every id is the app's or entered the record first, as
synced, waiting, refused or dropped; `RecordInv` that what waits and was not refused is less than a
batch, so that `cuts` losses cost at most `cuts * (SyncEvery - 1)` lines that had been taken
(`CutAfter` moves a part of the buffer to the disk and the rest to `dropped`). A request is expected or its result is there, never both,
for as long as its caller waits (`RepliesInv`).

**The audit record** (`JournalStaysWhole`). The invariant `Kept` reads the rotated files, the active
one and the buffer as one line of events: each is in order and older than the next
(`FilesInOrder`). A rotation broken off after any of its renames keeps that, since a file is where it
was or one further and only the last one's place is ever taken; a half line is no event and keeps
its place. `Holes` are the synced events that are gone while older ones are still held. Rotation
makes none, as it takes the oldest file; a half line does, when the newline that closes it was
refused, for the first line behind it lands in it and both are scrap, whatever the sync said.
`HolesAreFew` counts these: the holes there are, and one more while a half line lies open at the end
of the file (`Due`), are at most the newlines refused (`refused`), so that a refusal costs one event
and never those behind it. The flash budget needs that the writer's count of the file's size is
never too low (`SizesKept`), after a refused write too.

Model-checked only, and why:

- liveness under fairness is out of this prover's reach: `UnsafeEnds`, `CapObeyed`, `OcppSettles`,
  `SiteComesToRest`, `HubSettles`, `NorthboundSettles`, `UtilityIsToldTheTruth`, `CloudSettles`,
  `ControlReachesDevice`;
- not attempted yet: `OnlyForCause`.

## 7 Findings and observations

One statement of the code's comments is refuted by a run. `battery_shell_restore`: "while a pack
is tripped, the reconciler must NOT issue a connect-restoring write"
(`cmd/modbus/interlock.go:93-95`), but `applyActionLocked` asks `isTripped` and writes afterwards
without the interlock's mutex, and `check` disconnects before it records the trip. The next poll
trips the pack again (`UnsafeEnds`).

The models also show, and the properties' conditions leave out, what no run is about.

On the devices:

- A curve that is still in the registers but switched off is never switched on again. `DisableFunc`
  writes the enable point alone (`reconcile_adv.go:416-424`), and adoption enables in its last step
  (`derbase.go:495-510`), so a release, or an adoption whose last write failed, leaves the points in
  place. The next command of the same curve finds them, is skipped as already present and reported
  adopted (`reconcile_adv.go:1597-1603`), although the shell is to converge "the device's PROVISIONED
  state" (`:1-8`). `Stranded` is this case; `ControlReachesDevice` holds but for it.
- A write the interlock suppressed is not repeated when the trip clears (`reconcile_shell.go:294`);
  a sample older than a charge command trips a pack that obeyed (`interlock.go:132`).
- A solar release equal to the seed counts as a refresh and is not written (`reconcile_solar.go:204`);
  a cease without a later connect opinion never ends.

At the hub:

- A rejected or expired intent replaces the one its topic retains (`intent.go:238-262,292-300`), so
  the goal or reserve adopted before is gone after a restart (`lost` in `Intents`).
- Two shells of one device share one evidence entry (`breach.go:263`); the onset counter is not
  restored with the episode (`breach.go:312`); alerts of two goroutines may be published in the
  other order than decided (`main.go:570`).
- `constraint_modes` that make some constraints active and leave others off can lose a cap in the
  composed plan: with `export` active and `gen` off the candidate's axis is taken and knows no
  output cap (`cmd/hub/config.go:170-193`, `shadow.go:655-678`); in such mixes one breach of two
  may be dropped, and the cascade's checks keep the first breach, not the worst (`shadow.go:757-800`).
- The import rule adds the discharge a charging pack has left to what is committed, so its setpoint
  may exceed `MaxDischargeW` (`optimizer.go:2582-2600`, `model.go:92-100`).
- In the merge of the schedule a newer event cuts an older one off where it starts; what the older
  one had left after it is not taken up again (`schedule.go:286-298`).
- A restart's result of the second of the request, or of a batch under way when it was made, may
  answer it, and names appended to that batch are removed with it (excepted in `AnswersAreHonest`).

Towards the utility:

- Overlapping batches of capability and settings: with the PUTs in the order capability 2,
  capability 1, settings 1, record 1, settings 2, record 2, the server is left with capability 1 while
  report 2 is on record and nothing repeats it (`derreport.go:173-196`). `RecordIsTrue` excepts
  batches that ran beside another, and no property says that capability and settings converge.
- Where the debounce is shorter than the walk's interval one misstated server time ends a control,
  although "one forward-poisoned or transiently-glitched serverNow cannot drop an active control"
  (`scheduler.go:172-176`); it is an accepted cause in `OnlyForCause`. A retained control that cannot
  be decoded is asked for again; a default control garbled at the server is left out.
- Response statuses may follow a terminal one after a prune (`tracker.go:305`).

Towards the cloud, and the disk:

- The line that records a command waits in the journal's buffer for the batch to fill or for the next
  line to find it old, since cloudlink never calls `Flush`; `Append`'s error is discarded
  (`downlink.go:380-385`), and after one failed write the buffer refuses everything until a restart.
  The command is forwarded all the same, under a comment that says "Journal BEFORE the forwarding
  publish" (`:376-379`); the test of that order flushes every line.
- A half line whose closing newline is refused swallows the next event, synced or not
  (`journal.go:248-263`; `Holes` in `Journal`).
- Three gaps of the spool, excepted in `NothingIsLost`: a commit consumes from wherever the cursor is
  by then, so records are skipped when eviction moved it since the peek (`skipped`); a frame sent
  again under its old number with other records is taken by the cloud for a repetition
  (`repeated`); a cursor file that is ahead of what a crash left hides the records before it
  (`forgotten`).
- A downlink subscription lost while paho counts as connected is not renewed
  (`downlink.go:488-497`; `deaf` in `CloudSettles`).

## 8 What is not modelled

- Shadow mode of the shells, metrics, log lines, formatting: no property is about them.
- Register encoding, the monotonic Wh gate, Modbus and OCPP framing, XML and TLS: I/O.
- Solar documents with a Connect opinion (they suspend assessment, as in the battery shell).
- BatteryShell: the registry's poll goroutine, its channel of 64 that drops when it is full, and the
  goroutine that publishes are one step, `Read` (`registry.go:126-128,184-218`,
  `cmd/modbus/main.go:440-498`); a dropped sample is a poll that did not happen.
- EvseShell: setpoints in watts that ask a car to discharge, which core and bridge clamp to 0
  (`cmd/ocpp/reconcile_shell.go:250-263`, `cmd/ocpp/main.go:679-686`).
- Cascade: the `Energized` flag, a second way for a pack to be out of reach beside `Connected`, which
  keeps it from being dispatched (`optimizer.go:1053,2103,2195`, `model.go:96-101`).
- Planner: one efficiency for battery and car, inputs taken and planned in one step, forecasts as
  inputs, `withDefaults` and the total of the costs left out.
- SiteReport: one battery, metrics travel with the sample, retained delivery and handler in one
  step; a walk's hrefs and its PUTs of status and availability are one step, without the skip after
  404 or 405, which for these two costs nothing but the attempt (`derreport.go:269-275`).
  AlarmEvents: one bit of one device.
- Commission: the time of the request and its file are one step (`configwrite.go:278-280`), and a
  request file that cannot be written, which is answered at once (`:209-230`), is left out.
- Spool: what is found at open counts as synced, although `Open` does not sync it and closed segments
  are not synced again (`internal/spool/internal.go:238-247`); a second power cut before the disk has
  written it back would take more.
- Powers in `Cascade` are small integers, so the code's noise bands of 50 W and 100 W fall between
  two units and quotients are rounded; sites have one device of each kind.
- Polling of the OpenADR VTN, flow reservation, read-only API handlers, provisioning, tools and
  telemetry: little protocol state. The settings file: read and written whole.

## 9 Plan

Modelled: all components of section 1. Next proof: that a control goes only for a cause
(`OnlyForCause`).
