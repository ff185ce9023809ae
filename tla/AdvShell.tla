------------------------------ MODULE AdvShell ------------------------------
(***************************************************************************)
(* The advanced-function shell of one device in lexa-modbus                *)
(* (cmd/modbus/reconcile_adv.go): one reconciler per axis, each axis       *)
(* executed as its kind asks.  A curve is written, activated and read      *)
(* back; a fixed power factor or reactive power is judged by what the      *)
(* device delivers; a function no longer asked for is verified to be off;  *)
(* and a protective function nobody commands is left alone.                *)
(*                                                                         *)
(* An axis has a content, a small number, and an enable point beside it:   *)
(* switching a function off leaves its content where it is.  The readback  *)
(* hash is the content itself, since a match and a mismatch are all it     *)
(* tells.  A power factor carries its excitation as its sign.              *)
(* Shadow mode, which only records, is left out, as are the reports, whose *)
(* way to the hub is BreachEpisodes' subject.                               *)
(***************************************************************************)
EXTENDS ReconcilerCore, AdvAuthor

CONSTANTS
    AxisOrder,          \* advAxisOrder: the axes of the model, in this order
    Factory,            \* what a device carries after a power cycle,
    FactoryOn,          \* and which of its functions are enabled
    Coarse,             \* contents no register of the device can represent
    Unity,              \* |power factor| of a device nobody asked for one
    MaxEventsAdv,       \* generation -> bound on its faults, restarts and
                        \* commands, none of
    LastEventAdv,       \* which is after this time
    MaxTimeAdv          \* bound on the clock: room for a reassert after it

VARIABLES
    runners,            \* axis -> its reconciler
    target,             \* axis -> its slice of the standing document
    adopt,              \* axis -> adoption state, "" when nothing is in force
    caps,               \* "unknown", "known", or "unrated": no reactive rating
    reconnecting,       \* reconnectPending
    sample,             \* a poll's measurements on their way, or NoSample
    dev,                \* axis -> content in the device's registers
    on,                 \* axis -> the function is enabled
    gen,                \* derGen
    link,               \* the session is open
    sick,               \* the axis that misbehaves, or "none"
    how,                \* "refuses": error; "ignores": accepted, no effect;
                        \* "halves": a curve is adopted, its enabling refused
    unrated,            \* reading the rating fails
    lit,                \* the device has something to generate
    tripped,            \* the interlock holds the device disconnected
    got,                \* the document last delivered to the shell
    standing,           \* ghost: the body of the document adopted
    events              \* faults, restarts and commands so far

Axes == {AxisOrder[i] : i \in DOMAIN AxisOrder}

ASSUME AxesAssumption ==
    /\ AxisOrder \in Seq({"volt_var", "watt_var", "fixed_pf", "fixed_var", "trip_lv",
                         "energize"})
    /\ DOMAIN Factory = Axes /\ FactoryOn \in [Axes -> BOOLEAN]

Curves == {"volt_var", "watt_var", "trip_lv"} \cap Axes
Measured == {"fixed_pf", "fixed_var", "energize"} \cap Axes
Releasable == {"volt_var", "watt_var", "fixed_pf", "fixed_var"} \cap Axes

shellVars == <<runners, target, adopt, caps, reconnecting, got, standing>>
plantVars == <<dev, on, link, sick, how, unrated, lit, tripped>>
hubVars == <<walkVars, authorVars>>
advVars == <<minute, hubVars, shellVars, sample, plantVars, gen, events>>

NoSample == [pf |-> -1]
NoBody == [reactive |-> NoMode]
Content(v) == [f \in {"content"} |-> v]
Sample(v) == [read |-> Content(v), connected |-> TRUE, plausible |-> TRUE,
              finite |-> TRUE]

\* The shell's state as a value, for the helpers below: what they change.
Shell == [r |-> runners, adopt |-> adopt, dev |-> dev, on |-> on, caps |-> caps]
-----------------------------------------------------------------------------
(* advAxisTargets.                                                         *)

Engaged(v) == [kind |-> "engaged", fields |-> Content(v)]
Release == [kind |-> "release", fields |-> Content(0)]
NoOpinionOn == [kind |-> "none", fields |-> NoOpinion]

\* Mutant: only the reactive mode that is asked for has an opinion.
MutTarget(body, axis) ==
    CASE axis \in Releasable -> IF body.reactive.kind = axis
                                THEN Engaged(body.reactive.value) ELSE NoOpinionOn
      [] axis = "trip_lv"    -> IF body.trip > 0 THEN Engaged(body.trip)
                                ELSE NoOpinionOn
      [] axis = "energize"   -> IF body.energize >= 0 THEN Engaged(body.energize)
                                ELSE NoOpinionOn

Target(body, axis) ==
    CASE axis \in Releasable -> IF body.reactive.kind = axis
                                THEN Engaged(body.reactive.value) ELSE Release
      [] axis = "trip_lv"    -> IF body.trip > 0 THEN Engaged(body.trip)
                                ELSE NoOpinionOn
      [] axis = "energize"   -> IF body.energize >= 0 THEN Engaged(body.energize)
                                ELSE NoOpinionOn

Value(t) == t.fields["content"]

\* axisSupported: legacy devices execute the fixed modes only.
Supported(axis) ==
    CASE gen = "7xx" -> TRUE
      [] gen = "12x" -> axis \in {"fixed_pf", "fixed_var"}
      [] OTHER       -> FALSE
-----------------------------------------------------------------------------
(* The device, reached through retryDevice.advanced.                        *)

\* A call that reports an error.
Fails(axis) == ~link \/ (sick = axis /\ how # "ignores")

\* What a call leaves in the device; one it refuses or ignores leaves nothing.
\* A fixed mode is written with its enable point.
Written(s, axis, v) ==
    IF sick = axis THEN s
    ELSE [s EXCEPT !.dev[axis] = v, !.on[axis] = TRUE]

\* A curve is converted to registers, whose scale may not reach its points.
Staged(v) == IF v \in Coarse THEN -v ELSE v

\* adoptCurve (derbase): stage and adopt, then enable; a failure between the
\* two leaves the curve in force of a function that is as it was.
AdoptCurve(s, axis, v) ==
    IF ~link \/ (sick = axis /\ how # "halves") THEN s
    ELSE [s EXCEPT !.dev[axis] = Staged(v), !.on[axis] = @ \/ sick # axis]

\* DisableFunc, Disable12x: the enable point alone.
Disabled(s, axis) == [s EXCEPT !.on[axis] = @ /\ sick = axis]

\* The content of the registers in the document's terms: the readback hash is
\* over the points, whether the function is enabled or not.
Readback(s, axis) == s.dev[axis]

\* capsLocked: fetched once per session; a rating that cannot be read is cached
\* as unknown with the rest.
Fetched(s) ==
    IF s.caps # "unknown" \/ ~link THEN s
    ELSE [s EXCEPT !.caps = IF unrated THEN "unrated" ELSE "known"]
-----------------------------------------------------------------------------
(* Execution of one Write action.                                          *)

\* feedExecLocked: the verification is an observation whose own corrective
\* write is discarded, although it advances the backoff.
Fed(s, axis, v) ==
    [s EXCEPT !.r[axis] =
        Observe(s.r[axis], Sample(v), minute).r]

Transition(s, axis, state) == [s EXCEPT !.adopt[axis] = state]

Verdict(s, axis, v, state) == Transition(Fed(s, axis, v), axis, state)

\* executeCurveLocked, executeTripLocked: skip on a match of the points, which
\* enables nothing; else write and read back, and what it shows is adopted.
ExecuteCurve(s, axis, want) ==
    LET w == AdoptCurve(s, axis, want)
    IN  IF link /\ Readback(s, axis) = want THEN Verdict(s, axis, want, "adopted")
        ELSE IF Fails(axis) THEN Verdict(w, axis, want + 1, "failed")
        ELSE IF Readback(w, axis) = want THEN Verdict(w, axis, want, "adopted")
        ELSE Verdict(w, axis, want + 1, "diverged")

\* executeReleaseLocked: a failed verification is not fed, a failed disable is.
ExecuteRelease(s, axis) ==
    LET w == Disabled(s, axis)
    IN  IF ~link THEN s
        ELSE IF ~s.on[axis] THEN Verdict(s, axis, 0, "")
        ELSE IF w.on[axis] THEN Fed(w, axis, 1)
        ELSE Verdict(w, axis, 0, "")

\* recordMeasuredWriteLocked: a write is never evidence.
ExecuteMeasured(s, axis, want) ==
    IF Fails(axis) THEN Transition(s, axis, "failed")
    ELSE LET w == Written(s, axis, want)
         IN  IF s.adopt[axis] \in {"adopted", "diverged"} THEN w
             ELSE Transition(w, axis, "pending")

\* The interlock outranks a write that would energize the device.
Suppressed(axis, want) == axis = "energize" /\ want = 1 /\ tripped

Execute(s0, axis, t) ==
    LET s == Fetched(s0)
    IN  IF t.kind = "none" \/ s.caps = "unknown" THEN s
        ELSE IF t.kind = "release"
        THEN IF Supported(axis) THEN ExecuteRelease(s, axis)
             ELSE Verdict(s, axis, 0, "")
        ELSE IF ~Supported(axis) THEN Transition(s, axis, "unsupported")
        ELSE IF Suppressed(axis, Value(t)) THEN s
        ELSE IF axis \in Curves THEN ExecuteCurve(s, axis, Value(t))
        ELSE ExecuteMeasured(s, axis, Value(t))

\* Every entry point takes the axes in order; step(s, axis) is one of them.
InOrder(s, step(_, _)) ==
    LET f[i \in 0..Len(AxisOrder)] ==
            IF i = 0 THEN s
            ELSE CHOOSE t \in {step(u, AxisOrder[i]) : u \in {f[i - 1]}} : TRUE
    IN  f[Len(AxisOrder)]

\* The outcome of a core operation: its state, and its write if it has one.
Handled(s, axis, outcome, t) ==
    LET o == [s EXCEPT !.r[axis] = outcome.r]
    IN  IF outcome.write = NoWrite THEN o ELSE Execute(o, axis, t)

Becomes(s) ==
    /\ runners' = s.r /\ adopt' = s.adopt /\ caps' = s.caps
    /\ dev' = s.dev /\ on' = s.on
-----------------------------------------------------------------------------
(* setDesired, observe, tick.                                              *)

\* A commanded axis whose content is new is pending until verified.
Pending(axis, t) ==
    IF t.kind = "engaged" /\ t.fields # target[axis].fields THEN "pending"
    ELSE adopt[axis]

\* The document is refused by every axis or by none; every payload is adopted
\* before the first write.
SetDesiredAdv(doc) ==
    LET t == [x \in Axes |-> Target(doc.body, x)]
        d == [x \in Axes |->
                [mrid |-> NoMRID, seq |-> doc.seq, issuedAt |-> doc.issuedAt,
                 fields |-> t[x].fields, finite |-> TRUE]]
        out == [x \in Axes |-> SetDesired(runners[x], d[x], minute)]
        adopted == [Shell EXCEPT !.adopt = [x \in Axes |-> Pending(x, t[x])]]
        Step(s, x) == Handled(s, x, out[x], t[x])
    IN  IF \A x \in Axes : Accepts(runners[x], d[x], minute)
        THEN /\ Becomes(InOrder(adopted, Step))
             /\ target' = t
             /\ standing' = doc.body
        ELSE UNCHANGED <<runners, target, adopt, dev, on, caps, standing>>

\* What the device delivers, and what the shell makes of it.
Producing == lit /\ dev["energize"] = 1 /\ ~tripped
Sign(v) == IF v < 0 THEN -1 ELSE IF v > 0 THEN 1 ELSE 0
Magnitude(v) == v * Sign(v)

\* The fixed mode at work: 0 when it is switched off.
Fixed(axis) == IF on[axis] THEN dev[axis] ELSE 0

Measure ==
    [pf   |-> IF Fixed("fixed_pf") # 0 THEN Magnitude(Fixed("fixed_pf")) ELSE Unity,
     var  |-> IF ~Producing THEN 0
              ELSE IF Fixed("fixed_var") # 0 THEN Fixed("fixed_var")
              ELSE Sign(Fixed("fixed_pf")),
     flows |-> Producing,
     connected |-> dev["energize"] = 1 /\ ~tripped]

Hold == "hold"
Judged(read, verdict) == [read |-> read, verdict |-> verdict]
Unassessed == Judged(0, Hold)

\* A measured power factor has no sign: the reactive power tells the direction.
JudgePF(m, want) ==
    IF ~m.flows THEN Unassessed
    ELSE IF m.pf # Magnitude(want)
    THEN Judged(m.pf * Sign(want), "diverged")
    ELSE IF m.var # 0 /\ Sign(m.var) # Sign(want)
    THEN Judged(m.pf * Sign(m.var), "diverged")
    ELSE Judged(want, "adopted")

JudgeVar(m, want, rating) ==
    IF rating # "known" THEN Unassessed
    ELSE Judged(m.var, IF m.var = want THEN "adopted" ELSE "diverged")

\* One-sided when the device may run: not running is never evidence.
JudgeEnergize(m, want) ==
    IF want = 0
    THEN IF m.connected /\ m.flows THEN Judged(1, "diverged")
         ELSE Judged(0, "adopted")
    ELSE IF m.connected \/ m.flows THEN Judged(1, "adopted") ELSE Unassessed

\* synthesizeLocked.
Synthesize(axis, m, want, rating) ==
    CASE axis = "fixed_pf"  -> JudgePF(m, want)
      [] axis = "fixed_var" -> JudgeVar(m, want, rating)
      [] axis = "energize"  -> JudgeEnergize(m, want)

\* A reopened session reasserts every axis and asks for the capabilities anew.
Reasserted(s, axis) == Handled(s, axis, Reconnected(s.r[axis], minute), target[axis])

AfterReconnect ==
    IF reconnecting THEN InOrder([Shell EXCEPT !.caps = "unknown"], Reasserted)
    ELSE Shell

Assessed(s0, axis, m) ==
    LET t == target[axis]
        s == IF axis = "fixed_var" THEN Fetched(s0) ELSE s0
        j == Synthesize(axis, m, Value(t), s.caps)
    IN  IF axis \notin Measured \/ t.kind # "engaged" THEN s0
        ELSE IF j.verdict = Hold THEN s
        ELSE Handled(Transition(s, axis, j.verdict), axis,
                     Observe(s.r[axis], Sample(j.read), minute), t)

Observed(m) ==
    LET Judge(s, axis) == Assessed(s, axis, m)
    IN  Becomes(InOrder(AfterReconnect, Judge)) /\ reconnecting' = FALSE

\* A poll's measurements are judged at once ...
ObserveAdv ==
    /\ link /\ Observed(Measure)
    /\ UNCHANGED <<minute, hubVars, target, got, standing, sample, link, sick, how,
                   unrated, lit, tripped, gen, events>>

\* ... or after what came between: a document, a reconnect, a restart.
ObserveLate ==
    /\ sample # NoSample /\ sample' = NoSample
    /\ Observed(sample)
    /\ UNCHANGED <<minute, hubVars, target, got, standing, link, sick, how,
                   unrated, lit, tripped, gen, events>>

\* tick: once a minute, the unit of the clock.
Ticked(s, axis) == Handled(s, axis, Tick(s.r[axis], minute + 1), target[axis])

\* The retained document reaches the shell.
ReceiveAdv ==
    /\ retainedAdv # NoDocument /\ got # retainedAdv
    /\ got' = retainedAdv
    /\ SetDesiredAdv(retainedAdv)
    /\ UNCHANGED <<minute, hubVars, reconnecting, sample, link, sick, how,
                   unrated, lit, tripped, gen, events>>

\* The process starts again: runners, payloads and capabilities are lost.
NoTarget == [kind |-> "none", fields |-> NoOpinion]
FreshShell ==
    /\ runners' = [x \in Axes |-> New] /\ target' = [x \in Axes |-> NoTarget]
    /\ adopt' = [x \in Axes |-> ""] /\ caps' = "unknown"
    /\ reconnecting' = FALSE /\ got' = NoDocument /\ standing' = NoBody
    /\ sample' = NoSample
-----------------------------------------------------------------------------
(* The device, the session and the clock.                                   *)

Event == minute <= LastEventAdv /\ events < MaxEventsAdv[gen] /\ events' = events + 1

Delayed ==
    /\ Event /\ link /\ sample = NoSample
    /\ sample' = Measure
    /\ UNCHANGED <<minute, hubVars, shellVars, plantVars, gen>>

\* retryDevice opens the session again and marks the shell.
Reopens ==
    /\ ~link
    /\ link' = TRUE /\ reconnecting' = TRUE
    /\ UNCHANGED <<minute, hubVars, runners, target, adopt, caps, got, standing, sample,
                   dev, on, sick, how, unrated, lit, tripped, gen, events>>

Drops ==
    /\ Event /\ link /\ link' = FALSE
    /\ UNCHANGED <<minute, hubVars, shellVars, sample, dev, on, sick, how, unrated,
                   lit, tripped, gen>>

\* A power cycle ends the session and leaves the factory settings.
Reboots ==
    /\ Event /\ link /\ link' = FALSE
    /\ dev' = Factory /\ on' = FactoryOn
    /\ UNCHANGED <<minute, hubVars, shellVars, sample, sick, how, unrated, lit,
                   tripped, gen>>

Sickens ==
    /\ Event /\ sick = "none"
    /\ sick' \in Axes /\ how' \in {"refuses", "ignores", "halves"}
    /\ UNCHANGED <<minute, hubVars, shellVars, sample, dev, on, link, unrated, lit,
                   tripped, gen>>

Heals ==
    /\ sick # "none" /\ sick' = "none" /\ how' = "refuses"
    /\ UNCHANGED <<minute, hubVars, shellVars, sample, dev, on, link, unrated, lit,
                   tripped, gen, events>>

\* The interlock trips and, with the fault gone, lets go.
Trips ==
    /\ Event /\ ~tripped /\ tripped' = TRUE
    /\ UNCHANGED <<minute, hubVars, shellVars, sample, dev, on, link, sick, how,
                   unrated, lit, gen>>

Clears ==
    /\ tripped /\ tripped' = FALSE
    /\ UNCHANGED <<minute, hubVars, shellVars, sample, dev, on, link, sick, how,
                   unrated, lit, gen, events>>

\* Night falls; the rating points cannot be read.
Darkens ==
    /\ Event /\ lit /\ lit' = FALSE
    /\ UNCHANGED <<minute, hubVars, shellVars, sample, dev, on, link, sick, how,
                   unrated, tripped, gen>>

Unrates ==
    /\ Event /\ ~unrated /\ unrated' = TRUE
    /\ UNCHANGED <<minute, hubVars, shellVars, sample, dev, on, link, sick, how,
                   lit, tripped, gen>>

ShellRestarts ==
    /\ Event /\ FreshShell
    /\ UNCHANGED <<minute, hubVars, plantVars, gen>>

Others == UNCHANGED <<minute, shellVars, sample, plantVars, gen>>

Commanded == Event /\ \E c \in Controls : Commands(c) /\ Others

Walk ==
    \E sent \in BOOLEAN, out \in {"sent", "lost", "late"} :
        /\ IF sent /\ out = "sent" THEN UNCHANGED events ELSE Event
        /\ WalkPublishes(sent, out)
        /\ Others

Author ==
    /\ OnControl(gen) \/ OnCurves(gen) \/ Evaluate(gen) \/ Reaches
    /\ Others /\ UNCHANGED events

Disturbed ==
    /\ Event
    /\ Refused \/ GivenUp \/ HubRestarts
    /\ Others

\* The disturbances are over, those of the plant included.
Calm == link /\ sick = "none" /\ ~tripped

Pass ==
    /\ minute < MaxTimeAdv
    /\ minute >= LastEventAdv => Calm
    /\ minute' = minute + 1
    /\ Becomes(InOrder(Shell, Ticked))
    /\ UNCHANGED <<hubVars, target, reconnecting, got, standing, sample, link,
                   sick, how, unrated, lit, tripped, gen, events>>

InitAdv ==
    /\ minute = 1 /\ events = 0
    /\ InitAuthor
    /\ runners = [x \in Axes |-> New] /\ target = [x \in Axes |-> NoTarget]
    /\ adopt = [x \in Axes |-> ""] /\ caps = "unknown"
    /\ reconnecting = FALSE /\ got = NoDocument /\ standing = NoBody
    /\ sample = NoSample /\ dev = Factory /\ on = FactoryOn
    /\ gen \in DOMAIN MaxEventsAdv /\ unrated = FALSE /\ lit = TRUE
    /\ link = TRUE /\ sick = "none" /\ how = "refuses" /\ tripped = FALSE

NextAdv ==
    \/ Author \/ Walk \/ Commanded \/ Disturbed
    \/ ReceiveAdv \/ ObserveAdv \/ ObserveLate \/ Delayed \/ ShellRestarts
    \/ Reopens \/ Drops \/ Reboots \/ Sickens \/ Heals \/ Trips \/ Clears
    \/ Darkens \/ Unrates \/ Pass

\* Walks, the author's ticker, the poll and the shell's ticker are loops; a
\* dropped session is reopened and the plant's faults end.
FairAdv ==
    /\ WF_walkVars(WalkPublishes(TRUE, "sent"))
    /\ WF_seen(seen.control # onBus.control /\ seen' = [seen EXCEPT !.control = onBus.control])
    /\ WF_seen(seen.curves # onBus.curves /\ seen' = [seen EXCEPT !.curves = onBus.curves])
    /\ WF_authorVars(Evaluate(gen))
    /\ WF_wire(wire # <<>> /\ wire' = Tail(wire))
    /\ WF_got(got # retainedAdv /\ got' = retainedAdv)
    /\ WF_reconnecting(link /\ reconnecting /\ reconnecting' = FALSE)
    /\ WF_sample(sample # NoSample /\ sample' = NoSample)
    /\ WF_link(~link /\ link' = TRUE)
    /\ WF_sick(sick # "none" /\ sick' = "none")
    /\ WF_tripped(tripped /\ tripped' = FALSE)
    /\ WF_minute(minute < MaxTimeAdv /\ minute' = minute + 1)

SpecAdv == InitAdv /\ [][NextAdv]_advVars /\ FairAdv
-----------------------------------------------------------------------------
(* Properties.                                                              *)

\* The document of one control, as the author would write it with its curves.
BodyOf(c) ==
    DeviceDoc(gen, SiteAxes(c.control,
                            IF c.control.set = "" THEN NoEntries
                            ELSE c.curves.entries))

\* The device is never commanded a blend of two controls: control and curves
\* travel on two topics, and the standing document is always that of one
\* control with its own curves.
OneControlStands ==
    standing # NoBody => \E c \in Controls : standing = BodyOf(c)

\* A curve or trip set reported as adopted is in the device's registers:
\* through refusals, half adoptions, ignored writes and reboots, the report is
\* the readback's, until the session it was verified in ends.
AdoptedIsLoaded ==
    \A x \in Curves :
        adopt[x] = "adopted" /\ target[x].kind = "engaged" /\ link /\ ~reconnecting
            => dev[x] = Value(target[x])

\* What stands is one control's, and what is said of it is so.
AdvancedStands == OneControlStands /\ AdoptedIsLoaded

\* A walk, publication and execution later, the device carries what the
\* utility's control asks of it, switched on, and nothing else: the losing
\* reactive modes are off.
At(x, want) == IF want = Nil THEN ~on[x] ELSE on[x] /\ dev[x] = Staged(want)

InForce(x) ==
    LET body == BodyOf(utility)
    IN  Supported(x) =>
            CASE x \in Releasable ->
                    At(x, IF body.reactive.kind = x THEN body.reactive.value ELSE Nil)
              [] x = "trip_lv"  -> body.trip # Nil => At(x, body.trip)
              [] x = "energize" -> body.energize # Nil => dev[x] = body.energize

\* Not so while lexa-northbound takes a curve set for published that another,
\* delivered late, has replaced.
Overtaken ==
    lastHash = utility.curves.set /\ onBus.curves # utility.curves

\* Nor for a curve that is commanded while the device still holds it from
\* before, switched off by a release or by an adoption that broke off: its
\* points match, the skip reports it adopted, and nothing enables it.
Stranded(x) ==
    /\ x \in Curves /\ target[x].kind = "engaged"
    /\ dev[x] = Value(target[x]) /\ ~on[x]

ControlReachesDevice ==
    \A x \in Axes : <>[]InForce(x) \/ []<>Overtaken \/ []<>Stranded(x)
=============================================================================
