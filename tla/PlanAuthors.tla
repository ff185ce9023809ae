---------------------------- MODULE PlanAuthors -----------------------------
(***************************************************************************)
(* The authors of the hub's plan in closed loop with their site:           *)
(* the mode manager (cmd/hub/mode.go) routes an economic tick to the       *)
(* cascade, wrapped with the candidate stack (constraint/shadow.go), or to *)
(* the gateway's stack, and the protection tick to the cascade always.     *)
(* Each author keeps its own sessions, which stand still while another one *)
(* is asked.                                                               *)
(***************************************************************************)
EXTENDS ConstraintStack

-----------------------------------------------------------------------------
(* The hub's optimizer in closed loop with the site it controls: the       *)
(* economic tick (Optimize) and the fast protection tick (EvaluateSafety)  *)
(* of one goroutine, against a pack, an inverter, a charger, a load and a  *)
(* grid meter, any of which may misbehave, and against limits, dispatches  *)
(* and plans that come and go.  env is what nobody controls:               *)
(*   sun, load     potential generation, home consumption                  *)
(*   session       is a car plugged in?                                    *)
(*   pack          "obeys", "refuses" to charge, "inverts" its setpoint,   *)
(*                 or is "dark"                                            *)
(*   inverter      "obeys", "ignores" ceilings, or is "dark"               *)
(*   charger       "obeys", or "ignores" its limit                         *)
(*   meter         "live", "lagging" one tick, or "blind"                  *)
(*   lim, fixed, cease, peak, target: the controls, the tariff, the plan   *)

CONSTANTS
    Sun, Load,      \* potential generation and home load
    Charge,         \* the states of charge, in %
    Start0,         \* the environments to begin with
    PackModes, InverterModes, ChargerModes, MeterModes,
    ExpLimits, ImpLimits, MaxLimits, GenLimits, LoadLimits,   \* values of each limit
    Dispatches,     \* fixed dispatches
    Targets,        \* targets of the 24 h plan
    MaxChanges,     \* bound: changes of the environment
    MaxDrift        \* bound: moves of the state of charge

Environments ==
    [sun : Sun, load : Load, session : BOOLEAN, pack : PackModes,
     inverter : InverterModes, charger : ChargerModes, meter : MeterModes,
     lim : [exp : ExpLimits, imp : ImpLimits, max : MaxLimits, gen : GenLimits,
            load : LoadLimits],
     fixed : Dispatches, cease : BOOLEAN, peak : BOOLEAN, target : Targets]

ASSUME OptimizerAssumption ==
    /\ Sun \subseteq Nat /\ Load \subseteq Nat /\ Charge \subseteq 0..100
    /\ ExpLimits \cup ImpLimits \cup MaxLimits \cup GenLimits \cup LoadLimits
          \subseteq 0..(Inf - 1) \cup {NaN}
    /\ Dispatches \subseteq Int \cup {NaN}
    /\ Targets \subseteq [batt : Int, evModelled : BOOLEAN, ev : Int] \cup {NaN}
    /\ Start0 \subseteq Environments
    /\ MaxChanges \in Nat /\ MaxDrift \in Nat

VARIABLES
    g,          \* the optimizer's guards
    plan,       \* the last tick's plan
    standing,   \* the standing intents: the pack's setpoint and contactor, the
                \* inverter's ceiling, the charger's limit; and whether inverter
                \* and charger are told to disconnect, which no rule here does
    env,        \* the environment
    soc,        \* the pack's state of charge
    lastNet,    \* what a lagging meter shows
    seen,       \* ghost: what the last tick observed
    streak,     \* ghost: ticks in a row of each observed miss
    beat,       \* ghost: flips with every tick, so that fairness is cheap to state
    changes, drifts

vars == <<g, plan, standing, env, soc, lastNet, seen, streak, beat, changes, drifts>>

-----------------------------------------------------------------------------
(* The site *)

PackPower ==
    LET w == standing.batt
    IN  CASE ~standing.closed -> 0
          [] standing.closed /\ env.pack = "inverts" -> -w
          [] standing.closed /\ env.pack = "refuses" -> Pos(w)
          [] OTHER -> IF (w < 0 /\ soc >= Full) \/ (w > 0 /\ soc = 0) THEN 0 ELSE w

SolarPower == CASE env.inverter = "ignores" -> env.sun
                [] env.inverter # "ignores" /\ standing.off -> 0
                [] OTHER -> Least(env.sun, standing.ceiling)
EvDraw == IF ~env.session \/ standing.off THEN 0
          ELSE IF env.charger = "ignores" THEN EvMax ELSE standing.ev

Net == env.load + EvDraw - SolarPower - PackPower

\* What ReadSystemState puts together: a dark device reads as absent, at 0 W.
Observed ==
    [net   |-> CASE env.meter = "live" -> Net
                 [] env.meter = "lagging" -> lastNet
                 [] OTHER -> NaN,
     solar |-> [up |-> env.inverter # "dark",
                power |-> IF env.inverter = "dark" THEN 0 ELSE SolarPower],
     batt  |-> [up |-> env.pack # "dark", soc |-> soc,
                power |-> IF env.pack = "dark" THEN 0 ELSE PackPower],
     ev    |-> [session |-> env.session, power |-> EvDraw],
     lim   |-> env.lim, fixed |-> env.fixed, cease |-> env.cease, peak |-> env.peak,
     target |-> env.target]

\* The desired documents after a plan: no command and no opinion leave what stands.
Merged(p) ==
    [batt    |-> IF p.batt = NaN THEN standing.batt ELSE p.batt,
     closed  |-> IF p.connect = NaN THEN standing.closed ELSE p.connect,
     ceiling |-> CASE p.solar = NaN -> standing.ceiling
                   [] p.solar = FullOutput -> Nameplate
                   [] OTHER -> p.solar,
     ev      |-> IF p.ev = NaN THEN standing.ev ELSE p.ev,
     off     |-> standing.off]

-----------------------------------------------------------------------------
(* Ghosts: the misses an observer of meter and devices counts. *)

Miss(i) ==
    [exp   |-> i.lim.exp # NaN /\ i.net # NaN /\ -i.net > i.lim.exp,
     imp   |-> i.lim.imp # NaN /\ i.net # NaN /\ i.net > i.lim.imp,
     max   |-> i.lim.max # NaN /\ i.solar.power > i.lim.max,
     gen   |-> i.lim.gen # NaN /\ i.solar.power + Pos(i.batt.power) > i.lim.gen,
     load  |-> i.lim.load # NaN /\ i.net # NaN /\ GrossLoad(i) > i.lim.load,
     drain |-> i.batt.power > 0 /\ i.batt.soc # NaN /\ i.batt.soc <= Reserve]

\* A limit other than the export limit starts anew with its value; a blind
\* tick says nothing about what only a meter shows.
Streak(i) ==
    LET miss == Miss(i)
        Same(k) == k \in {"exp", "drain"} \/ (seen # NaN /\ seen.lim[k] = i.lim[k])
        Hidden(k) == k \in {"exp", "imp", "load"} /\ i.net = NaN
    IN  [k \in DOMAIN streak |->
            CASE Hidden(k) /\ Same(k) /\ (k = "exp" => i.lim.exp # NaN) -> streak[k]
              [] ~Hidden(k) /\ miss[k] -> Least(Ticks, 1 + (IF Same(k) THEN streak[k] ELSE 0))
              [] OTHER -> 0]

-----------------------------------------------------------------------------
NoStreak == [k \in {"exp", "imp", "max", "gen", "load", "drain"} |-> 0]

Init ==
    /\ g = InitGuards /\ plan = NoPlan
    /\ standing = [batt |-> 0, closed |-> TRUE, ceiling |-> Nameplate, ev |-> EvMax,
                   off |-> FALSE]
    /\ env \in Start0 /\ soc \in Charge
    /\ lastNet = 0 /\ seen = NaN /\ streak = NoStreak
    /\ beat = FALSE /\ changes \in 0..MaxChanges /\ drifts \in 0..MaxDrift

\* engine's safety tick: the fast loop's disconnect.
FastTick ==
    /\ FastTrip(Observed.batt, g)
    /\ standing' = [standing EXCEPT !.batt = 0, !.closed = FALSE]
    /\ UNCHANGED <<g, plan, env, soc, lastNet, seen, streak, beat, changes, drifts>>

\* The charge follows the pack's power, level by level.
Drift ==
    /\ drifts < MaxDrift /\ drifts' = drifts + 1
    /\ \E c \in Charge :
         /\ (PackPower > 0 /\ c < soc) \/ (PackPower < 0 /\ c > soc)
         /\ \A d \in Charge : d \notin (Least(c, soc) + 1)..(Most(c, soc) - 1)
         /\ soc' = c
    /\ UNCHANGED <<g, plan, standing, env, lastNet, seen, streak, beat, changes>>

Becomes(e) ==
    /\ e # env /\ changes < MaxChanges /\ changes' = changes + 1 /\ env' = e
    /\ UNCHANGED <<g, plan, standing, soc, lastNet, seen, streak, beat, drifts>>

Weather == \/ \E s \in Sun : Becomes([env EXCEPT !.sun = s])
           \/ \E l \in Load : Becomes([env EXCEPT !.load = l])
           \/ Becomes([env EXCEPT !.session = ~@])
Breakdown ==
    \/ \E m \in PackModes : Becomes([env EXCEPT !.pack = m])
    \/ \E m \in InverterModes : Becomes([env EXCEPT !.inverter = m])
    \/ \E m \in ChargerModes : Becomes([env EXCEPT !.charger = m])
    \/ \E m \in MeterModes : Becomes([env EXCEPT !.meter = m])
Control == \/ \E l \in ExpLimits : Becomes([env EXCEPT !.lim.exp = l])
           \/ \E l \in ImpLimits : Becomes([env EXCEPT !.lim.imp = l])
           \/ \E l \in MaxLimits : Becomes([env EXCEPT !.lim.max = l])
           \/ \E l \in GenLimits : Becomes([env EXCEPT !.lim.gen = l])
           \/ \E l \in LoadLimits : Becomes([env EXCEPT !.lim.load = l])
           \/ \E f \in Dispatches : Becomes([env EXCEPT !.fixed = f])
           \/ Becomes([env EXCEPT !.cease = ~@])
Economy == \/ Becomes([env EXCEPT !.peak = ~@])
           \/ \E t \in Targets : Becomes([env EXCEPT !.target = t])

\* All that moves between two ticks.
Between == FastTick \/ Drift \/ Weather \/ Breakdown \/ Control \/ Economy

-----------------------------------------------------------------------------
Reported == plan.breach # NoBreach

\* A limit missed in Ticks observations in a row is reported by every tick that
\* still sees the miss, whatever the devices and the meter do and however often
\* the export limit is rewritten: the leaky counters of the five checks survive
\* a blind tick, and a breach of another kind never takes the report away.
LastingMissIsReported ==
    \A k \in {"exp", "imp", "max", "gen", "load"} :
        streak[k] >= Ticks /\ Miss(seen)[k] => Reported

\* No rule after the compliance rules loosens a ceiling on the inverter: the
\* restore pass leaves a dark inverter its ceiling while a cap is active, and
\* the output and generation caps bound whatever the export rule asked for.
CapsAreHeld ==
    seen # NaN /\ ~seen.cease =>
        /\ plan.solar = FullOutput => ~SolarCapActive(seen)
        /\ seen.solar.up /\ seen.lim.max # NaN => plan.solar \in 0..seen.lim.max
        /\ seen.solar.up /\ seen.lim.gen # NaN => plan.solar \in 0..seen.lim.gen

\* A pack seen discharging at or below its reserve Ticks times in a row is cut
\* off, although each of those ticks commanded it and the restore pass
\* reconnects an idle pack.
DrainIsCut == streak.drain >= Ticks => ~standing.closed

Obeying == /\ env.pack = "obeys" /\ env.inverter = "obeys" /\ env.charger = "obeys"
           /\ env.meter = "live" /\ ~env.cease
DischargeWanted == env.peak \/ env.fixed # NaN \/ env.target # NaN \/ env.lim.imp # NaN

\* Once the environment is at rest and the devices obey, the output caps are
\* kept, and so are the load cap and, unless something else makes the pack
\* discharge, the export limit, or the miss is reported for good: the
\* controllers' ramps, tapers and hold windows do not chase each other.
Settled ==
    Obeying => LET miss == Miss(Observed)
               IN  /\ ~miss.max /\ ~miss.gen
                   /\ miss.exp => Reported \/ DischargeWanted
                   /\ miss.load => Reported

-----------------------------------------------------------------------------
(* The authors of the plan. *)

CONSTANTS
    ActiveSets,     \* the sets of constraints that may be configured "active"
    MaxFlips        \* bound: changes of the mode

ASSUME AuthorsAssumption ==
    /\ \A active \in ActiveSets : active \subseteq Wired
    /\ MaxFlips \in Nat

VARIABLES
    mode,       \* the author, "optimizer" or "gateway"
    active,     \* the constraints whose axes are taken from the candidate
    cand, gate, \* the sessions of the candidate stack, of the gateway's
    latched,    \* is no candidate asked: there is none, or it has panicked?
    flips

authors == <<mode, active, cand, gate, latched, flips>>
avars == <<vars, authors>>

InitAuthors ==
    /\ Init
    /\ mode \in {"optimizer", "gateway"} /\ active \in ActiveSets
    /\ cand = InitGuards /\ gate = InitGuards
    /\ latched \in BOOLEAN /\ flips \in 0..MaxFlips

\* What follows a plan p on an observation i, whoever made it.
Actuated(i, p) ==
    /\ plan' = p /\ seen' = i
    /\ streak' = IF i.cease THEN NoStreak ELSE Streak(i)
    /\ lastNet' = Net /\ beat' = ~beat
    /\ UNCHANGED <<env, soc, changes, drifts, mode, active, flips>>

\* The wrapper: the cascade runs first; a candidate that panics is never asked
\* again, and what it planned is dropped.
OptimizerTick ==
    /\ mode = "optimizer"
    /\ \E i \in {Observed} : \E legacy \in {Optimize(i, g)} :
          /\ g' = legacy.g
          /\ \/ latched' = TRUE /\ Actuated(i, legacy.plan) /\ UNCHANGED cand
             \/ /\ ~latched /\ UNCHANGED latched
                /\ \E asked \in {CandidateOptimize(i, cand)} :
                      /\ cand' = asked.k
                      /\ Actuated(i, IF active = {} THEN legacy.plan
                                     ELSE Compose(legacy.plan, asked.plan, asked.authors, active))
          /\ standing' = Merged(plan')
    /\ UNCHANGED gate

\* In gateway mode a connect opinion is the utility's and goes to every device.
GatewayTick ==
    /\ mode = "gateway"
    /\ \E i \in {Observed} : \E o \in {GatewayOptimize(i, gate)} :
          /\ Actuated(i, o.plan) /\ gate' = o.k
          /\ standing' = [Merged(o.plan) EXCEPT
                            !.off = IF i.cease THEN TRUE
                                    ELSE IF ExplicitConnect THEN FALSE ELSE standing.off]
    /\ UNCHANGED <<g, cand, latched>>

\* modeManager.request: the mode is stored, nothing of any author is reset.
Flip ==
    /\ flips < MaxFlips /\ flips' = flips + 1
    /\ mode' = IF mode = "gateway" THEN "optimizer" ELSE "gateway"
    /\ streak' = NoStreak /\ seen' = NaN
    /\ UNCHANGED <<g, plan, standing, env, soc, lastNet, beat, changes, drifts,
                   active, cand, gate, latched>>

NextAuthors ==
    \/ OptimizerTick \/ GatewayTick \/ Flip
    \/ Between /\ UNCHANGED authors

SpecAuthors == InitAuthors /\ [][NextAuthors]_avars /\ WF_beat(beat' = ~beat)

-----------------------------------------------------------------------------
\* LastingMissIsReported, of whichever author is in charge since Ticks ticks:
\* the composed breach of an active stack loses none that one of the two
\* authors was about to report, and the gateway reports the three limits it
\* has constraints for, with sessions that stood still meanwhile.
EveryAuthorReports ==
    /\ mode = "optimizer" /\ seen # NaN => LastingMissIsReported
    /\ mode = "gateway" /\ seen # NaN =>
          \A k \in {"exp", "imp", "max"} : streak[k] >= Ticks /\ Miss(seen)[k] => Reported

\* Whoever authors the plan, a compliance cap on the inverter bounds the
\* ceiling it ends with: composing takes an axis from the candidate only as
\* tight as its own caps, and the lowest tier's release never gets past one.
EveryAuthorHoldsCaps ==
    /\ mode = "optimizer" /\ active = {} => CapsAreHeld
    /\ seen # NaN /\ ~seen.cease /\ seen.solar.up =>
          /\ seen.lim.exp # NaN => plan.solar \in 0..Nameplate
          /\ seen.lim.max # NaN => plan.solar \in 0..seen.lim.max
          /\ mode = "optimizer" /\ seen.lim.gen # NaN
                => plan.solar \in 0..seen.lim.gen

\* What one author left standing never outlasts it: in gateway mode, with no
\* limit and devices that obey, the inverter ends released, the pack at the
\* utility's dispatch or idle, and the charger at the site's policy.
Unlimited == {env.lim.exp, env.lim.imp, env.lim.max} = {NaN}
Released ==
    mode = "gateway" /\ Unlimited /\ env.pack = "obeys" =>
        /\ standing.ceiling = Nameplate
        /\ standing.batt = IF env.fixed = NaN THEN 0 ELSE env.fixed
        /\ standing.ev = IF env.peak THEN 0 ELSE EvMax
=============================================================================
