------------------------------ MODULE Planner ------------------------------
(***************************************************************************)
(* The day-ahead planner (orchestrator/planner.go): a dynamic program over *)
(* the levels of the battery and of the car, one step of the horizon at a  *)
(* time, then the way back from the best final state. Its constraints come *)
(* from the utility's schedule, its prices from the app's tariff and the   *)
(* utility's (all in Schedule).                                            *)
(*                                                                         *)
(* Units. A power is a whole number of command steps (0.5 kW). Energy is   *)
(* counted so that a step at command c moves c * Num * Den on the AC side, *)
(* stores c * Num^2 and drains c * Den^2, for an efficiency of Num/Den.    *)
(* Limits, load and solar are AC energies of a step.                       *)
(***************************************************************************)
EXTENDS Schedule, FiniteSetsExt

CONSTANTS Sites,        \* the inputs a plan may start from
          Num, Den,     \* efficiency of battery and car
          LevelStep,    \* SOC grid (0.5 kWh)
          Standard,     \* the IEC 61851 currents, as command steps
          Shortfall,    \* price of ending a unit below the target (100 $/kWh)
          BuiltIn       \* the built-in tariff, compiled

ASSUME PlannerAssumption == /\ Num \in Nat \ {0} /\ Den \in Nat /\ Num <= Den
                            /\ LevelStep \in Nat \ {0}
                            /\ LevelStep % (Num * Den) = 0
                            /\ Standard \subseteq Nat /\ IsFiniteSet(Standard)
                            /\ Shortfall \in Nat
                            /\ BuiltIn.default \in Int
                            /\ \A r \in BuiltIn.periods : r.rate \in Int

Horizon == 0..Steps - 1

(* What is installed, and the prices, forecasts and controls around it.    *)
Asset == [hasBatt : BOOLEAN, low : Int, high : Int, charge : Nat,
          discharge : Nat, init : Int, terminal : Int,
          hasEv : BOOLEAN, evCap : Int, evMax : Nat, evInit : Int,
          evTarget : Int, leaves : Int, storage : BOOLEAN]
SiteType == [controls : SUBSET Control, default : Dispatch, from : Nat,
             aus : BOOLEAN, tariff : Seq(Period), utility : Seq(Quote),
             assets : Asset, forecast : [start : Int, kw : Seq(Int)],
             load : [Horizon -> Int], priceOut : [Horizon -> Int]]

(* No two controls of a program have one MRID.                             *)
ASSUME SitesAssumption ==
    \A s \in Sites :
        /\ s \in SiteType /\ IsFiniteSet(s.controls)
        /\ \A c, d \in s.controls : c.id = d.id => c = d

VARIABLES site,     \* the inputs
          slots,    \* the schedule northbound built from the controls
          p,        \* the planner's parameters
          stage,    \* what the planner does next
          t,        \* the step it is at
          dp,       \* least cost of each state that can be reached before step t
          back,     \* per step and state reached, the move that reached it
          at,       \* the state the way back is at
          plan      \* the intervals written so far

plannerVars == <<site, slots, p, stage, t, dp, back, at, plan>>

Max2(a, b) == IF a > b THEN a ELSE b
Abs(x) == IF x < 0 THEN -x ELSE x

----------------------------------------------------------------------------
(* What the planner is given.                                              *)

HourOf(tick) == (tick \div StepTicks) % Hours

TickOf(i) == Boundary(site.from) + i * StepTicks

(* A tariff that does not compile leaves the built-in one in force, with   *)
(* no delivery charge.                                                     *)
Prices == IF Compiles(site.tariff) THEN Compile(site.tariff)
          ELSE [supply |-> BuiltIn, delivery |-> {}]

SupplyPrice(i) ==
    IF site.utility # << >>
    THEN UtilityPrice(site.utility, BuiltIn, TickOf(i), HourOf(TickOf(i)))
    ELSE Rate(Prices.supply, HourOf(TickOf(i)))

AllIn(i) ==
    LET adders == {Rate(m, HourOf(TickOf(i))) : m \in Prices.delivery}
    IN  SupplyPrice(i) + (IF adders = {} THEN 0 ELSE CHOOSE r \in adders : TRUE)

(* A forecast is shifted by whole steps onto the plan's grid; the shift is *)
(* cut towards zero, and steps it does not reach have no sun.              *)
Towards0(a, b) == IF a >= 0 THEN a \div b ELSE -((-a) \div b)

Resampled(fc) ==
    LET shift == Towards0(Boundary(site.from) - fc.start, StepTicks)
    IN  [i \in Horizon |-> IF i + shift + 1 \in DOMAIN fc.kw
                           THEN Max2(0, fc.kw[i + shift + 1]) ELSE 0]

----------------------------------------------------------------------------
(* The grids of states and actions.                                        *)

Snap(x) == ((2 * x + LevelStep) \div (2 * LevelStep)) * LevelStep

Levels(lo, hi) ==
    IF hi <= lo THEN {lo}
    ELSE LET n == Max2(2, Snap(hi - lo) \div LevelStep + 1)
         IN  {lo, hi} \cup {Snap(lo + k * LevelStep) : k \in 1..n - 2}

(* The nearest level, the lower one of two as near.                        *)
Closest(levels, x) ==
    CHOOSE l \in levels :
        \A m \in levels : \/ Abs(l - x) < Abs(m - x)
                          \/ Abs(l - x) = Abs(m - x) /\ l <= m

BattLevels == IF p.hasBatt THEN Levels(p.low, p.high) ELSE {0}
EvLevels == IF p.hasEv THEN Levels(0, p.evCap) ELSE {0}
BattPowers == IF p.hasBatt THEN -p.charge..p.discharge ELSE {0}

ChargeCurrents ==
    LET on == {a \in Standard : a <= p.evMax}
    IN  {0} \cup (IF on = {} THEN {p.evMax} ELSE on)

EvCurrents == IF ~p.hasEv \/ p.evMax = 0 THEN {0}
              ELSE IF p.storage
                   THEN ChargeCurrents \cup {-a : a \in ChargeCurrents}
                   ELSE ChargeCurrents

(* Where a battery command leads from level b: None out of the band.       *)
BattDest(b, c) ==
    LET x == IF c > 0 THEN b - c * Den * Den ELSE b - c * Num * Num
    IN  IF ~p.hasBatt THEN b
        ELSE IF x < p.low \/ x > p.high THEN None
        ELSE Closest(BattLevels, x)

(* The commanded power itself.                                             *)

(* The AC energy a change of level stands for, + out; clamped to the       *)
(* ratings.                                                                *)
BattEff(b, c) ==
    LET d == BattDest(b, c) - b
        ac == IF d < 0 THEN ((-d) * Num) \div Den ELSE -((d * Den) \div Num)
    IN  IF ~p.hasBatt THEN 0
        ELSE Max2(-p.charge * Num * Den, Upto(p.discharge * Num * Den, ac))

EvDest(e, a) ==
    LET x == IF a >= 0 THEN e + a * Num * Num ELSE e + a * Den * Den
    IN  IF x < 0 \/ x > p.evCap THEN None ELSE Closest(EvLevels, x)

EvAc(a) == a * Num * Den

(* A car that discharges is left out of the balance.                       *)
MutGrid(i, batt, a) == p.load[i] + Max2(0, EvAc(a)) - p.solar[i] - batt

(* Grid energy of a step, + import.                                        *)
Grid(i, batt, a) == p.load[i] + EvAc(a) - p.solar[i] - batt

Within(x, limit) == limit = None \/ x <= limit

(* The envelope. Generation is solar and battery discharge; the gross caps *)
(* also count the car, on the side it is on.                               *)
Allowed(i, batt, a) ==
    LET c == p.limits[i]
        gen == p.solar[i] + Max2(0, batt)
    IN  /\ Within(-Grid(i, batt, a), c.exp)
        /\ Within(Grid(i, batt, a), c.imp)
        /\ Within(gen, c.max)
        /\ Within(gen + Max2(0, -EvAc(a)), c.gen)
        /\ Within(p.load[i] + Max2(0, EvAc(a)) + Max2(0, -batt), c.load)

FixedCommand(i) == IF p.limits[i].fixed = None THEN None
                   ELSE Closest(BattPowers, p.limits[i].fixed)

StepCost(i, batt, a) ==
    LET g == Grid(i, batt, a)
    IN  IF g > 0 THEN g * p.priceIn[i] ELSE g * p.priceOut[i]

----------------------------------------------------------------------------
(* The dynamic program.                                                    *)

States == BattLevels \X EvLevels

Commands(i) == {c \in BattPowers : /\ p.limits[i].off => c = 0
                                   /\ FixedCommand(i) \in {None, c}}

Currents(i) == IF p.leaves # None /\ i > p.leaves THEN {0} ELSE EvCurrents

(* At the departure step only a car at its target may be gone on from.     *)
MayLeave(i, e) ==
    (p.hasEv /\ i = p.leaves) => e >= Closest(EvLevels, p.evTarget)

Move(i, s, cost, c, a) ==
    [from |-> s, to |-> <<BattDest(s[1], c), EvDest(s[2], a)>>, cmd |-> c, cur |-> a,
     cost |-> cost + StepCost(i, BattEff(s[1], c), a)]

MovesAt(i, costs) ==
    {Move(i, x[1], costs[x[1]], x[2], x[3]) :
        x \in {x \in {s \in DOMAIN costs : MayLeave(i, s[2])}
                         \X Commands(i) \X Currents(i) :
                  /\ BattDest(x[1][1], x[2]) # None
                  /\ EvDest(x[1][2], x[3]) # None
                  /\ Allowed(i, BattEff(x[1][1], x[2]), x[3])}}

(* The order of the nested loops: the first of the cheapest moves is kept. *)
Before(m, n) ==
    LET a == <<m.from[1], m.from[2], m.cmd, m.cur>>
        b == <<n.from[1], n.from[2], n.cmd, n.cur>>
    IN  \E k \in 1..4 : a[k] < b[k] /\ \A j \in 1..k - 1 : a[j] = b[j]

Best(moves) ==
    {m \in moves :
        \A n \in moves : m.cost < n.cost \/ (m.cost = n.cost /\ ~Before(n, m))}

(* They all cost the same.                                                 *)
Kept(moves) == CHOOSE m \in moves : TRUE

Penalised(s, cost) ==
    LET goal == IF p.terminal <= 0 THEN p.init ELSE p.terminal
    IN  IF p.hasBatt /\ s[1] < goal THEN cost + Shortfall * (goal - s[1])
        ELSE cost

----------------------------------------------------------------------------

InitPlanner ==
    /\ site \in Sites
    /\ slots = << >> /\ p = << >> /\ stage = "gather" /\ t = 0
    /\ dp = << >> /\ back = << >> /\ at = << >> /\ plan = << >>

(* The inputs come in: northbound builds its schedule, the hub maps it to  *)
(* steps, and the parameters of a plan are put together.                   *)
Gather ==
    /\ stage = "gather"
    /\ LET line == Build(site.controls, site.default, site.from)
       IN  /\ slots' = line
           /\ p' = [f \in DOMAIN site.assets \cup
                          {"limits", "priceIn", "priceOut", "solar", "load"} |->
                      CASE f = "limits" -> Constraints(line, site.from, site.aus)
                        [] f = "priceIn" -> [i \in Horizon |-> AllIn(i)]
                        [] f = "priceOut" -> site.priceOut
                        [] f = "solar" -> Resampled(site.forecast)
                        [] f = "load" -> site.load
                        [] OTHER -> site.assets[f]]
    /\ stage' = "seed"
    /\ UNCHANGED <<site, t, dp, back, at, plan>>

Seed ==
    /\ stage = "seed"
    /\ LET s0 == <<Closest(BattLevels, p.init), Closest(EvLevels, p.evInit)>>
       IN  dp' = [s \in {s0} |-> 0] /\ at' = s0
    /\ back' = [i \in Horizon |-> [s \in States |-> {}]]
    /\ stage' = "forward"
    /\ UNCHANGED <<site, slots, p, t, plan>>

Forward ==
    /\ stage = "forward"
    /\ LET all == MovesAt(t, dp)
           to == [s \in States |-> {m \in all : m.to = s}]
           best == [s \in States |-> Best(to[s])]
       IN  /\ dp' = [s \in {s \in States : best[s] # {}} |-> Kept(best[s]).cost]
           /\ back' = [back EXCEPT ![t] = best]
    /\ t' = t + 1
    /\ stage' = IF t + 1 = Steps THEN "settle" ELSE "forward"
    /\ UNCHANGED <<site, slots, p, at, plan>>

(* The best final state, the first of several; the seed when none was      *)
(* reached.                                                                *)
Beats(costs, r, s) ==
    LET x == Penalised(r, costs[r])
        y == Penalised(s, costs[s])
    IN  \/ x < y
        \/ x = y /\ (r[1] < s[1] \/ (r[1] = s[1] /\ r[2] <= s[2]))

Settle ==
    /\ stage = "settle"
    /\ at' = IF DOMAIN dp = {} THEN at
             ELSE CHOOSE r \in DOMAIN dp : \A s \in DOMAIN dp : Beats(dp, r, s)
    /\ stage' = "back"
    /\ UNCHANGED <<site, slots, p, t, dp, back, plan>>

(* One interval is written. A step without a recorded move leaves the      *)
(* state where it is and writes neither battery nor car.                   *)
Interval(i, moves) ==
    LET none == moves = {}
        m == Kept(moves)
        batt == IF none \/ ~p.hasBatt THEN 0 ELSE BattEff(m.from[1], m.cmd)
        cur == IF none THEN 0 ELSE m.cur
    IN  [booked |-> ~none, batt |-> batt, current |-> cur,
         grid |-> Grid(i, batt, cur), cost |-> StepCost(i, batt, cur),
         soc |-> IF none \/ ~p.hasBatt THEN None ELSE m.from[1],
         command |-> IF none THEN None ELSE m.cmd]

Backtrack ==
    /\ stage = "back"
    /\ plan' = <<Interval(t - 1, back[t - 1][at])>> \o plan
    /\ at' = IF back[t - 1][at] = {} THEN at ELSE Kept(back[t - 1][at]).from
    /\ t' = t - 1
    /\ stage' = IF t = 1 THEN "done" ELSE "back"
    /\ UNCHANGED <<site, slots, p, dp, back>>

NextPlanner == Gather \/ Seed \/ Forward \/ Settle \/ Backtrack

SpecPlanner == InitPlanner /\ [][NextPlanner]_plannerVars


----------------------------------------------------------------------------
(* Everything that could be planned, step by step: the states a legal run  *)
(* of commands can be in before step k, with what the run has cost.        *)
Runnable(i, s, c, a) ==
    /\ p.limits[i].off => c = 0
    /\ BattDest(s[1], c) # None /\ EvDest(s[2], a) # None
    /\ (p.hasEv /\ p.leaves = i) => s[2] >= Closest(EvLevels, p.evTarget)
    /\ (p.hasEv /\ p.leaves # None /\ i > p.leaves) => a = 0
    /\ FixedCommand(i) \in {None, c}
    /\ Allowed(i, BattEff(s[1], c), a)

Onward(i, r) ==
    {<<BattDest(r[1], x[1]), EvDest(r[2], x[2]),
       r[3] + StepCost(i, BattEff(r[1], x[1]), x[2])>> :
        x \in {y \in BattPowers \X EvCurrents :
                 Runnable(i, <<r[1], r[2]>>, y[1], y[2])}}

Outset == <<Closest(BattLevels, p.init), Closest(EvLevels, p.evInit), 0>>

RunsBefore[k \in 0..Steps] ==
    IF k = 0 THEN {Outset} ELSE UNION {Onward(k - 1, r) : r \in RunsBefore[k - 1]}

LegalRuns == RunsBefore[Steps]

(* Where the plan leads, with what its intervals say that they cost.       *)
Played(r, x) ==
    <<BattDest(r[1], x.command), EvDest(r[2], x.current), r[3] + x.cost>>

PlayedBefore[k \in 0..Steps] ==
    IF k = 0 THEN Outset ELSE Played(PlayedBefore[k - 1], plan[k])

Planned == PlayedBefore[Steps]

(* A finished plan is one of the runs the envelope, the car's departure    *)
(* and the fixed setpoints leave open, and none of the others costs less,  *)
(* ending below the battery's target included; when there is any run at    *)
(* all.                                                                    *)
PlanIsBest ==
    stage = "done" =>
        LET runs == LegalRuns
            Score(r) == Penalised(<<r[1], r[2]>>, r[3])
        IN  runs # {} => /\ \A k \in 1..Steps : plan[k].booked
                         /\ Planned \in runs
                         /\ \A r \in runs : Score(Planned) <= Score(r)

(* What the plan hands out keeps every step within the utility's controls, *)
(* reckoned from its own setpoints: export, import, the inverter's cap and *)
(* the gross caps, with the car on its side of the meter.                  *)
PlanKeepsEnvelope ==
    stage = "done" =>
        \A k \in {k \in 1..Steps : plan[k].booked} :
            LET c == p.limits[k - 1]
                out == Max2(0, plan[k].batt)
                in == Max2(0, -plan[k].batt)
                car == plan[k].current * Num * Den
                meter == p.load[k - 1] + car - p.solar[k - 1] - plan[k].batt
            IN  /\ c.exp # None => -meter <= c.exp
                /\ c.imp # None => meter <= c.imp
                /\ c.max # None => p.solar[k - 1] + out <= c.max
                /\ c.gen # None => p.solar[k - 1] + out + Max2(0, -car) <= c.gen
                /\ c.load # None => p.load[k - 1] + in + Max2(0, car) <= c.load
                /\ c.off => plan[k].batt = 0

(* The plan sells nothing the battery does not lose: between two steps the *)
(* AC energy given out is at most the drop in level times the efficiency.  *)
NoFreeDischarge ==
    stage = "done" /\ p.hasBatt =>
        \A k \in 1..Steps - 1 :
            (plan[k].booked /\ plan[k + 1].booked /\ plan[k].batt > 0) =>
                plan[k].batt * Den <= (plan[k].soc - plan[k + 1].soc) * Num

(* The slots follow each other without gap or overlap over the window.     *)
SlotsAreWhole ==
    slots # << >> =>
        /\ slots[1].start = site.from
        /\ slots[Len(slots)].end = site.from + Window
        /\ \A k \in 1..Len(slots) - 1 : slots[k].end = slots[k + 1].start
        /\ \A k \in DOMAIN slots : slots[k].start < slots[k].end

(* A live control newer than every live control it meets keeps all of its  *)
(* time: the planner is given its dispatch for every step that lies wholly *)
(* within it.                                                              *)
NewestEventHolds ==
    stage \notin {"gather"} =>
        \A c \in site.controls :
            (~c.cancelled /\ \A o \in site.controls \ {c} :
                 (~o.cancelled /\ Overlap(o, c)) => Newer(c, o)) =>
                \A i \in Horizon :
                    (/\ TickOf(i) >= Max2(c.start, site.from)
                     /\ TickOf(i + 1) <= c.end) =>
                        p.limits[i] = Mapped(c.dispatch, site.aus)

(* Wherever the app's tariff is the one in force, every hour of every day  *)
(* costs what the one period over it says, supply and delivery together;   *)
(* and a tariff is turned away only for a malformed period, a hole, an     *)
(* overlap or a price that differs from day to day.                        *)
TariffIsExact ==
    LET spec == site.tariff
        Over(d, h) == {k \in DOMAIN spec : d \in spec[k].days
                                            /\ h >= spec[k].from /\ h < spec[k].to}
        Price(k) == spec[k].rate + (IF spec[k].delivery = Absent THEN 0
                                    ELSE spec[k].delivery)
    IN  stage = "seed" /\ site.utility = << >> =>
            IF ~Compiles(spec)
            THEN \/ \E k \in DOMAIN spec : ~SoundPeriod(spec[k])
                 \/ \E d \in 0..Days - 1, h \in 0..Hours - 1 :
                    \/ Cardinality(Over(d, h)) # 1
                    \/ \E e \in 0..Days - 1 : \E k \in Over(d, h), l \in Over(e, h) :
                        [spec[k] EXCEPT !.days = {}, !.from = 0, !.to = 0]
                            # [spec[l] EXCEPT !.days = {}, !.from = 0, !.to = 0]
            ELSE \A d \in 0..Days - 1, i \in Horizon :
                    \E k \in Over(d, HourOf(TickOf(i))) : p.priceIn[i] = Price(k)

(* What the planner is given and what it hands out, together.              *)
PlanIsSound ==
    /\ PlanIsBest /\ PlanKeepsEnvelope /\ NoFreeDischarge
    /\ SlotsAreWhole /\ NewestEventHolds /\ TariffIsExact
=============================================================================
