------------------------------- MODULE Cascade -------------------------------
(***************************************************************************)
(* The rule cascade of the hub's DefaultOptimizer                          *)
(* (internal/orchestrator/optimizer.go and auslimits.go) for a site of one *)
(* pack, one inverter and one charging point: what one engine tick plans,  *)
(* given what the hub observes (i) and the guards the optimizer carries    *)
(* from tick to tick (g).  Powers are whole units of a few hundred watts,  *)
(* so the code's noise bands of 50 W and 100 W fall between two units and  *)
(* its halvings and quotients are rounded.  A pass is a record             *)
(*   plan      the commands and the breach so far                          *)
(*   g         the guards                                                  *)
(*   power     the pack's power, as far as commanded by earlier rules      *)
(*   surplus   the solar surplus not yet spoken for                        *)
(*   followed  is the 24 h plan followed?                                  *)
(*   headroom  the discharge the AUS generation cap still has room for     *)
(* Discharge, import and load are positive.                                *)
(***************************************************************************)
EXTENDS Integers

CONSTANTS
    NaN,            \* no reading, no limit, no command
    Nameplate,      \* the inverter's rating
    BattMax,        \* the pack's rating, in either direction
    EvMin, EvMax,   \* the least and the greatest charging power
    EvStep,         \* the EV ramp per tick, upwards
    EvRelax,        \* the EV ramp per tick, downwards
    CeilDrop,       \* the generation ceiling's ramp per tick, downwards
    CeilRise,       \* the same, upwards
    BattRelax,      \* the import defence's ramp per tick, downwards
    Reserve, ReleaseMargin, CriticalMargin, TaperStart, Full,  \* in % of charge
    RelaxCycles,    \* safe ticks before a lever is relaxed
    Cooldown,       \* safe ticks before the EV may resume under an import cap
    Ticks           \* ticks a miss lasts before it is reported or acted on

ASSUME CascadeAssumption ==
    /\ {Nameplate, BattMax, EvMin, EvMax, EvStep, EvRelax, CeilDrop, CeilRise, BattRelax,
        RelaxCycles, Cooldown, Ticks, ReleaseMargin, CriticalMargin} \subseteq Nat \ {0}
    /\ EvMin <= EvMax
    /\ Reserve \in Nat /\ TaperStart \in Reserve..100 /\ Full \in (TaperStart + 1)..100
    /\ NaN \notin Int \cup BOOLEAN

Least(a, b) == IF a <= b THEN a ELSE b
Most(a, b) == IF a >= b THEN a ELSE b
Pos(x) == Most(0, x)
NanMin(a, b) == CASE a = NaN -> b [] b = NaN -> a [] OTHER -> Least(a, b)

\* The controllers aim below the limit by ExportMarginFrac, ImportMarginFrac.
Conservative(limit) == (limit * 4) \div 5

\* The breach counters: up on a miss, down otherwise, never above the threshold.
Leaky(n, over) == IF over THEN Least(n + 1, Ticks) ELSE Pos(n - 1)

FullOutput == -1    \* the NaN ceiling: restore to nameplate
NoBreach == [kind |-> "none", short |-> 0]
NoPlan == [batt |-> NaN, connect |-> NaN, solar |-> NaN, ev |-> NaN, breach |-> NoBreach]

NoExport == [limit |-> NaN, ev |-> NaN, absorb |-> NaN, ceiling |-> NaN, filtered |-> NaN,
             safe |-> 0, stall |-> 0]
NoImport == [limit |-> NaN, discharge |-> NaN, safe |-> 0, evSafe |-> 0, breach |-> 0]
NoCap == [limit |-> NaN, over |-> 0]
NoAusLoad == [limit |-> NaN, ev |-> NaN, safe |-> 0, breach |-> 0]
InitGuards ==
    [exp |-> NoExport, expOver |-> 0, zeroLever |-> 0, imp |-> NoImport, gen |-> NoCap,
     ausGen |-> NoCap, ausLoad |-> NoAusLoad, hold |-> FALSE, recover |-> 0,
     drain |-> 0, wrong |-> 0, lastBatt |-> NaN]

RecordBreach(s, kind, short) ==
    IF s.plan.breach = NoBreach \/ short > s.plan.breach.short
    THEN [s EXCEPT !.plan.breach = [kind |-> kind, short |-> short]]
    ELSE s

Commanded(s, w) == [s EXCEPT !.plan.batt = w, !.power = w]

(***************************************************************************)
(* The reserve latch: set at once, released after Ticks samples above the  *)
(* margin; a pack out of sight drops it, an unknown charge keeps it.       *)
(***************************************************************************)
UpdateReserveHolds(b, g) ==
    CASE ~b.up -> [g EXCEPT !.hold = FALSE, !.recover = 0]
      [] b.up /\ b.soc = NaN -> [g EXCEPT !.recover = 0]
      [] OTHER ->
           IF b.soc <= Reserve THEN [g EXCEPT !.hold = TRUE, !.recover = 0]
           ELSE IF ~g.hold THEN g
           ELSE IF b.soc < Reserve + ReleaseMargin THEN [g EXCEPT !.recover = 0]
           ELSE IF g.recover + 1 < Ticks THEN [g EXCEPT !.recover = @ + 1]
           ELSE [g EXCEPT !.hold = FALSE, !.recover = 0]

DischargeBlocked(i, s) == s.g.hold \/ (i.batt.soc # NaN /\ i.batt.soc <= Reserve)
IsFull(i) == i.batt.soc # NaN /\ i.batt.soc >= Full

Surplus(i) == IF i.net = NaN THEN i.solar.power ELSE -i.net - i.ev.power

(***************************************************************************)
(* Rule 1, cease to energize, and rule 2, fixed dispatch.                  *)
(***************************************************************************)
CeasePlan(i) ==
    [NoPlan EXCEPT !.batt = 0, !.connect = FALSE,
                   !.solar = IF i.solar.up THEN 0 ELSE NaN, !.ev = 0]

FixedDispatch(i, s) ==
    LET exportable == IF i.net = NaN THEN i.solar.power ELSE Pos(-i.batt.power - i.net)
        room == BattMax - s.power
    IN  IF /\ i.fixed # NaN /\ exportable < i.fixed /\ i.batt.up
           /\ ~DischargeBlocked(i, s) /\ room > 0
        THEN Commanded(s, s.power + Least(room, i.fixed - exportable))
        ELSE s

(***************************************************************************)
(* Rule 2.5, the 24 h plan, its discharge bounded by the export limit.     *)
(***************************************************************************)
PlanExportDischargeCap(i) ==
    IF i.lim.exp = NaN THEN NaN
    ELSE Pos(Conservative(i.lim.exp) - (IF i.net = NaN THEN 0 ELSE -i.net - i.batt.power))

PlanShare(i, s) ==
    LET cap   == PlanExportDischargeCap(i)
        want  == IF i.target.batt > 0 THEN NanMin(i.target.batt, cap) ELSE i.target.batt
        share == Most(-BattMax, Least(BattMax, want))
    IN  IF (share > 0 /\ DischargeBlocked(i, s)) \/ (share < 0 /\ IsFull(i)) THEN 0 ELSE share

FollowPlan(i, s) ==
    IF i.fixed # NaN \/ i.target = NaN \/ ~i.batt.up THEN s
    ELSE [Commanded(s, PlanShare(i, s))
             EXCEPT !.plan.ev = IF i.target.evModelled /\ i.ev.session THEN i.target.ev ELSE @,
                    !.surplus = 0, !.followed = TRUE]

(***************************************************************************)
(* Rule 3, the export limit: absorb into the pack, trim the EV, hold a     *)
(* generation ceiling.                                                     *)
(***************************************************************************)
Taper(soc) ==
    IF soc = NaN THEN BattMax
    ELSE IF soc <= TaperStart THEN BattMax
    ELSE (BattMax * Pos(Full - soc)) \div (Full - TaperStart)

SignedExport(i, s) ==
    IF i.net # NaN THEN -i.net ELSE i.solar.power + Pos(s.power) - i.ev.power
ActualExport(i, s) == Pos(SignedExport(i, s))
Absorbing(s) == Pos(-s.power)
EvFree(i, s) == i.ev.session /\ s.plan.ev = NaN

\* The session guard after this tick's sample: the low-pass filter, the safe
\* count, and no EV setpoint without a session.
ExportSample(i, s) ==
    LET e == IF i.lim.exp # s.g.exp.limit THEN [NoExport EXCEPT !.limit = i.lim.exp]
             ELSE s.g.exp
        actual   == ActualExport(i, s)
        filtered == IF e.filtered = NaN THEN actual
                    ELSE (2 * actual + 3 * e.filtered) \div 5
    IN  [e EXCEPT !.filtered = filtered,
                  !.safe = IF filtered <= Conservative(i.lim.exp)
                           THEN Least(@ + 1, RelaxCycles) ELSE 0,
                  !.ev = IF EvFree(i, s) THEN @ ELSE NaN]

\* Solar less home load, from the meter and what was last commanded.
Unconstrained(i, s, e) ==
    Least(i.solar.power,
          SignedExport(i, s)
          + (IF e.absorb # NaN THEN e.absorb ELSE Absorbing(s))
          + (IF e.ev # NaN THEN e.ev ELSE i.ev.power))

Absorb(i, s, e) ==
    LET now   == Taper(i.batt.soc)
        fresh == Least(now, Pos(Unconstrained(i, s, e) - Conservative(i.lim.exp)))
    IN  IF ~i.batt.up \/ s.plan.batt # NaN \/ IsFull(i) THEN 0
        ELSE IF e.absorb = NaN \/ fresh = now THEN fresh
        ELSE IF e.absorb <= fresh THEN fresh
        ELSE IF e.safe < RelaxCycles THEN Least(e.absorb, now)
        ELSE Least((fresh + e.absorb) \div 2, now)

\* What next tick's absorption is worth: the tapered command, or what is
\* measured once the pack has ignored its command for Ticks ticks.
Stalled(s, e, absorb) == Leaky(e.stall, absorb > 0 /\ 2 * Absorbing(s) < absorb)
Credit(i, s, e, absorb) ==
    CASE Stalled(s, e, absorb) >= Ticks -> Absorbing(s)
      [] Stalled(s, e, absorb) < Ticks /\ absorb = 0 -> 0
      [] OTHER -> Least(Taper(IF i.batt.soc = NaN THEN NaN ELSE i.batt.soc + 1),
                        Pos(Unconstrained(i, s, e) - Conservative(i.lim.exp)))

\* The EV's next power: soft start, ramp up, hold until safe, ramp down; then
\* the pre-flight tightening against the hard limit.
EvRamped(target, e) ==
    CASE e.ev = NaN -> EvMin
      [] e.ev # NaN /\ target >= e.ev -> Least(target, e.ev + EvStep)
      [] OTHER -> IF e.safe < RelaxCycles THEN e.ev
                  ELSE Most(EvMin, Most(target, e.ev - EvRelax))
EvResets(target, e) == e.ev # NaN /\ target < e.ev /\ e.safe >= RelaxCycles
EvTrim(i, s, e, absorb, target) ==
    LET ramped == EvRamped(target, e)
        excess == Unconstrained(i, s, e) - absorb - ramped - i.lim.exp
    IN  ramped + Pos(Least(excess, EvMax - ramped))

\* The generation ceiling: an integrator on the measured export, slewed, and
\* bounded at once by the sinks of the next tick.
MutCeiling(i, s, e, absorb, credit, ev) ==
    IF e.ceiling = NaN
    THEN Pos(i.solar.power + Conservative(i.lim.exp) - ActualExport(i, s))
    ELSE e.ceiling
Ceiling(i, s, e, absorb, credit, ev) ==
    LET target == Conservative(i.lim.exp)
        error  == target - (ActualExport(i, s) - Pos(absorb - Absorbing(s)))
        fed    == IF e.ceiling = NaN THEN Pos(i.solar.power + error)
                  ELSE Pos(Most(e.ceiling - CeilDrop,
                                Least(e.ceiling + CeilRise, Pos(e.ceiling + error \div 2))))
        home   == Pos(i.solar.power - ActualExport(i, s) - Absorbing(s) - i.ev.power)
        sinks  == home + credit + (IF ev = NaN THEN 0 ELSE ev) + target
    IN  Least(fed, sinks)

ExportCommands(i, s, absorb, ev, capped) ==
    [s EXCEPT
        !.plan.batt  = IF absorb > 0 THEN -absorb ELSE @,
        !.power      = IF absorb > 0 THEN -absorb ELSE @,
        !.plan.ev    = IF ev # NaN THEN ev ELSE @,
        !.plan.solar = IF i.solar.up THEN capped ELSE @,
        !.surplus    = @ - absorb - (IF ev # NaN THEN ev ELSE 0)]

ExportSession(i, s, e, absorb, target, ev, capped) ==
    [e EXCEPT !.absorb  = IF absorb > 0 THEN absorb ELSE NaN,
              !.stall   = Stalled(s, e, absorb),
              !.ev      = ev,
              !.safe    = IF EvFree(i, s) /\ EvResets(target, e) THEN 0 ELSE @,
              !.ceiling = IF i.solar.up THEN capped ELSE @]

ExportDefence(i, s, e, absorb, target, ev, ceiling) ==
    LET capped == Least(ceiling, Nameplate)
        over   == ActualExport(i, s) > i.lim.exp
        zero   == Leaky(s.g.zeroLever, over /\ ceiling = 0)
        done   == [ExportCommands(i, s, absorb, ev, capped) EXCEPT
                      !.g.zeroLever = zero,
                      !.g.exp = ExportSession(i, s, e, absorb, target, ev, capped)]
    IN  IF zero >= Ticks
        THEN RecordBreach(done, "export", ActualExport(i, s) - i.lim.exp) ELSE done

ExportLimit(i, s) ==
    IF i.lim.exp = NaN THEN [s EXCEPT !.g.exp = NoExport, !.g.zeroLever = 0]
    ELSE
    LET e       == ExportSample(i, s)
        absorb  == Absorb(i, s, e)
        credit  == Credit(i, s, e, absorb)
        target  == Least(EvMax, Most(EvMin, Unconstrained(i, s, e) - credit
                                            - Conservative(i.lim.exp)))
        ev      == IF EvFree(i, s) THEN EvTrim(i, s, e, absorb, target) ELSE NaN
    IN  ExportDefence(i, s, e, absorb, target, ev, Ceiling(i, s, e, absorb, credit, ev))

\* A check that holds its count without a meter and reports only what no rule
\* has reported yet.
ReportOnce(s, due, kind, short) ==
    IF due /\ s.plan.breach = NoBreach THEN RecordBreach(s, kind, short) ELSE s

\* The count is of the session: it survives a rewritten cap and a blind tick.
MutCheckExport(i, s) ==
    IF i.lim.exp = NaN \/ i.net = NaN THEN [s EXCEPT !.g.expOver = 0]
    ELSE LET n == Leaky(s.g.expOver, Pos(-i.net) > i.lim.exp)
         IN  ReportOnce([s EXCEPT !.g.expOver = n], n >= Ticks, "export",
                        Pos(-i.net) - i.lim.exp)
CheckExport(i, s) ==
    IF i.lim.exp = NaN THEN [s EXCEPT !.g.expOver = 0]
    ELSE IF i.net = NaN THEN s
    ELSE LET n == Leaky(s.g.expOver, Pos(-i.net) > i.lim.exp)
         IN  ReportOnce([s EXCEPT !.g.expOver = n], n >= Ticks, "export",
                        Pos(-i.net) - i.lim.exp)

(***************************************************************************)
(* Rule 3.1, the cap on inverter output, and its check: the inverter's own *)
(* reading, or what the meter proves it must be producing.                 *)
(***************************************************************************)
GenLimit(i, s) ==
    IF i.lim.max = NaN \/ ~i.solar.up THEN s
    ELSE [s EXCEPT !.plan.solar = NanMin(@, i.lim.max)]

SameSession(cap, limit) == IF cap.limit = limit THEN cap ELSE [NoCap EXCEPT !.limit = limit]

CheckGen(i, s) ==
    IF i.lim.max = NaN THEN [s EXCEPT !.g.gen = NoCap]
    ELSE LET floor    == IF i.net = NaN THEN 0 ELSE Pos(-i.net) - Pos(i.batt.power)
             measured == Most(i.solar.power, floor)
             cap      == SameSession(s.g.gen, i.lim.max)
             n        == Leaky(cap.over, measured > i.lim.max)
             counted  == [s EXCEPT !.g.gen = [cap EXCEPT !.over = n]]
         IN  IF n >= Ticks THEN RecordBreach(counted, "generation", measured - i.lim.max)
             ELSE counted

(***************************************************************************)
(* Rule 3.5, the import limit: discharge, ratcheted up at once and let go  *)
(* a step at a time.                                                       *)
(***************************************************************************)
ImportSafe(i) == i.net # NaN /\ i.net >= 0 /\ i.net <= i.lim.imp

Import(i) == IF i.net = NaN THEN 0 ELSE Pos(i.net)
ImportSample(i, s) ==
    LET g == IF s.g.imp.limit = i.lim.imp THEN s.g.imp
             ELSE [NoImport EXCEPT !.limit = i.lim.imp,
                                   !.evSafe = IF ImportSafe(i) THEN Cooldown ELSE 0]
    IN  [g EXCEPT !.safe   = IF Import(i) <= i.lim.imp THEN Least(@ + 1, RelaxCycles) ELSE 0,
                  !.evSafe = IF ImportSafe(i) THEN Least(@ + 1, Cooldown) ELSE 0]

ImportTarget(i, s) == Pos(Import(i) + Pos(s.power) - Conservative(i.lim.imp))

\* Up at once, held while it is not safe, then down by a step.
Eases(g, target) == g.discharge # NaN /\ target < g.discharge
Relaxes(g, target) == Eases(g, target) /\ g.safe >= RelaxCycles
ImportWanted(g, target) ==
    CASE ~Eases(g, target) -> target
      [] Eases(g, target) /\ ~Relaxes(g, target) -> g.discharge
      [] OTHER -> Most(target, g.discharge - BattRelax)

\* Charging is halted, and what is missing is added to what is committed.
Halted(s) == IF s.plan.batt # NaN /\ s.plan.batt < 0 THEN Commanded(s, 0) ELSE s
Committed(s) == IF s.plan.batt = NaN THEN 0 ELSE Pos(s.plan.batt)
Added(i, s, missing) ==
    IF ~i.batt.up \/ DischargeBlocked(i, s) THEN 0 ELSE Pos(Least(BattMax - s.power, missing))
Raised(s, add) == IF add > 0 THEN Commanded(s, Committed(s) + add) ELSE s

ImportDefence(i, s, g, wanted) ==
    LET halted  == Halted(s)
        missing == Pos(wanted - Committed(halted))
        add     == Added(i, halted, missing)
        total   == Committed(halted) + add
        done    == [Raised(halted, add) EXCEPT
                      !.g.imp = [g EXCEPT !.discharge = IF total > 0 THEN total ELSE NaN]]
    IN  IF Import(i) > i.lim.imp /\ missing > add
        THEN RecordBreach(done, "import", Import(i) - i.lim.imp) ELSE done

ImportLimit(i, s) ==
    IF i.lim.imp = NaN THEN [s EXCEPT !.g.imp = NoImport]
    ELSE
    LET g      == ImportSample(i, s)
        target == ImportTarget(i, s)
        wanted == ImportWanted(g, target)
        eased  == [g EXCEPT !.safe = IF Relaxes(g, target) THEN 0 ELSE @]
    IN  IF wanted = 0 THEN [s EXCEPT !.g.imp = [eased EXCEPT !.discharge = NaN]]
        ELSE ImportDefence(i, s, eased, wanted)

CheckImport(i, s) ==
    IF i.lim.imp = NaN THEN [s EXCEPT !.g.imp.breach = 0]
    ELSE IF i.net = NaN THEN s
    ELSE LET n == Leaky(s.g.imp.breach, Pos(i.net) > i.lim.imp)
         IN  ReportOnce([s EXCEPT !.g.imp.breach = n], n >= Ticks, "import",
                        Pos(i.net) - i.lim.imp)

(***************************************************************************)
(* Rule 3.6, the CSIP-AUS cap on solar plus discharge (enforce_aus_limits). *)
(***************************************************************************)
AusGenLimit(i, s) ==
    IF i.lim.gen = NaN THEN s
    ELSE LET room      == Pos(i.lim.gen - i.solar.power)
             trims     == s.plan.batt # NaN /\ s.plan.batt > room
             committed == IF s.plan.batt = NaN THEN 0 ELSE Pos(Least(s.plan.batt, room))
             trimmed   == IF trims THEN Commanded(s, room) ELSE s
         IN  [trimmed EXCEPT !.headroom = room - committed,
                             !.plan.solar = IF i.solar.up
                                            THEN NanMin(@, Pos(i.lim.gen - committed)) ELSE @]

CheckAusGen(i, s) ==
    IF i.lim.gen = NaN THEN [s EXCEPT !.g.ausGen = NoCap]
    ELSE LET reported == i.solar.power + Pos(i.batt.power)
             gross    == IF i.net = NaN THEN reported ELSE Most(reported, -i.net)
             cap      == SameSession(s.g.ausGen, i.lim.gen)
             n        == Leaky(cap.over, gross > i.lim.gen)
             counted  == [s EXCEPT !.g.ausGen = [cap EXCEPT !.over = n]]
         IN  IF n >= Ticks THEN RecordBreach(counted, "generation-aus", gross - i.lim.gen)
             ELSE counted

(***************************************************************************)
(* Rules 4 to 6, economics: self-consumption, peak discharge, EV charging. *)
(***************************************************************************)
SelfConsumption(i, s) ==
    LET absorbing  == Absorbing(s)
        additional == Pos(s.surplus - absorbing)
        more       == Least(Pos(BattMax + s.power), additional)
    IN  IF s.followed \/ ~i.batt.up \/ s.plan.batt # NaN \/ IsFull(i) THEN s
        ELSE IF more > 0
        THEN [Commanded(s, s.power - more) EXCEPT !.surplus = @ - more - absorbing]
        ELSE IF absorbing > 0 /\ s.surplus > 0
        THEN [Commanded(s, s.power) EXCEPT !.surplus = @ - absorbing]
        ELSE s

PeakDischarge(i, s) ==
    LET export   == IF i.net # NaN THEN Pos(-i.net) ELSE Pos(s.surplus)
        cap      == NanMin(s.headroom, IF i.lim.exp = NaN THEN NaN
                                       ELSE Pos(Conservative(i.lim.exp) - export))
        setpoint == NanMin(BattMax, cap)
    IN  IF /\ i.peak /\ ~s.followed /\ i.batt.up /\ ~DischargeBlocked(i, s)
           /\ s.power < BattMax /\ setpoint > 0 /\ s.plan.batt = NaN
        THEN [Commanded(s, setpoint) EXCEPT !.surplus = @ + setpoint - s.power]
        ELSE s

\* The EV's share of a constrained site: what the sun leaves over, lifted to
\* the least charging power where an export limit is active and the import
\* limit allows it.
Throttled(i, budget) ==
    LET supplemented == i.lim.exp # NaN /\ budget > 0 /\ budget < EvMin
        affordable   == i.lim.imp = NaN \/ i.net = NaN \/ EvMin - budget <= i.lim.imp - i.net
    IN  CASE supplemented -> IF affordable THEN EvMin ELSE 0
          [] ~supplemented /\ budget < EvMin -> 0
          [] OTHER -> Least(budget, EvMax)

EvImportSuppressed(i, s) == i.lim.imp # NaN /\ s.g.imp.evSafe < Cooldown

EvPower(i, s, surplus) ==
    LET sunny == i.solar.power > 0
    IN  IF EvImportSuppressed(i, s) THEN 0
        ELSE IF i.lim.imp # NaN /\ i.net # NaN /\ i.net >= i.lim.imp THEN 0
        ELSE IF i.lim.exp = NaN /\ i.lim.imp = NaN
        THEN IF sunny /\ surplus + i.ev.power < EvMax
             THEN Most(EvMin, surplus + i.ev.power) ELSE EvMax
        ELSE IF i.lim.exp # NaN /\ i.net # NaN /\ i.net >= 0 THEN EvMax
        ELSE IF sunny /\ surplus < EvMax THEN Throttled(i, Pos(surplus))
        ELSE EvMax

EvCharging(i, s) ==
    IF EvFree(i, s)
    THEN [s EXCEPT !.plan.ev = EvPower(i, s, IF s.followed THEN Surplus(i) ELSE s.surplus)]
    ELSE s

(***************************************************************************)
(* Rule 3.7, the CSIP-AUS cap on gross load: charging that does not fit is *)
(* halted, and an EV ceiling engages on a miss and stays until the cap     *)
(* clears.                                                                 *)
(***************************************************************************)
GrossLoad(i) == Pos(i.solar.power + Pos(i.batt.power) + i.net)

AusLoadSample(i, s) ==
    LET g == IF s.g.ausLoad.limit = i.lim.load THEN s.g.ausLoad
             ELSE [NoAusLoad EXCEPT !.limit = i.lim.load]
    IN  IF i.net = NaN THEN g
        ELSE [g EXCEPT !.safe = IF GrossLoad(i) <= i.lim.load
                                THEN Least(@ + 1, RelaxCycles) ELSE 0]

MergeEvLimit(i, s, limit) ==
    IF i.ev.session THEN [s EXCEPT !.plan.ev = NanMin(@, limit)] ELSE s

AusEvLimit(i, g, others, charge) ==
    LET room    == Least(EvMax, Pos(Conservative(i.lim.load)
                                    - Pos(others - i.ev.power) - charge))
        target  == IF room < EvMin THEN 0 ELSE room
        stepped == IF g.safe < RelaxCycles THEN g.ev ELSE Least(target, g.ev + EvStep)
    IN  IF g.ev = NaN THEN target
        ELSE IF target <= g.ev THEN target
        ELSE IF stepped \in 1..(EvMin - 1) THEN EvMin
        ELSE stepped

AusLoadLimit(i, s) ==
    IF i.lim.load = NaN THEN [s EXCEPT !.g.ausLoad = NoAusLoad]
    ELSE
    LET g       == AusLoadSample(i, s)
        others  == Pos(GrossLoad(i) - Pos(-i.batt.power))
        room    == Pos(Conservative(i.lim.load) - others)
        charges == s.plan.batt # NaN /\ s.plan.batt < 0
        halts   == charges /\ -s.plan.batt > room
        shed    == IF halts THEN [s EXCEPT !.plan.batt = 0] ELSE s
        charge  == IF charges /\ ~halts THEN -s.plan.batt ELSE 0
        limit   == AusEvLimit(i, g, others, charge)
        relaxes == g.ev # NaN /\ limit > g.ev
    IN  IF i.net = NaN
        THEN [(IF g.ev = NaN THEN s ELSE MergeEvLimit(i, s, g.ev)) EXCEPT !.g.ausLoad = g]
        ELSE IF g.ev = NaN /\ GrossLoad(i) <= i.lim.load THEN [shed EXCEPT !.g.ausLoad = g]
        ELSE IF ~i.ev.session THEN [shed EXCEPT !.g.ausLoad = [g EXCEPT !.ev = NaN]]
        ELSE [MergeEvLimit(i, shed, limit)
                 EXCEPT !.g.ausLoad = [g EXCEPT !.ev = limit,
                                                !.safe = IF relaxes THEN 0 ELSE @]]

CheckAusLoad(i, s) ==
    IF i.lim.load = NaN THEN s
    ELSE IF i.net = NaN THEN s
    ELSE LET n == Leaky(s.g.ausLoad.breach, GrossLoad(i) > i.lim.load)
         IN  ReportOnce([s EXCEPT !.g.ausLoad.breach = n], n >= Ticks, "load-aus",
                        GrossLoad(i) - i.lim.load)

(***************************************************************************)
(* Whatever has no command by now is restored: full output, an idle pack   *)
(* reconnected.  A dark inverter keeps its ceiling while a cap is active.  *)
(***************************************************************************)
SolarCapActive(i) == i.lim.exp # NaN \/ i.lim.max # NaN \/ i.lim.gen # NaN

Restore(i, s) ==
    LET idle == i.batt.up /\ s.plan.batt = NaN
    IN  [s EXCEPT !.plan.solar   = IF @ = NaN /\ (i.solar.up \/ ~SolarCapActive(i))
                                   THEN FullOutput ELSE @,
                  !.plan.batt    = IF idle THEN 0 ELSE @,
                  !.plan.connect = IF idle THEN TRUE ELSE @]

(***************************************************************************)
(* The battery safety backstop, on the engine's tick and on the fast loop. *)
(***************************************************************************)
ChargeCommanded(batt, last) ==
    IF batt # NaN THEN batt < 0 ELSE last # NaN /\ last < 0

CriticalInversion(b, charge) ==
    charge /\ b.power > 0 /\ b.soc # NaN /\ b.soc <= Reserve + CriticalMargin

MutCheckBatterySafety(i, s) == s
CheckBatterySafety(i, s) ==
    LET b        == i.batt
        charge   == ChargeCommanded(s.plan.batt, s.g.lastBatt)
        atRest   == s.g.hold \/ b.soc <= Reserve
        drain    == IF b.power > 0 /\ atRest THEN Least(s.g.drain + 1, Ticks) ELSE 0
        wrong    == IF b.power > 0 /\ charge THEN Least(s.g.wrong + 1, Ticks) ELSE 0
        counted  == [s EXCEPT !.g.drain = drain, !.g.wrong = wrong]
    IN  IF ~b.up \/ b.soc = NaN THEN [s EXCEPT !.g.drain = 0, !.g.wrong = 0]
        ELSE IF CriticalInversion(b, charge) \/ drain >= Ticks \/ wrong >= Ticks
        THEN [counted EXCEPT !.plan.batt = 0, !.plan.connect = FALSE]
        ELSE counted

\* The fast loop has no plan of its own: it judges by the last command.
FastTrip(b, g) == b.up /\ CriticalInversion(b, ChargeCommanded(NaN, g.lastBatt))

(***************************************************************************)
(* One engine tick.                                                        *)
(***************************************************************************)
Start(i, g) ==
    [plan |-> NoPlan, g |-> UpdateReserveHolds(i.batt, g), power |-> i.batt.power,
     surplus |-> Surplus(i), followed |-> FALSE, headroom |-> NaN]

Dispatch(i, g) == FollowPlan(i, FixedDispatch(i, Start(i, g)))
Comply(i, s) ==
    CheckAusGen(i, AusGenLimit(i, CheckImport(i, ImportLimit(i,
        CheckGen(i, GenLimit(i, CheckExport(i, ExportLimit(i, s))))))))
Economise(i, s) == EvCharging(i, PeakDischarge(i, SelfConsumption(i, s)))
Backstop(i, s) == CheckBatterySafety(i, Restore(i, CheckAusLoad(i, AusLoadLimit(i, s))))

Optimize(i, g) ==
    IF i.cease THEN [plan |-> CeasePlan(i), g |-> g]
    ELSE LET s == Backstop(i, Economise(i, Comply(i, Dispatch(i, g))))
         IN  [plan |-> s.plan,
              g |-> [s.g EXCEPT !.lastBatt = IF s.plan.batt = NaN THEN @ ELSE s.plan.batt]]
=============================================================================
