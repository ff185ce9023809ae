---------------------------- MODULE ConstraintStack ----------------------------
(***************************************************************************)
(* The constraint stack (internal/orchestrator/constraint): the compliance *)
(* rules of the cascade as constraints that demand intervals of the        *)
(* devices' axes, economics as proposals, an arbiter, and battery safety   *)
(* as a last word; and the stack the hub runs in gateway mode, whose       *)
(* lowest tier forwards the utility's control.  A constraint is a port of  *)
(* its rule with no plan of earlier rules before it, so its session and    *)
(* what it works out are those of the rule's operator in Cascade on an     *)
(* empty pass; what it demands of that is its own.  The plant's detection  *)
(* windows are those of the bench, Ticks.                                  *)
(*   k   the sessions of a stack's constraints, shaped like the guards     *)
(***************************************************************************)
EXTENDS Cascade

CONSTANTS
    Wired,              \* the constraints of the hub's candidate stack
    ExplicitConnect,    \* do controls that leave the site connected say so?
    Inf                 \* greater than every watt and ampere that occurs

ASSUME StackAssumption ==
    /\ ExplicitConnect \in BOOLEAN
    /\ Inf \in Nat \ {0}
    /\ {Nameplate, BattMax, EvMax} \subseteq 0..(Inf - 1)

-----------------------------------------------------------------------------
(* The arbiter (arbiter.go): demands on one axis of one device, given as   *)
(* intervals, become one interval and its author.  An unbounded side (NaN) *)
(* is -Inf or Inf here, as it is inside resolveInterval.  At most four     *)
(* demands of one tier meet on an axis, one of each constraint; they are   *)
(* folded in the order of the constraints' names.                          *)

Lower(a, b) == IF a <= b THEN a ELSE b
Upper(a, b) == IF a <= b THEN b ELSE a

Bounds == -Inf..Inf
Nobody == ""

\* What a constraint without an opinion leaves: all of the axis.
Free == [lo |-> -Inf, hi |-> Inf, author |-> Nobody]

CeilingDemand(w, source) == [lo |-> -Inf, hi |-> w, author |-> source]
FloorDemand(w, source) == [lo |-> w, hi |-> Inf, author |-> source]
PointDemand(w, source) == [lo |-> w, hi |-> w, author |-> source]

(***************************************************************************)
(* Within a tier: intersect; demands that do not meet collapse to the most *)
(* restrictive ceiling, whose author is the demand that made the conflict. *)
(***************************************************************************)
Meet(a, b) == [lo |-> Upper(a.lo, b.lo), hi |-> Lower(a.hi, b.hi)]
Meets(a, b) == Meet(a, b).lo <= Meet(a, b).hi

Narrow(iv, d) ==
    IF Meets(iv, d)
    THEN [lo |-> Meet(iv, d).lo, hi |-> Meet(iv, d).hi,
          author |-> IF d.hi < Inf /\ (iv.author = Nobody \/ d.hi <= iv.hi)
                     THEN d.author ELSE iv.author]
    ELSE [lo |-> Lower(iv.lo, Lower(iv.hi, d.hi)), hi |-> Lower(iv.hi, d.hi),
          author |-> d.author]

IntersectSameTier(a, b, c, d) == Narrow(Narrow(Narrow(Narrow(Free, a), b), c), d)

(***************************************************************************)
(* Across tiers: a lower tier narrows what a higher one left, or is        *)
(* discarded; only a tier that tightens becomes the author.                *)
(***************************************************************************)
Clamp(higher, lower) ==
    IF Meets(higher, lower)
    THEN [lo |-> Meet(higher, lower).lo, hi |-> Meet(higher, lower).hi,
          author |-> IF \/ lower.hi < higher.hi
                        \/ lower.hi >= higher.hi /\ lower.lo > higher.lo
                     THEN lower.author ELSE higher.author]
    ELSE higher

ResolveInterval(safety, compliance, economics) == Clamp(Clamp(safety, compliance), economics)

\* The setpoint of a battery: a pinned value, or as close to idle as allowed.
ProjectSetpoint(iv) == Upper(iv.lo, Lower(iv.hi, 0))

-----------------------------------------------------------------------------
(* The constraints. *)

\* Every constraint starts from what is measured, with nothing commanded yet.
Empty(i, k) ==
    [plan |-> NoPlan, g |-> k, power |-> i.batt.power,
     surplus |-> Surplus(i), followed |-> FALSE, headroom |-> NaN]

Opinion(k, breach) ==
    [k |-> k, breach |-> breach, solar |-> Free, batt |-> Free, ev |-> Free, connect |-> NaN]

\* Export: the pack's absorption as a point and the generation ceiling; the
\* EV's share is worked out for both and not demanded.
ExportControl(i, k) == ExportLimit(i, Empty(i, k))

Exactly(w, author, free) == IF w = NaN THEN free ELSE PointDemand(w, author)
UpTo(w, author, free) == IF w = NaN THEN free ELSE CeilingDemand(w, author)

MutExportDemands(s) ==
    [Opinion(s.g, s.plan.breach) EXCEPT !.batt = Exactly(s.plan.batt, "export", @)]
ExportDemands(s) ==
    [Opinion(s.g, s.plan.breach) EXCEPT
        !.batt  = Exactly(s.plan.batt, "export", @),
        !.solar = UpTo(s.plan.solar, "export", @)]
ExportConstraint(i, k) == ExportDemands(CheckExport(i, ExportControl(i, k)))

GenDemands(s) ==
    [Opinion(s.g, s.plan.breach) EXCEPT !.solar = UpTo(s.plan.solar, "gen", @)]
GenLimitConstraint(i, k) == GenDemands(CheckGen(i, GenLimit(i, Empty(i, k))))

\* Import: the whole discharge as a point; the shared EV cooldown is part of
\* its session.
ImportDemands(s) ==
    [Opinion(s.g, s.plan.breach) EXCEPT !.batt = Exactly(s.plan.batt, "import", @)]
ImportControl(i, k) == ImportLimit(i, Empty(i, k))
ImportLimitConstraint(i, k) == ImportDemands(CheckImport(i, ImportControl(i, k)))

\* The cap on solar plus discharge: the pack has what measured solar leaves.
AusGenDemands(i, s) ==
    LET Demand(up, w) == IF i.lim.gen # NaN /\ up THEN CeilingDemand(w, "gen-aus") ELSE Free
    IN  [Opinion(s.g, s.plan.breach) EXCEPT
            !.batt  = Demand(i.batt.up, Pos(i.lim.gen - i.solar.power)),
            !.solar = Demand(i.solar.up, i.lim.gen)]
AusGenLimitConstraint(i, k) == AusGenDemands(i, CheckAusGen(i, Empty(i, k)))

\* The cap on gross load: a floor under the pack's charge, and an EV ceiling
\* that engages on a miss and is held blind.
AusLoadRoom(i) ==
    Pos(Conservative(i.lim.load) - Pos(GrossLoad(i) - Pos(-i.batt.power)))
AusLoadControl(i, g) ==
    LET charging == Pos(-i.batt.power)
        others   == Pos(GrossLoad(i) - charging)
        limit    == AusEvLimit(i, g, others, IF charging > AusLoadRoom(i) THEN 0 ELSE charging)
        engaged  == g.ev # NaN \/ GrossLoad(i) > i.lim.load
    IN  CASE i.net = NaN -> g
          [] i.net # NaN /\ ~engaged -> g
          [] i.net # NaN /\ engaged /\ ~i.ev.session -> [g EXCEPT !.ev = NaN]
          [] OTHER -> [g EXCEPT !.ev = limit,
                                !.safe = IF g.ev # NaN /\ limit > g.ev THEN 0 ELSE @]

AusLoadDemands(i, s) ==
    LET g == s.g.ausLoad
    IN  [Opinion(s.g, s.plan.breach) EXCEPT
            !.batt = IF i.net # NaN /\ i.batt.up THEN FloorDemand(-AusLoadRoom(i), "load-aus")
                     ELSE @,
            !.ev   = IF g.ev # NaN /\ i.ev.session THEN CeilingDemand(g.ev, "load-aus") ELSE @]
AusLoadLimitConstraint(i, k) ==
    IF i.lim.load = NaN THEN Opinion([k EXCEPT !.ausLoad = NoAusLoad], NoBreach)
    ELSE AusLoadDemands(i, CheckAusLoad(i,
             [Empty(i, k) EXCEPT !.g.ausLoad = AusLoadControl(i, AusLoadSample(i, Empty(i, k)))]))

\* Economics: fixed dispatch, then the 24 h plan or else self-consumption, the
\* peak and the EV.  The plan's EV current is taken whether or not it models one.
EconomicPlan(i, s) ==
    FollowPlan(IF i.target = NaN THEN i ELSE [i EXCEPT !.target.evModelled = TRUE], s)

\* Without a plan the pack takes the surplus, sells at the peak, and the EV
\* gets the rest.
Reactive(i, s) ==
    IF s.followed THEN s ELSE EvCharging(i, PeakDischarge(i, SelfConsumption(i, s)))

EconomicDemands(s) ==
    [Opinion(s.g, NoBreach) EXCEPT
        !.batt = Exactly(s.plan.batt, "economics", @),
        !.ev   = Exactly(s.plan.ev, "economics", @)]
EconomicsConstraint(i, k) ==
    IF i.cease THEN Opinion(k, NoBreach)
    ELSE [EconomicDemands(Reactive(i, EconomicPlan(i, FixedDispatch(i, Empty(i, k)))))
             EXCEPT !.k = k]

\* The gateway's lowest tier: the utility's limit and dispatch or an explicit
\* release, its connect if it has one, and the site's charging hours, which
\* are the hours off peak.  It speaks for every device of the plant, also for
\* one that is out of sight.
CSIPPassthrough(i, k) ==
    [Opinion(k, NoBreach) EXCEPT
        !.solar   = CeilingDemand(IF i.lim.max = NaN THEN Inf ELSE i.lim.max, "csip-maxlim"),
        !.batt    = PointDemand(IF i.fixed = NaN THEN 0 ELSE i.fixed, "csip-fixedw"),
        !.ev      = CeilingDemand(IF i.peak THEN 0 ELSE EvMax, "gateway-evse"),
        !.connect = IF i.cease THEN FALSE ELSE IF ExplicitConnect THEN TRUE ELSE NaN]

-----------------------------------------------------------------------------
(* One pass of a stack. *)

Worse(a, b) == IF a = NoBreach \/ b.short > a.short THEN b ELSE a

Resolved(said) ==
    LET low == said.lowest
    IN  [solar |-> ResolveInterval(Free, IntersectSameTier(said["export"].solar, said["gen"].solar,
                                                           said["gen-aus"].solar, Free),
                                   low.solar),
         batt  |-> ResolveInterval(Free, IntersectSameTier(said["export"].batt, said["gen-aus"].batt,
                                                           said["import"].batt, said["load-aus"].batt),
                                   low.batt),
         ev    |-> ResolveInterval(Free, said["load-aus"].ev, low.ev)]

\* An axis nobody spoke about has no command; an unbounded ceiling that was
\* demanded is a release.
EmitCommands(des, connect, silent) ==
    [NoPlan EXCEPT
        !.solar   = CASE des.solar.hi < Inf -> Most(0, des.solar.hi)
                      [] des.solar.hi = Inf /\ silent -> NaN
                      [] OTHER -> FullOutput,
        !.batt    = IF des.batt.lo = -Inf /\ des.batt.hi = Inf THEN NaN
                    ELSE ProjectSetpoint(des.batt),
        !.ev      = IF des.ev.hi = Inf THEN NaN ELSE Most(0, des.ev.hi),
        !.connect = connect]

\* Battery safety sees the resolved command and overrides it; what it changes
\* is its own.
PostArbitrate(i, k, p) ==
    LET s == CheckBatterySafety(i, [Empty(i, k) EXCEPT !.plan = p])
    IN  [plan |-> s.plan,
         k    |-> [s.g EXCEPT !.lastBatt = IF s.plan.batt = NaN THEN @ ELSE s.plan.batt]]

Authors(des, before, after) ==
    LET safety == "battery-safety"
    IN  [solar   |-> des.solar.author, ev |-> des.ev.author,
         batt    |-> IF after.batt # before.batt THEN safety ELSE des.batt.author,
         connect |-> IF after.connect # before.connect THEN safety ELSE Nobody]

\* What the opinions of a pass come to: the command, judged and authored.
Judged(des, p, out, breach) ==
    [plan |-> [out.plan EXCEPT !.breach = breach], k |-> out.k,
     authors |-> Authors(des, p, out.plan)]
Emitted(i, pass, wired, des, p) ==
    Judged(des, p,
           IF "battery-safety" \in wired THEN PostArbitrate(i, pass.k, p)
           ELSE [plan |-> p, k |-> pass.k],
           pass.breach)
Arbitrated(i, pass, wired, lowest, des) ==
    Emitted(i, pass, wired, des,
            EmitCommands(des, pass.said.lowest.connect, lowest = "economics"))

\* A constraint's turn in a pass: its session goes on from the one before it.
NoPass(k) ==
    [k |-> k, breach |-> NoBreach,
     said |-> [n \in {"export", "gen", "import", "gen-aus", "load-aus", "lowest"} |->
                  Opinion(k, NoBreach)]]
Heard(pass, name, opinion) ==
    [pass EXCEPT !.k = opinion.k, !.breach = Worse(@, opinion.breach), !.said[name] = opinion]
Turn(i, pass, name, C(_, _), wired) ==
    IF name \in wired THEN Heard(pass, name, C(i, pass.k)) ELSE pass

Complied(i, k, wired) ==
    Turn(i, Turn(i, Turn(i, Turn(i, Turn(i, NoPass(UpdateReserveHolds(i.batt, k)),
        "export", ExportConstraint, wired), "gen", GenLimitConstraint, wired),
        "import", ImportLimitConstraint, wired), "gen-aus", AusGenLimitConstraint, wired),
        "load-aus", AusLoadLimitConstraint, wired)

Finished(i, pass, wired, lowest) == Arbitrated(i, pass, wired, lowest, Resolved(pass.said))
RunStack(i, pass, wired, lowest) ==
    IF lowest # "economics" THEN Finished(i, Heard(pass, "lowest", CSIPPassthrough(i, pass.k)),
                                          wired, lowest)
    ELSE IF lowest \in wired THEN Finished(i, Heard(pass, "lowest", EconomicsConstraint(i, pass.k)),
                                           wired, lowest)
    ELSE Finished(i, pass, wired, lowest)

CandidateOptimize(i, k) == RunStack(i, Complied(i, k, Wired), Wired, "economics")

\* The gateway's stack is fixed, whatever the hub's constraint modes say.
GatewayStack == {"battery-safety", "export", "gen", "import"}
GatewayOptimize(i, k) == 
    RunStack(i, Complied(i, k, GatewayStack), GatewayStack, "csip-passthrough")

-----------------------------------------------------------------------------
(* The wrapper: the cascade's plan, with the axes that an active constraint
   authored taken from the candidate's. *)

BreachOwner(kind) ==
    CASE kind = "generation" -> "gen" [] kind = "generation-aus" -> "gen-aus" [] OTHER -> kind

ComposeBreach(legacy, candidate, active) ==
    LET Eligible(b, mine) == IF b # NoBreach /\ mine THEN b ELSE NoBreach
        l == Eligible(legacy, BreachOwner(legacy.kind) \notin active)
        c == Eligible(candidate, BreachOwner(candidate.kind) \in active)
    IN  IF c # NoBreach /\ c.short >= l.short THEN c ELSE l

Compose(legacy, candidate, authors, active) ==
    LET Axis(theirs, author, mine) ==
            IF theirs # NaN /\ author \in active THEN theirs ELSE mine
    IN  [solar   |-> Axis(candidate.solar, authors.solar, legacy.solar),
         batt    |-> Axis(candidate.batt, authors.batt, legacy.batt),
         connect |-> Axis(candidate.connect, authors.connect, legacy.connect),
         ev      |-> Axis(candidate.ev, authors.ev, legacy.ev),
         breach  |-> ComposeBreach(legacy.breach, candidate.breach, active)]
=============================================================================
