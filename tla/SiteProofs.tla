------------------------------ MODULE SiteProofs ------------------------------
(***************************************************************************)
(* Proofs about whose word counts at the site.                             *)
(*                                                                         *)
(* The arbiter: the demands of one tier end in one interval below every    *)
(* ceiling, a lower tier never reaches beyond what a higher one left, and  *)
(* the setpoint lies in what was resolved.                                 *)
(*                                                                         *)
(* Battery safety: each author counts a drain in a session of its own, and *)
(* one mode asks two of them.  The observer's count of misses never        *)
(* exceeds that of the author in charge, and the stacks carry the counter  *)
(* through every constraint before battery safety judges it.               *)
(*                                                                         *)
(* The caps: a ceiling that one of them demands is a number, it only comes *)
(* down from rule to rule and from tier to tier, and a composed plan has   *)
(* the ceiling of one of the two that it was composed of.                  *)
(*                                                                         *)
(* The reports: each author counts every kind of miss in a book of its     *)
(* own, no later rule or constraint takes back what one has answered, and  *)
(* no book is behind the count of an observer of that author's ticks.      *)
(*                                                                         *)
(* Those who ask from outside: what a bucket still holds and all that was  *)
(* taken from it since any admission fit in a full bucket and what has     *)
(* dripped in since; the hub's input holds nothing that is not on record;  *)
(* a request is expected or its result is there, never both.               *)
(*                                                                         *)
(* The audit record: what the journal holds is in the order of the events, *)
(* and only its oldest part is ever gone.                                  *)
(***************************************************************************)
EXTENDS PlanAuthors, Downlink, Journal, FiniteSetTheorems, SequenceTheorems, TLAPS

Interval(iv) == iv.lo \in Bounds /\ iv.hi \in Bounds /\ iv.lo <= iv.hi
Within(iv, outer) == outer.lo <= iv.lo /\ iv.hi <= outer.hi

\* The bounds are integers, so that Lower and Upper are least and greatest.
LEMMA BoundsAreIntegers == Bounds \subseteq Int
BY StackAssumption DEF Bounds

\* One more demand of the tier leaves an interval, under the demand's ceiling
\* and under the ceiling there was (intersectSameTier).
LEMMA NarrowIsBelow ==
    ASSUME NEW iv, NEW d, Interval(iv), Interval(d)
    PROVE  /\ Interval(Narrow(iv, d))
           /\ Narrow(iv, d).hi <= d.hi /\ Narrow(iv, d).hi <= iv.hi
<1>0. /\ iv.lo \in Int /\ iv.hi \in Int /\ d.lo \in Int /\ d.hi \in Int
      /\ iv.lo <= iv.hi /\ d.lo <= d.hi
  BY BoundsAreIntegers DEF Interval
<1> DEFINE n == Narrow(iv, d)
<1>1. CASE Meets(iv, d)
  <2>1. n.lo = Upper(iv.lo, d.lo) /\ n.hi = Lower(iv.hi, d.hi)
    BY <1>1 DEF Narrow, Meet
  <2>2. n.lo <= n.hi
    BY <1>1, <2>1 DEF Meets, Meet
  <2> QED BY <1>0, <2>1, <2>2 DEF Interval, Upper, Lower
<1>2. CASE ~Meets(iv, d)
  <2>1. n.lo = Lower(iv.lo, Lower(iv.hi, d.hi)) /\ n.hi = Lower(iv.hi, d.hi)
    BY <1>2 DEF Narrow
  <2> QED BY <1>0, <2>1 DEF Interval, Lower
<1> QED BY <1>1, <1>2

\* A tier's demands, whether they meet or not, resolve to one interval that no
\* ceiling among them lies below: of conflicting caps the tightest holds.
THEOREM TightestCeilingHolds ==
    ASSUME NEW a, NEW b, NEW c, NEW d,
           Interval(a), Interval(b), Interval(c), Interval(d)
    PROVE  LET r == IntersectSameTier(a, b, c, d)
           IN  Interval(r) /\ r.hi <= a.hi /\ r.hi <= b.hi /\ r.hi <= c.hi /\ r.hi <= d.hi
<1> DEFINE w == Narrow(Free, a)
           x == Narrow(w, b)
           y == Narrow(x, c)
           z == Narrow(y, d)
<1>0. Interval(Free)
  BY StackAssumption DEF Interval, Free, Bounds
<1>1. Interval(w) /\ w.hi <= a.hi
  BY <1>0, NarrowIsBelow
<1>2. Interval(x) /\ x.hi <= b.hi /\ x.hi <= w.hi
  BY <1>1, NarrowIsBelow
<1>3. Interval(y) /\ y.hi <= c.hi /\ y.hi <= x.hi
  BY <1>2, NarrowIsBelow
<1>4. Interval(z) /\ z.hi <= d.hi /\ z.hi <= y.hi
  BY <1>3, NarrowIsBelow
<1>5. /\ w.hi \in Int /\ x.hi \in Int /\ y.hi \in Int /\ z.hi \in Int
      /\ a.hi \in Int /\ b.hi \in Int /\ c.hi \in Int
  BY <1>1, <1>2, <1>3, <1>4, BoundsAreIntegers DEF Interval
<1>6. IntersectSameTier(a, b, c, d) = z
  BY DEF IntersectSameTier
<1> HIDE DEF w, x, y, z
<1>7. z.hi <= a.hi /\ z.hi <= b.hi /\ z.hi <= c.hi
  BY <1>1, <1>2, <1>3, <1>4, <1>5
<1> QED BY <1>4, <1>6, <1>7

\* A lower tier stays inside what the higher tier left (resolveInterval).
LEMMA ClampStaysWithin ==
    ASSUME NEW higher, NEW lower, Interval(higher), Interval(lower)
    PROVE  Interval(Clamp(higher, lower)) /\ Within(Clamp(higher, lower), higher)
<1>0. /\ higher.lo \in Int /\ higher.hi \in Int /\ lower.lo \in Int /\ lower.hi \in Int
      /\ higher.lo <= higher.hi
  BY BoundsAreIntegers DEF Interval
<1> DEFINE c == Clamp(higher, lower)
<1>1. CASE Meets(higher, lower)
  <2>1. c.lo = Upper(higher.lo, lower.lo) /\ c.hi = Lower(higher.hi, lower.hi)
    BY <1>1 DEF Clamp, Meet
  <2>2. c.lo <= c.hi
    BY <1>1, <2>1 DEF Meets, Meet
  <2> QED BY <1>0, <2>1, <2>2 DEF Interval, Within, Upper, Lower
<1>2. CASE ~Meets(higher, lower)
  <2>1. c = higher
    BY <1>2 DEF Clamp
  <2> QED BY <1>0, <2>1 DEF Within
<1> QED BY <1>1, <1>2

\* Economics never widens a compliance bound, nor compliance a safety bound.
THEOREM LowerTiersNeverWiden ==
    ASSUME NEW safety, NEW compliance, NEW economics,
           Interval(safety), Interval(compliance), Interval(economics)
    PROVE  LET r == ResolveInterval(safety, compliance, economics)
           IN  /\ Interval(r)
               /\ Within(r, Clamp(safety, compliance)) /\ Within(r, safety)
<1> DEFINE inner == Clamp(safety, compliance)
           r == Clamp(inner, economics)
<1>1. Interval(inner) /\ Within(inner, safety)
  BY ClampStaysWithin
<1>2. Interval(r) /\ Within(r, inner)
  BY <1>1, ClampStaysWithin
<1>3. ResolveInterval(safety, compliance, economics) = r
  BY DEF ResolveInterval
<1>4. /\ safety.lo \in Int /\ safety.hi \in Int /\ inner.lo \in Int /\ inner.hi \in Int
      /\ r.lo \in Int /\ r.hi \in Int
  BY <1>1, <1>2, BoundsAreIntegers DEF Interval
<1> HIDE DEF inner, r
<1>5. Within(r, safety)
  BY <1>1, <1>2, <1>4 DEF Within
<1> QED BY <1>1, <1>2, <1>3, <1>5 DEF inner

\* The setpoint of a pack keeps every cap that was resolved for it.
THEOREM SetpointIsAllowed ==
    ASSUME NEW iv, Interval(iv)
    PROVE  iv.lo <= ProjectSetpoint(iv) /\ ProjectSetpoint(iv) <= iv.hi
<1>0. iv.lo \in Int /\ iv.hi \in Int /\ iv.lo <= iv.hi
  BY BoundsAreIntegers DEF Interval
<1> QED BY <1>0 DEF ProjectSetpoint, Upper, Lower

-----------------------------------------------------------------------------
(* The count of a draining pack on its way through the rules.              *)

Fields(s) ==
    /\ DOMAIN s = {"plan", "g", "power", "surplus", "followed", "headroom"}
    /\ DOMAIN s.plan = {"batt", "connect", "solar", "ev", "breach"}
    /\ DOMAIN s.g = {"exp", "expOver", "zeroLever", "imp", "gen", "ausGen", "ausLoad",
                     "hold", "recover", "drain", "wrong", "lastBatt"}

\* A rule before the backstop has no say on the count, nor on the contactor.
Leaves(s, t) ==
    Fields(t) /\ t.g.drain = s.g.drain /\ t.plan.connect = s.plan.connect

LEMMA BreachLeaves ==
    ASSUME NEW s, Fields(s), NEW kind, NEW short
    PROVE  Leaves(s, RecordBreach(s, kind, short))
BY DEF Fields, Leaves, RecordBreach

LEMMA ReportLeaves ==
    ASSUME NEW s, Fields(s), NEW due, NEW kind, NEW short
    PROVE  Leaves(s, ReportOnce(s, due, kind, short))
BY BreachLeaves DEF Fields, Leaves, ReportOnce

LEMMA CommandLeaves ==
    ASSUME NEW s, Fields(s), NEW w
    PROVE  Leaves(s, Commanded(s, w))
BY DEF Fields, Leaves, Commanded

LEMMA ExportLimitLeaves ==
    ASSUME NEW i, NEW s, Fields(s)
    PROVE  Leaves(s, ExportLimit(i, s))
<1>1. ASSUME NEW absorb, NEW ev, NEW capped
      PROVE  Leaves(s, ExportCommands(i, s, absorb, ev, capped))
  BY DEF Fields, Leaves, ExportCommands
<1>2. ASSUME NEW commands, Leaves(s, commands), NEW zero, NEW session
      PROVE  Leaves(s, [commands EXCEPT !.g.zeroLever = zero, !.g.exp = session])
  BY <1>2 DEF Fields, Leaves
<1>3. ASSUME NEW e, NEW absorb, NEW target, NEW ev, NEW ceiling
      PROVE  Leaves(s, ExportDefence(i, s, e, absorb, target, ev, ceiling))
  <2> DEFINE capped == Least(ceiling, Nameplate)
             commands == ExportCommands(i, s, absorb, ev, capped)
             session == ExportSession(i, s, e, absorb, target, ev, capped)
             zero == Leaky(s.g.zeroLever, ActualExport(i, s) > i.lim.exp /\ ceiling = 0)
             done == [commands EXCEPT !.g.zeroLever = zero, !.g.exp = session]
             short == ActualExport(i, s) - i.lim.exp
  <2>1. Leaves(s, done)
    BY <1>1, <1>2
  <2>2. \/ ExportDefence(i, s, e, absorb, target, ev, ceiling) = done
        \/ ExportDefence(i, s, e, absorb, target, ev, ceiling)
              = RecordBreach(done, "export", short)
    BY DEF ExportDefence
  <2> HIDE DEF capped, commands, session, zero, done, short
  <2>3. Leaves(s, RecordBreach(done, "export", short))
    BY <2>1, BreachLeaves DEF Leaves
  <2> QED
    BY <2>1, <2>2, <2>3
<1> QED
  BY <1>3 DEF Fields, Leaves, ExportLimit

LEMMA CheckExportLeaves ==
    ASSUME NEW i, NEW s, Fields(s)
    PROVE  Leaves(s, CheckExport(i, s))
BY ReportLeaves DEF Fields, Leaves, CheckExport

LEMMA GenLimitLeaves ==
    ASSUME NEW i, NEW s, Fields(s)
    PROVE  Leaves(s, GenLimit(i, s))
BY DEF Fields, Leaves, GenLimit

LEMMA CheckGenLeaves ==
    ASSUME NEW i, NEW s, Fields(s)
    PROVE  Leaves(s, CheckGen(i, s))
BY BreachLeaves DEF Fields, Leaves, CheckGen

LEMMA ImportLimitLeaves ==
    ASSUME NEW i, NEW s, Fields(s)
    PROVE  Leaves(s, ImportLimit(i, s))
<1>1. ASSUME NEW add PROVE Leaves(s, Raised(Halted(s), add))
  BY CommandLeaves DEF Fields, Leaves, Raised, Halted
<1>2. ASSUME NEW eased, NEW wanted PROVE Leaves(s, ImportDefence(i, s, eased, wanted))
  BY <1>1, BreachLeaves DEF Fields, Leaves, ImportDefence
<1> QED
  BY <1>2 DEF Fields, Leaves, ImportLimit

LEMMA CheckImportLeaves ==
    ASSUME NEW i, NEW s, Fields(s)
    PROVE  Leaves(s, CheckImport(i, s))
BY ReportLeaves DEF Fields, Leaves, CheckImport

LEMMA AusGenLimitLeaves ==
    ASSUME NEW i, NEW s, Fields(s)
    PROVE  Leaves(s, AusGenLimit(i, s))
BY CommandLeaves DEF Fields, Leaves, AusGenLimit

LEMMA CheckAusGenLeaves ==
    ASSUME NEW i, NEW s, Fields(s)
    PROVE  Leaves(s, CheckAusGen(i, s))
BY BreachLeaves DEF Fields, Leaves, CheckAusGen

LEMMA EconomiseLeaves ==
    ASSUME NEW i, NEW s, Fields(s)
    PROVE  /\ Leaves(s, SelfConsumption(i, s)) /\ Leaves(s, PeakDischarge(i, s))
           /\ Leaves(s, EvCharging(i, s))
BY CommandLeaves DEF Fields, Leaves, SelfConsumption, PeakDischarge, EvCharging

LEMMA DispatchLeaves ==
    ASSUME NEW i, NEW s, Fields(s)
    PROVE  Leaves(s, FixedDispatch(i, s)) /\ Leaves(s, FollowPlan(i, s))
BY CommandLeaves DEF Fields, Leaves, FixedDispatch, FollowPlan

LEMMA AusLoadLimitLeaves ==
    ASSUME NEW i, NEW s, Fields(s)
    PROVE  Leaves(s, AusLoadLimit(i, s))
BY DEF Fields, Leaves, AusLoadLimit, MergeEvLimit

LEMMA CheckAusLoadLeaves ==
    ASSUME NEW i, NEW s, Fields(s)
    PROVE  Leaves(s, CheckAusLoad(i, s))
BY ReportLeaves DEF Fields, Leaves, CheckAusLoad

GuardFields(k) ==
    DOMAIN k = {"exp", "expOver", "zeroLever", "imp", "gen", "ausGen", "ausLoad",
                "hold", "recover", "drain", "wrong", "lastBatt"}

Draining(i) ==
    i.batt.up /\ i.batt.power > 0 /\ i.batt.soc # NaN /\ i.batt.soc <= Reserve

\* A tick's guards and plan, after guards k: the count has gone on, and at its
\* end the pack is cut off.
Counted(i, k, after, connect) ==
    /\ GuardFields(after) /\ after.drain \in 0..Ticks
    /\ Draining(i) => after.drain = Least(k.drain + 1, Ticks)
    /\ Draining(i) /\ k.drain + 1 >= Ticks => connect = FALSE

LEMMA SafetyCounts ==
    ASSUME NEW i, NEW s, Fields(s), s.g.drain \in 0..Ticks
    PROVE  LET t == CheckBatterySafety(i, s)
           IN  /\ Fields(t) /\ Counted(i, s.g, t.g, t.plan.connect)
               /\ t.plan.connect \in {s.plan.connect, FALSE}
<1> DEFINE t == CheckBatterySafety(i, s)
<1>0. Ticks \in Nat \ {0}
  BY CascadeAssumption
<1>1. CASE ~i.batt.up \/ i.batt.soc = NaN
  <2>1. t = [s EXCEPT !.g.drain = 0, !.g.wrong = 0]
    BY <1>1 DEF CheckBatterySafety
  <2>2. ~Draining(i)
    BY <1>1 DEF Draining
  <2>3. /\ Fields(t) /\ t.g.drain = 0 /\ t.plan.connect = s.plan.connect
    BY <2>1 DEF Fields
  <2> QED
    BY <1>0, <2>2, <2>3 DEF Fields, GuardFields, Counted
<1>2. CASE ~(~i.batt.up \/ i.batt.soc = NaN)
  <2> DEFINE atRest == s.g.hold \/ i.batt.soc <= Reserve
             charge == ChargeCommanded(s.plan.batt, s.g.lastBatt)
             drain == IF i.batt.power > 0 /\ atRest THEN Least(s.g.drain + 1, Ticks) ELSE 0
             wrong == IF i.batt.power > 0 /\ charge THEN Least(s.g.wrong + 1, Ticks) ELSE 0
             trips == CriticalInversion(i.batt, charge) \/ drain >= Ticks \/ wrong >= Ticks
             counted == [s EXCEPT !.g.drain = drain, !.g.wrong = wrong]
  <2>1. t = IF trips THEN [counted EXCEPT !.plan.batt = 0, !.plan.connect = FALSE]
            ELSE counted
    BY <1>2 DEF CheckBatterySafety
  <2>2. drain \in 0..Ticks /\ (Draining(i) => drain = Least(s.g.drain + 1, Ticks))
    BY <1>0 DEF Least, Draining
  <2>3. Draining(i) /\ s.g.drain + 1 >= Ticks => trips
    BY <1>0, <2>2 DEF Least
  <2> HIDE DEF drain, wrong, trips, atRest, charge
  <2>4. /\ Fields(counted) /\ counted.g.drain = drain
        /\ counted.plan.connect = s.plan.connect
    BY DEF Fields
  <2>5. /\ Fields(t) /\ t.g.drain = drain
        /\ t.plan.connect = IF trips THEN FALSE ELSE s.plan.connect
    BY <2>1, <2>4 DEF Fields
  <2> HIDE DEF t
  <2>6. /\ Draining(i) /\ s.g.drain + 1 >= Ticks => t.plan.connect = FALSE
        /\ t.plan.connect \in {s.plan.connect, FALSE}
    BY <2>3, <2>5
  <2>7. GuardFields(t.g) /\ t.g.drain = drain
    BY <2>5 DEF Fields, GuardFields
  <2>8. Counted(i, s.g, t.g, t.plan.connect)
    BY <2>2, <2>6, <2>7 DEF Counted
  <2> QED
    BY <2>5, <2>6, <2>8 DEF t
<1> QED
  BY <1>1, <1>2

LEMMA HoldsLeave ==
    ASSUME NEW b, NEW k, GuardFields(k)
    PROVE  /\ GuardFields(UpdateReserveHolds(b, k))
           /\ UpdateReserveHolds(b, k).drain = k.drain
BY DEF GuardFields, UpdateReserveHolds

\* The cascade counts, whatever its rules plan.
LEMMA CascadeCounts ==
    ASSUME NEW i, NEW k, GuardFields(k), k.drain \in 0..Ticks
    PROVE  LET o == Optimize(i, k)
           IN  /\ i.cease => o.g = k /\ o.plan.connect = FALSE
               /\ ~i.cease => Counted(i, k, o.g, o.plan.connect)
<1>1. CASE i.cease
  BY <1>1 DEF Optimize, CeasePlan, NoPlan
<1>2. CASE ~i.cease
  <2>1. Fields(Start(i, k)) /\ Start(i, k).g.drain = k.drain
    BY HoldsLeave DEF Fields, GuardFields, Start, NoPlan
  <2>2. Fields(Dispatch(i, k)) /\ Dispatch(i, k).g.drain = k.drain
    BY <2>1, DispatchLeaves DEF Leaves, Dispatch
  <2>3. ASSUME NEW s, Fields(s) PROVE Leaves(s, Comply(i, s))
    <3>1. Leaves(s, ExportLimit(i, s))
      BY <2>3, ExportLimitLeaves
    <3>2. Leaves(s, CheckExport(i, ExportLimit(i, s)))
      BY <3>1, CheckExportLeaves DEF Leaves
    <3> DEFINE a == CheckExport(i, ExportLimit(i, s))
               b == CheckGen(i, GenLimit(i, a))
               c == CheckImport(i, ImportLimit(i, b))
    <3>3. Leaves(s, b)
      <4> HIDE DEF a
      <4>1. Leaves(a, GenLimit(i, a))
        BY <3>2, GenLimitLeaves DEF a, Leaves
      <4> QED BY <3>2, <4>1, CheckGenLeaves DEF a, Leaves
    <3>4. Leaves(s, c)
      <4> HIDE DEF b
      <4>1. Leaves(b, ImportLimit(i, b))
        BY <3>3, ImportLimitLeaves DEF Leaves
      <4> QED BY <3>3, <4>1, CheckImportLeaves DEF Leaves
    <3> HIDE DEF c
    <3>5. Leaves(c, AusGenLimit(i, c))
      BY <3>4, AusGenLimitLeaves DEF Leaves
    <3>6. Leaves(s, CheckAusGen(i, AusGenLimit(i, c)))
      BY <3>4, <3>5, CheckAusGenLeaves DEF Leaves
    <3> QED BY <3>6 DEF c, Comply
  <2>4. ASSUME NEW s, Fields(s) PROVE Leaves(s, Economise(i, s))
    <3> DEFINE a == SelfConsumption(i, s)
               b == PeakDischarge(i, a)
    <3>1. Leaves(s, a)
      BY <2>4, EconomiseLeaves
    <3> HIDE DEF a
    <3>2. Leaves(s, b)
      BY <3>1, EconomiseLeaves DEF Leaves
    <3> HIDE DEF b
    <3>3. Leaves(s, EvCharging(i, b))
      BY <3>2, EconomiseLeaves DEF Leaves
    <3> QED BY <3>3 DEF a, b, Economise
  <2>5. ASSUME NEW s, Fields(s), s.g.drain = k.drain
        PROVE  LET t == Backstop(i, s)
               IN  Fields(t) /\ Counted(i, k, t.g, t.plan.connect)
    <3> DEFINE a == AusLoadLimit(i, s)
               b == CheckAusLoad(i, a)
               c == Restore(i, b)
    <3>1. Leaves(s, a)
      BY <2>5, AusLoadLimitLeaves
    <3> HIDE DEF a
    <3>2. Leaves(s, b)
      BY <3>1, CheckAusLoadLeaves DEF Leaves
    <3> HIDE DEF b
    <3>3. Fields(c) /\ c.g.drain = k.drain
      BY <2>5, <3>2 DEF Leaves, Fields, Restore
    <3> HIDE DEF c
    <3>4. LET t == CheckBatterySafety(i, c)
          IN  Fields(t) /\ Counted(i, c.g, t.g, t.plan.connect)
      BY <3>3, SafetyCounts
    <3> QED BY <3>3, <3>4 DEF a, b, c, Backstop, Counted
  <2> DEFINE s == Economise(i, Comply(i, Dispatch(i, k)))
             t == Backstop(i, s)
  <2>6. Fields(s) /\ s.g.drain = k.drain
    BY <2>2, <2>3, <2>4 DEF Leaves
  <2> HIDE DEF s
  <2>7. Fields(t) /\ Counted(i, k, t.g, t.plan.connect)
    BY <2>5, <2>6
  <2> HIDE DEF t
  <2>8. Optimize(i, k) =
          [plan |-> t.plan,
           g |-> [t.g EXCEPT !.lastBatt = IF t.plan.batt = NaN THEN @ ELSE t.plan.batt]]
    BY <1>2 DEF s, t, Optimize
  <2> QED
    BY <1>2, <2>7, <2>8 DEF Fields, Counted, GuardFields
<1> QED
  BY <1>1, <1>2

-----------------------------------------------------------------------------
(* The same count in a stack of constraints.                               *)

\* A constraint hands its session on, and has no opinion on the contactor.
Speaks(k, o) == GuardFields(o.k) /\ o.k.drain = k.drain /\ o.connect = NaN

LEMMA EmptyHasFields ==
    ASSUME NEW i, NEW k, GuardFields(k)
    PROVE  Fields(Empty(i, k)) /\ Empty(i, k).g = k
BY DEF Fields, GuardFields, Empty, NoPlan

LEMMA ComplianceSpeaks ==
    ASSUME NEW i, NEW k, GuardFields(k)
    PROVE  /\ Speaks(k, ExportConstraint(i, k)) /\ Speaks(k, GenLimitConstraint(i, k))
           /\ Speaks(k, ImportLimitConstraint(i, k)) /\ Speaks(k, AusGenLimitConstraint(i, k))
<1> DEFINE e == Empty(i, k)
<1>1. Fields(e) /\ e.g = k
  BY EmptyHasFields
<1> HIDE DEF e
<1>2. Leaves(e, CheckExport(i, ExportLimit(i, e)))
  BY <1>1, ExportLimitLeaves, CheckExportLeaves DEF Leaves
<1>3. Leaves(e, CheckGen(i, GenLimit(i, e)))
  BY <1>1, GenLimitLeaves, CheckGenLeaves DEF Leaves
<1>4. Leaves(e, CheckImport(i, ImportLimit(i, e)))
  BY <1>1, ImportLimitLeaves, CheckImportLeaves DEF Leaves
<1>5. Leaves(e, CheckAusGen(i, e))
  BY <1>1, CheckAusGenLeaves DEF Leaves
<1>6. Speaks(k, ExportConstraint(i, k))
  BY <1>1, <1>2 DEF e, ExportConstraint, ExportControl, ExportDemands, Opinion,
                    Speaks, Leaves, Fields, GuardFields
<1>7. Speaks(k, GenLimitConstraint(i, k))
  BY <1>1, <1>3 DEF e, GenLimitConstraint, GenDemands, Opinion,
                    Speaks, Leaves, Fields, GuardFields
<1>8. Speaks(k, ImportLimitConstraint(i, k))
  BY <1>1, <1>4 DEF e, ImportLimitConstraint, ImportControl, ImportDemands, Opinion,
                    Speaks, Leaves, Fields, GuardFields
<1>9. Speaks(k, AusGenLimitConstraint(i, k))
  BY <1>1, <1>5 DEF e, AusGenLimitConstraint, AusGenDemands, Opinion,
                    Speaks, Leaves, Fields, GuardFields
<1> QED
  BY <1>6, <1>7, <1>8, <1>9

LEMMA AusLoadSpeaks ==
    ASSUME NEW i, NEW k, GuardFields(k)
    PROVE  Speaks(k, AusLoadLimitConstraint(i, k))
<1> DEFINE e == Empty(i, k)
           control == AusLoadControl(i, AusLoadSample(i, e))
           held == [e EXCEPT !.g.ausLoad = control]
           s == CheckAusLoad(i, held)
<1>1. Fields(e) /\ e.g = k
  BY EmptyHasFields
<1>2. CASE i.lim.load = NaN
  BY <1>2 DEF AusLoadLimitConstraint, Opinion, Speaks, GuardFields
<1>3. CASE i.lim.load # NaN
  <2>1. AusLoadLimitConstraint(i, k) = AusLoadDemands(i, s)
    BY <1>3 DEF AusLoadLimitConstraint
  <2> HIDE DEF e, control
  <2>2. Fields(held) /\ held.g.drain = k.drain
    BY <1>1 DEF Fields
  <2> HIDE DEF held
  <2>3. Leaves(held, s)
    BY <2>2, CheckAusLoadLeaves
  <2> HIDE DEF s
  <2>4. Speaks(k, AusLoadDemands(i, s))
    BY <2>2, <2>3 DEF AusLoadDemands, Opinion, Speaks, Leaves, Fields, GuardFields
  <2> QED
    BY <2>1, <2>4
<1> QED
  BY <1>2, <1>3

LEMMA LowestSpeaks ==
    ASSUME NEW i, NEW k, GuardFields(k)
    PROVE  /\ Speaks(k, EconomicsConstraint(i, k))
           /\ GuardFields(CSIPPassthrough(i, k).k)
           /\ CSIPPassthrough(i, k).k.drain = k.drain
BY DEF EconomicsConstraint, EconomicDemands, CSIPPassthrough, Opinion, Speaks, GuardFields

\* A pass over guards k, before anybody but the lowest tier spoke of the contactor.
Passes(k, pass) ==
    /\ DOMAIN pass = {"k", "breach", "said"}
    /\ DOMAIN pass.said = {"export", "gen", "import", "gen-aus", "load-aus", "lowest"}
    /\ GuardFields(pass.k) /\ pass.k.drain = k.drain

LEMMA HeardPasses ==
    ASSUME NEW k, NEW pass, Passes(k, pass), NEW o, NEW name,
           GuardFields(o.k), o.k.drain = k.drain
    PROVE  /\ Passes(k, Heard(pass, name, o))
           /\ name # "lowest" => Heard(pass, name, o).said["lowest"] = pass.said["lowest"]
           /\ name = "lowest" => Heard(pass, name, o).said["lowest"] = o
BY DEF Passes, Heard

LEMMA CompliedPasses ==
    ASSUME NEW i, NEW k, GuardFields(k), NEW wired
    PROVE  /\ Passes(k, Complied(i, k, wired))
           /\ Complied(i, k, wired).said["lowest"].connect = NaN
<1> DEFINE OK(pass) == Passes(k, pass) /\ pass.said["lowest"].connect = NaN
           start == NoPass(UpdateReserveHolds(i.batt, k))
           a == Turn(i, start, "export", ExportConstraint, wired)
           b == Turn(i, a, "gen", GenLimitConstraint, wired)
           c == Turn(i, b, "import", ImportLimitConstraint, wired)
           d == Turn(i, c, "gen-aus", AusGenLimitConstraint, wired)
           e == Turn(i, d, "load-aus", AusLoadLimitConstraint, wired)
<1>1. OK(start)
  BY HoldsLeave DEF NoPass, Passes, Opinion
<1>2. ASSUME NEW pass, OK(pass), NEW o, Speaks(pass.k, o),
             NEW name \in {"export", "gen", "import", "gen-aus", "load-aus"}
      PROVE  OK(Heard(pass, name, o))
  BY <1>2, HeardPasses DEF Speaks, Passes
<1>3. OK(a)
  BY <1>1, <1>2, ComplianceSpeaks DEF Turn, Passes
<1> HIDE DEF start, a
<1>4. OK(b)
  BY <1>3, <1>2, ComplianceSpeaks DEF Turn, Passes
<1> HIDE DEF b
<1>5. OK(c)
  BY <1>4, <1>2, ComplianceSpeaks DEF Turn, Passes
<1> HIDE DEF c
<1>6. OK(d)
  BY <1>5, <1>2, ComplianceSpeaks DEF Turn, Passes
<1> HIDE DEF d
<1>7. OK(e)
  BY <1>6, <1>2, AusLoadSpeaks DEF Turn, Passes
<1> QED
  BY <1>7 DEF Complied, start, a, b, c, d

\* Battery safety has the last word on what a pass comes to.
LEMMA EmittedCounts ==
    ASSUME NEW i, NEW k, k.drain \in 0..Ticks, NEW pass, Passes(k, pass),
           NEW wired, NEW lowest, NEW des
    PROVE  LET o == Arbitrated(i, pass, wired, lowest, des)
           IN  /\ GuardFields(o.k) /\ o.k.drain \in 0..Ticks
               /\ "battery-safety" \in wired => Counted(i, k, o.k, o.plan.connect)
               /\ o.plan.connect \in {pass.said["lowest"].connect, FALSE}
<1> DEFINE connect == pass.said["lowest"].connect
           p == EmitCommands(des, connect, lowest = "economics")
           e == [Empty(i, pass.k) EXCEPT !.plan = p]
           t == CheckBatterySafety(i, e)
           o == Arbitrated(i, pass, wired, lowest, des)
<1>1. DOMAIN p = {"batt", "connect", "solar", "ev", "breach"} /\ p.connect = connect
  BY DEF EmitCommands, NoPlan
<1>2. GuardFields(pass.k) /\ pass.k.drain = k.drain
  BY DEF Passes
<1> HIDE DEF connect, p
<1>3. Fields(e) /\ e.g = pass.k /\ e.plan = p
  BY <1>1, <1>2, EmptyHasFields DEF Fields
<1>4. /\ Fields(t) /\ Counted(i, pass.k, t.g, t.plan.connect)
      /\ t.plan.connect \in {connect, FALSE}
  <2> HIDE DEF e
  <2> QED BY <1>1, <1>2, <1>3, SafetyCounts
<1>5. CASE "battery-safety" \in wired
  <2> HIDE DEF t
  <2>1. /\ o.plan = [t.plan EXCEPT !.breach = pass.breach]
        /\ o.k = [t.g EXCEPT !.lastBatt = IF t.plan.batt = NaN THEN @ ELSE t.plan.batt]
    BY <1>5 DEF p, connect, t, Arbitrated, Emitted, Judged, PostArbitrate
  <2>2. o.plan.connect = t.plan.connect
    BY <1>4, <2>1 DEF Fields
  <2>3. GuardFields(o.k) /\ o.k.drain = t.g.drain
    BY <1>4, <2>1 DEF Fields, GuardFields
  <2> HIDE DEF o
  <2>4. Counted(i, k, o.k, o.plan.connect)
    BY <1>2, <1>4, <2>2, <2>3 DEF Counted
  <2> QED
    BY <1>4, <2>2, <2>4 DEF Counted, o, connect
<1>6. CASE "battery-safety" \notin wired
  <2>1. o.plan = [p EXCEPT !.breach = pass.breach] /\ o.k = pass.k
    BY <1>6 DEF p, connect, Arbitrated, Emitted, Judged
  <2>2. o.plan.connect = connect
    BY <1>1, <2>1
  <2> QED
    BY <1>2, <1>6, <2>1, <2>2 DEF connect
<1> QED
  BY <1>5, <1>6

\* The gateway's stack counts as the cascade does; the candidate stack never
\* asks for a contactor to be closed.
LEMMA GatewayCounts ==
    ASSUME NEW i, NEW k, GuardFields(k), k.drain \in 0..Ticks
    PROVE  LET o == GatewayOptimize(i, k)
           IN  Counted(i, k, o.k, o.plan.connect)
<1> DEFINE done == Complied(i, k, GatewayStack)
           pass == Heard(done, "lowest", CSIPPassthrough(i, done.k))
<1>1. Passes(k, pass)
  BY CompliedPasses, LowestSpeaks, HeardPasses DEF Passes
<1>2. GatewayOptimize(i, k)
        = Arbitrated(i, pass, GatewayStack, "csip-passthrough", Resolved(pass.said))
  BY DEF GatewayOptimize, RunStack, Finished
<1>3. "battery-safety" \in GatewayStack
  BY DEF GatewayStack
<1> HIDE DEF pass
<1>4. LET o == Arbitrated(i, pass, GatewayStack, "csip-passthrough", Resolved(pass.said))
      IN  Counted(i, k, o.k, o.plan.connect)
  BY <1>1, <1>3, EmittedCounts
<1> QED
  BY <1>2, <1>4

LEMMA CandidateNeverCloses ==
    ASSUME NEW i, NEW k, GuardFields(k), k.drain \in 0..Ticks
    PROVE  LET o == CandidateOptimize(i, k)
           IN  /\ GuardFields(o.k) /\ o.k.drain \in 0..Ticks
               /\ o.plan.connect \in {NaN, FALSE}
<1> DEFINE done == Complied(i, k, Wired)
           pass == Heard(done, "lowest", EconomicsConstraint(i, done.k))
<1>1. Passes(k, done) /\ done.said["lowest"].connect = NaN
  BY CompliedPasses
<1>2. CASE "economics" \in Wired
  <2>1. Speaks(done.k, EconomicsConstraint(i, done.k))
    BY <1>1, LowestSpeaks DEF Passes
  <2>2. Passes(k, pass) /\ pass.said["lowest"].connect = NaN
    <3> HIDE DEF done
    <3> QED BY <1>1, <2>1, HeardPasses DEF Passes, Speaks
  <2>3. CandidateOptimize(i, k)
          = Arbitrated(i, pass, Wired, "economics", Resolved(pass.said))
    BY <1>2 DEF CandidateOptimize, RunStack, Finished
  <2> HIDE DEF pass
  <2> QED
    BY <2>2, <2>3, EmittedCounts
<1>3. CASE "economics" \notin Wired
  <2>1. CandidateOptimize(i, k)
          = Arbitrated(i, done, Wired, "economics", Resolved(done.said))
    BY <1>3 DEF CandidateOptimize, RunStack, Finished
  <2> HIDE DEF done
  <2> QED
    BY <1>1, <2>1, EmittedCounts
<1> QED
  BY <1>2, <1>3

-----------------------------------------------------------------------------
(* A pack that drains below its reserve is cut off.                        *)

Counting(k) == GuardFields(k) /\ k.drain \in 0..Ticks

\* The author in charge has counted at least what an observer has; the others'
\* sessions stand still, and an observer starts anew with another author.
DrainInv ==
    /\ Counting(g) /\ Counting(cand) /\ Counting(gate)
    /\ mode \in {"optimizer", "gateway"} /\ soc \in Charge
    /\ "closed" \in DOMAIN standing
    /\ DOMAIN streak = {"exp", "imp", "max", "gen", "load", "drain"}
    /\ streak["drain"] \in 0..Ticks
    /\ mode = "optimizer" => streak["drain"] <= g.drain
    /\ mode = "gateway" => streak["drain"] <= gate.drain
    /\ DrainIsCut

LEMMA DrainStarts == InitAuthors => DrainInv
<1> SUFFICES ASSUME InitAuthors PROVE DrainInv
  OBVIOUS
<1>1. Ticks \in Nat \ {0}
  BY CascadeAssumption
<1>2. Counting(InitGuards) /\ InitGuards.drain = 0
  BY <1>1 DEF Counting, GuardFields, InitGuards
<1> QED
  BY <1>1, <1>2 DEF InitAuthors, Init, DrainInv, DrainIsCut, NoStreak

\* What an observer counts is what the backstop counts.
LEMMA MissIsDraining ==
    ASSUME soc \in Charge, Miss(Observed)["drain"]
    PROVE  Draining(Observed)
<1>1. /\ Observed.batt.power > 0 /\ Observed.batt.soc # NaN
      /\ Observed.batt.soc <= Reserve
  BY DEF Miss
<1>2. Observed.batt.up
  <2> SUFFICES ASSUME env.pack = "dark" PROVE FALSE
    BY DEF Observed
  <2>1. Observed.batt.power = 0
    BY DEF Observed
  <2> QED BY <1>1, <2>1
<1> QED
  BY <1>1, <1>2 DEF Draining

LEMMA StreakCounts ==
    ASSUME NEW i, DOMAIN streak = {"exp", "imp", "max", "gen", "load", "drain"}
    PROVE  /\ DOMAIN Streak(i) = DOMAIN streak
           /\ Streak(i)["drain"] = IF Miss(i)["drain"]
                                   THEN Least(Ticks, 1 + streak["drain"]) ELSE 0
BY DEF Streak

\* A tick in which the plan p was made by the author with guards k.
LEMMA TickKeepsDrain ==
    ASSUME DrainInv, NEW p, NEW k, NEW after, Actuated(Observed, p),
           Counting(k), streak["drain"] <= k.drain, ~env.cease,
           Counted(Observed, k, after, p.connect)
    PROVE  /\ DOMAIN streak' = DOMAIN streak /\ streak'["drain"] \in 0..Ticks
           /\ streak'["drain"] <= after.drain
           /\ streak'["drain"] >= Ticks => p.connect = FALSE
<1>1. Ticks \in Nat \ {0} /\ k.drain \in 0..Ticks /\ streak["drain"] \in 0..Ticks
  BY CascadeAssumption DEF Counting, DrainInv
<1>2. streak' = Streak(Observed)
  BY DEF Actuated, Observed
<1>3. /\ DOMAIN streak' = DOMAIN streak
      /\ streak'["drain"] = IF Miss(Observed)["drain"]
                            THEN Least(Ticks, 1 + streak["drain"]) ELSE 0
  BY <1>2, StreakCounts DEF DrainInv
<1>4. CASE Miss(Observed)["drain"]
  <2>1. Draining(Observed)
    BY <1>4, MissIsDraining DEF DrainInv
  <2>2. /\ after.drain = Least(k.drain + 1, Ticks)
        /\ k.drain + 1 >= Ticks => p.connect = FALSE
    BY <2>1 DEF Counted
  <2> QED
    BY <1>1, <1>3, <1>4, <2>2 DEF Least
<1>5. CASE ~Miss(Observed)["drain"]
  <2>1. after.drain \in 0..Ticks
    BY DEF Counted
  <2> QED
    BY <1>1, <1>3, <1>5, <2>1
<1> QED
  BY <1>4, <1>5

LEMMA CeaseKeepsDrain ==
    ASSUME NEW p, Actuated(Observed, p), env.cease
    PROVE  /\ DOMAIN streak' = {"exp", "imp", "max", "gen", "load", "drain"}
           /\ streak'["drain"] = 0
BY DEF Actuated, Observed, NoStreak

LEMMA DrainStep == DrainInv /\ [NextAuthors]_avars => DrainInv'
<1> SUFFICES ASSUME DrainInv, [NextAuthors]_avars PROVE DrainInv'
  OBVIOUS
<1>0. Ticks \in Nat \ {0} /\ Charge \subseteq 0..100 /\ NaN \notin BOOLEAN
  BY CascadeAssumption, OptimizerAssumption
<1>1. CASE OptimizerTick
  <2> DEFINE i == Observed
             legacy == Optimize(i, g)
             asked == CandidateOptimize(i, cand)
  <2>1. /\ mode = "optimizer" /\ g' = legacy.g /\ gate' = gate /\ standing' = Merged(plan')
        /\ Actuated(i, plan')
        /\ \/ plan' = legacy.plan /\ cand' = cand
           \/ cand' = asked.k
              /\ plan' = IF active = {} THEN legacy.plan
                         ELSE Compose(legacy.plan, asked.plan, asked.authors, active)
    BY <1>1 DEF OptimizerTick, Actuated
  <2>2. Counting(asked.k) /\ asked.plan.connect \in {NaN, FALSE}
    BY CandidateNeverCloses DEF DrainInv, Counting
  <2>3. /\ i.cease => legacy.g = g /\ legacy.plan.connect = FALSE
        /\ ~i.cease => Counted(i, g, legacy.g, legacy.plan.connect)
    BY CascadeCounts DEF DrainInv, Counting
  <2> HIDE DEF legacy, asked
  <2>4. legacy.plan.connect = FALSE => plan'.connect = FALSE
    <3>1. Compose(legacy.plan, asked.plan, asked.authors, active).connect
            \in {legacy.plan.connect, asked.plan.connect} \ {NaN}
          \/ Compose(legacy.plan, asked.plan, asked.authors, active).connect
               = legacy.plan.connect
      BY DEF Compose
    <3> QED
      BY <2>1, <2>2, <3>1
  <2>5. plan'.connect = FALSE => standing'.closed = FALSE
    BY <1>0, <2>1 DEF Merged
  <2>6. "closed" \in DOMAIN standing'
    BY <2>1 DEF Merged
  <2>7. mode' = mode /\ soc' = soc
    BY <2>1 DEF Actuated
  <2>8. CASE env.cease
    <3>1. i.cease
      BY <2>8 DEF Observed
    <3>2. /\ DOMAIN streak' = {"exp", "imp", "max", "gen", "load", "drain"}
          /\ streak'["drain"] = 0
      BY <2>1, <2>8, CeaseKeepsDrain
    <3>3. Counting(g') /\ Counting(cand') /\ Counting(gate')
      BY <2>1, <2>2, <2>3, <3>1 DEF DrainInv
    <3>4. g'.drain \in 0..Ticks
      BY <3>3 DEF Counting
    <3> QED
      BY <1>0, <2>1, <2>6, <2>7, <3>2, <3>3, <3>4 DEF DrainInv, DrainIsCut
  <2>9. CASE ~env.cease
    <3>1. ~i.cease
      BY <2>9 DEF Observed
    <3>2. Counted(i, g, legacy.g, legacy.plan.connect)
      BY <2>3, <3>1
    <3>3. Actuated(i, plan') /\ streak["drain"] <= g.drain /\ Counting(g)
      BY <2>1 DEF DrainInv
    <3>4. Counting(g') /\ Counting(cand') /\ Counting(gate')
      BY <2>1, <2>2, <3>2 DEF DrainInv, Counted, Counting
    <3>5. Counted(i, g, legacy.g, plan'.connect)
      BY <2>4, <3>2 DEF Counted
    <3>6. /\ DOMAIN streak' = DOMAIN streak /\ streak'["drain"] \in 0..Ticks
          /\ streak'["drain"] <= legacy.g.drain
          /\ streak'["drain"] >= Ticks => plan'.connect = FALSE
      BY <2>9, <3>3, <3>5, TickKeepsDrain
    <3> QED
      BY <2>1, <2>5, <2>6, <2>7, <3>4, <3>6 DEF DrainInv, DrainIsCut
  <2> QED
    BY <2>8, <2>9
<1>2. CASE GatewayTick
  <2> DEFINE i == Observed
             o == GatewayOptimize(i, gate)
  <2>1. /\ mode = "gateway" /\ g' = g /\ cand' = cand /\ gate' = o.k
        /\ plan' = o.plan /\ Actuated(i, o.plan)
        /\ standing' = [Merged(o.plan) EXCEPT
                           !.off = IF i.cease THEN TRUE
                                   ELSE IF ExplicitConnect THEN FALSE ELSE standing.off]
    BY <1>2 DEF GatewayTick, Actuated
  <2>2. Counted(i, gate, o.k, o.plan.connect)
    BY GatewayCounts DEF DrainInv, Counting
  <2> HIDE DEF o
  <2>3. o.plan.connect = FALSE => standing'.closed = FALSE
    BY <1>0, <2>1 DEF Merged
  <2>4. "closed" \in DOMAIN standing'
    BY <2>1 DEF Merged
  <2>5. mode' = mode /\ soc' = soc
    BY <2>1 DEF Actuated
  <2>6. Counting(g') /\ Counting(cand') /\ Counting(gate')
    BY <2>1, <2>2 DEF DrainInv, Counted, Counting
  <2>7. CASE env.cease
    <3>1. /\ DOMAIN streak' = {"exp", "imp", "max", "gen", "load", "drain"}
          /\ streak'["drain"] = 0
      BY <2>1, <2>7, CeaseKeepsDrain
    <3>2. gate'.drain \in 0..Ticks
      BY <2>6 DEF Counting
    <3> QED
      BY <1>0, <2>1, <2>4, <2>5, <2>6, <3>1, <3>2 DEF DrainInv, DrainIsCut
  <2>8. CASE ~env.cease
    <3>1. Counting(gate) /\ streak["drain"] <= gate.drain
      BY <2>1 DEF DrainInv
    <3>2. /\ DOMAIN streak' = DOMAIN streak /\ streak'["drain"] \in 0..Ticks
          /\ streak'["drain"] <= o.k.drain
          /\ streak'["drain"] >= Ticks => o.plan.connect = FALSE
      BY <2>1, <2>2, <2>8, <3>1, TickKeepsDrain
    <3> QED
      BY <2>1, <2>3, <2>4, <2>5, <2>6, <3>2 DEF DrainInv, DrainIsCut
  <2> QED
    BY <2>7, <2>8
<1>3. CASE Flip
  <2>1. /\ streak' = NoStreak /\ mode' \in {"optimizer", "gateway"}
        /\ UNCHANGED <<g, cand, gate, soc, standing>>
    BY <1>3 DEF Flip
  <2>2. g.drain \in 0..Ticks /\ gate.drain \in 0..Ticks
    BY DEF DrainInv, Counting
  <2> QED
    BY <1>0, <2>1, <2>2 DEF DrainInv, DrainIsCut, NoStreak, Counting
<1>4. CASE FastTick /\ UNCHANGED authors
  <2>1. /\ standing' = [standing EXCEPT !.batt = 0, !.closed = FALSE]
        /\ UNCHANGED <<g, cand, gate, soc, mode, streak>>
    BY <1>4 DEF FastTick, authors
  <2> QED
    BY <2>1 DEF DrainInv, DrainIsCut, Counting
<1>5. CASE Drift /\ UNCHANGED authors
  <2>1. soc' \in Charge /\ UNCHANGED <<g, cand, gate, standing, mode, streak>>
    BY <1>5 DEF Drift, authors
  <2> QED
    BY <2>1 DEF DrainInv, DrainIsCut, Counting
<1>6. CASE (Weather \/ Breakdown \/ Control \/ Economy) /\ UNCHANGED authors
  <2>1. UNCHANGED <<g, cand, gate, soc, standing, mode, streak>>
    BY <1>6 DEF Weather, Breakdown, Control, Economy, Becomes, authors
  <2> QED
    BY <2>1 DEF DrainInv, DrainIsCut, Counting
<1>7. CASE UNCHANGED avars
  <2>1. UNCHANGED <<g, cand, gate, soc, standing, mode, streak>>
    BY <1>7 DEF avars, vars, authors
  <2> QED
    BY <2>1 DEF DrainInv, DrainIsCut, Counting
<1> QED
  BY <1>1, <1>2, <1>3, <1>4, <1>5, <1>6, <1>7 DEF NextAuthors, Between

\* A pack that is seen discharging at or below its reserve Ticks times in a
\* row is disconnected, whoever plans: the cascade, the cascade overlaid with
\* any set of candidate constraints, or the gateway's stack
\* (enforceBatterySafety's drain counter).
THEOREM DrainingPackIsCut == SpecAuthors => []DrainIsCut
<1>1. DrainInv => DrainIsCut
  BY DEF DrainInv
<1> QED
  BY <1>1, DrainStarts, DrainStep, PTL DEF SpecAuthors

-----------------------------------------------------------------------------
(* A cap on the inverter bounds the ceiling.  The ceiling of a plan is a   *)
(* number that the export rule works out from measurements and from what   *)
(* it last asked for, so the proof carries through the rules that these    *)
(* are numbers, and which of them are not negative.                        *)

Watts == Int \cup {NaN}
Amounts == Nat \cup {NaN}
Limits == 0..(Inf - 1) \cup {NaN}

\* What an author is told.
Input(i) ==
    /\ "target" \in DOMAIN i
    /\ i.net \in Watts /\ i.solar.power \in Nat
    /\ i.batt.power \in Int /\ i.batt.soc \in 0..100 \cup {NaN} /\ i.ev.power \in Int
    /\ i.lim.exp \in Limits /\ i.lim.imp \in Limits /\ i.lim.max \in Limits
    /\ i.lim.gen \in Limits /\ i.lim.load \in Limits
    /\ i.fixed \in Watts
    /\ i.target # NaN => i.target.batt \in Int /\ i.target.ev \in Int

\* What the guards remember of the levers.
ExpLevers(e) ==
    /\ DOMAIN e = {"limit", "ev", "absorb", "ceiling", "filtered", "safe", "stall"}
    /\ e.ev \in Amounts /\ e.absorb \in Amounts /\ e.ceiling \in Amounts
ImpLevers(m) ==
    DOMAIN m = {"limit", "discharge", "safe", "evSafe", "breach"} /\ m.discharge \in Amounts
LoadLevers(a) ==
    DOMAIN a = {"limit", "ev", "safe", "breach"} /\ a.ev \in Amounts
Levers(k) == GuardFields(k) /\ ExpLevers(k.exp) /\ ImpLevers(k.imp) /\ LoadLevers(k.ausLoad)

\* A pass of the rules.
Typed(s) ==
    /\ Fields(s) /\ Levers(s.g)
    /\ s.plan.batt \in Watts /\ s.plan.ev \in Watts /\ s.plan.solar \in Amounts
    /\ s.power \in Int /\ s.surplus \in Int /\ s.headroom \in Amounts

\* A rule that leaves the ceiling alone.
Keeps(s, t) == Typed(t) /\ t.plan.solar = s.plan.solar

LEMMA Ratings ==
    /\ Nameplate \in Nat \ {0} /\ BattMax \in Nat \ {0}
    /\ EvMin \in Nat \ {0} /\ EvMax \in Nat \ {0} /\ EvMin <= EvMax
    /\ EvStep \in Nat \ {0} /\ EvRelax \in Nat \ {0}
    /\ CeilDrop \in Nat \ {0} /\ CeilRise \in Nat \ {0} /\ BattRelax \in Nat \ {0}
    /\ TaperStart \in Nat /\ Full \in Nat /\ Full > TaperStart
    /\ NaN \notin Int
    /\ Inf \in Nat \ {0} /\ Nameplate < Inf /\ BattMax < Inf /\ EvMax < Inf
BY CascadeAssumption, StackAssumption

LEMMA Numbers ==
    /\ \A x \in Int : Pos(x) \in Nat /\ (x >= 0 => Pos(x) = x) /\ (x <= 0 => Pos(x) = 0)
    /\ \A x, y \in Int : Least(x, y) \in {x, y} /\ Least(x, y) <= x /\ Least(x, y) <= y
    /\ \A x, y \in Int : Most(x, y) \in {x, y} /\ Most(x, y) >= x /\ Most(x, y) >= y
BY DEF Pos, Least, Most

LEMMA NanMins ==
    /\ \A x, y \in Watts : NanMin(x, y) \in {x, y}
    /\ \A x \in Amounts : \A y \in Nat : NanMin(x, y) \in 0..y /\ (x # NaN => NanMin(x, y) <= x)
BY Ratings DEF NanMin, Watts, Amounts, Least

LEMMA Quotients == \A x \in Nat : \A n \in Nat \ {0} : x \div n \in Nat
OBVIOUS

LEMMA Halves == \A x \in Int : x \div 2 \in Int
OBVIOUS

LEMMA Margins == \A l \in Nat : Conservative(l) \in Nat
BY DEF Conservative

LEMMA Tapers == \A c \in Nat \cup {NaN} : Taper(c) \in Nat
<1> SUFFICES ASSUME NEW c \in Nat \cup {NaN} PROVE Taper(c) \in Nat
  OBVIOUS
<1>1. CASE c = NaN \/ c <= TaperStart
  BY <1>1, Ratings DEF Taper
<1>2. CASE ~(c = NaN \/ c <= TaperStart)
  <2>1. Pos(Full - c) \in Nat
    BY <1>2, Ratings, Numbers
  <2>2. BattMax * Pos(Full - c) \in Nat
    BY <2>1, Ratings
  <2>3. Full - TaperStart \in Nat \ {0}
    BY Ratings
  <2> QED
    BY <1>2, <2>2, <2>3, Quotients DEF Taper
<1> QED BY <1>1, <1>2

-----------------------------------------------------------------------------
(* The rules.                                                              *)

LEMMA CommandedTyped ==
    ASSUME NEW s, Typed(s), NEW w \in Int
    PROVE  Keeps(s, Commanded(s, w)) /\ Commanded(s, w).plan.batt = w
BY DEF Typed, Fields, Keeps, Commanded, Watts

LEMMA RecordKeeps ==
    ASSUME NEW s, Typed(s), NEW kind, NEW short
    PROVE  Keeps(s, RecordBreach(s, kind, short))
BY DEF Typed, Fields, Keeps, RecordBreach

LEMMA ReportKeeps ==
    ASSUME NEW s, Typed(s), NEW due, NEW kind, NEW short
    PROVE  Keeps(s, ReportOnce(s, due, kind, short))
BY RecordKeeps DEF Keeps, ReportOnce

LEMMA HoldsKeepLevers ==
    ASSUME NEW b, NEW k, Levers(k)
    PROVE  Levers(UpdateReserveHolds(b, k))
BY DEF Levers, GuardFields, UpdateReserveHolds

LEMMA DispatchKeeps ==
    ASSUME NEW i, NEW s, Input(i), Typed(s)
    PROVE  Keeps(s, FixedDispatch(i, s))
<1> DEFINE exportable == IF i.net = NaN THEN i.solar.power ELSE Pos(-i.batt.power - i.net)
           room == BattMax - s.power
<1>1. exportable \in Int /\ room \in Int
  BY Ratings, Numbers DEF Input, Typed, Watts
<1> HIDE DEF exportable, room
<1>2. i.fixed # NaN => s.power + Least(room, i.fixed - exportable) \in Int
  BY <1>1 DEF Input, Typed, Watts, Least
<1> QED
  BY <1>2, CommandedTyped DEF exportable, room, FixedDispatch, Keeps

LEMMA SurplusIsNumber == ASSUME NEW i, Input(i) PROVE Surplus(i) \in Int
BY DEF Input, Watts, Surplus

LEMMA FollowKeeps ==
    ASSUME NEW i, NEW s, Input(i), Typed(s)
    PROVE  Keeps(s, FollowPlan(i, s))
<1>1. CASE i.fixed # NaN \/ i.target = NaN \/ ~i.batt.up
  BY <1>1 DEF FollowPlan, Keeps
<1>2. CASE ~(i.fixed # NaN \/ i.target = NaN \/ ~i.batt.up)
  <2> DEFINE cap == PlanExportDischargeCap(i)
             want == IF i.target.batt > 0 THEN NanMin(i.target.batt, cap) ELSE i.target.batt
             share == Most(-BattMax, Least(BattMax, want))
  <2>1. i.target.batt \in Int /\ i.target.ev \in Int
    BY <1>2 DEF Input
  <2>2. cap \in Amounts
    <3>1. i.lim.exp # NaN => Conservative(i.lim.exp) \in Nat
      BY Ratings, Margins DEF Input, Limits
    <3> QED
      BY <3>1, Numbers DEF Input, Watts, Amounts, PlanExportDischargeCap
  <2> HIDE DEF cap
  <2>3. want \in Int
    BY <2>1, <2>2, Ratings DEF NanMin, Least, Amounts
  <2> HIDE DEF want
  <2>4. share \in Int
    BY <2>3, Ratings DEF Most, Least
  <2>5. PlanShare(i, s) = share \/ PlanShare(i, s) = 0
    BY DEF PlanShare, cap, want
  <2> HIDE DEF share
  <2> DEFINE c == Commanded(s, PlanShare(i, s))
  <2>6. Keeps(s, c)
    BY <2>4, <2>5, CommandedTyped
  <2>7. FollowPlan(i, s) =
          [c EXCEPT !.plan.ev = IF i.target.evModelled /\ i.ev.session THEN i.target.ev ELSE @,
                    !.surplus = 0, !.followed = TRUE]
    BY <1>2 DEF FollowPlan
  <2> HIDE DEF c
  <2> QED
    BY <2>1, <2>6, <2>7 DEF Keeps, Typed, Fields, Watts
<1> QED
  BY <1>1, <1>2

LEMMA SampleHasLevers ==
    ASSUME NEW i, NEW s, Typed(s)
    PROVE  ExpLevers(ExportSample(i, s))
<1> DEFINE e == IF i.lim.exp # s.g.exp.limit THEN [NoExport EXCEPT !.limit = i.lim.exp]
                ELSE s.g.exp
<1>1. ExpLevers(e)
  BY DEF Typed, Levers, ExpLevers, NoExport, Amounts
<1> DEFINE actual == ActualExport(i, s)
           filtered == IF e.filtered = NaN THEN actual
                       ELSE (2 * actual + 3 * e.filtered) \div 5
           n == IF filtered <= Conservative(i.lim.exp) THEN Least(e.safe + 1, RelaxCycles) ELSE 0
           ev == IF EvFree(i, s) THEN e.ev ELSE NaN
<1>2. ExportSample(i, s) = [e EXCEPT !.filtered = filtered, !.safe = n, !.ev = ev]
  <2>1. DOMAIN e = {"limit", "ev", "absorb", "ceiling", "filtered", "safe", "stall"}
    BY <1>1 DEF ExpLevers
  <2> HIDE DEF actual
  <2> QED BY <2>1 DEF ExportSample, actual
<1>3. ev \in Amounts
  BY <1>1 DEF ExpLevers, Amounts
<1> HIDE DEF e, filtered, n, ev
<1> QED
  BY <1>1, <1>2, <1>3 DEF ExpLevers

\* The quantities the export rule works with.
LEMMA ExportQuantities ==
    ASSUME NEW i, NEW s, Input(i), Typed(s), i.lim.exp # NaN, NEW e, ExpLevers(e)
    PROVE  /\ i.lim.exp \in Nat /\ Conservative(i.lim.exp) \in Nat
           /\ ActualExport(i, s) \in Nat /\ Absorbing(s) \in Nat
           /\ Unconstrained(i, s, e) \in Int
           /\ Absorb(i, s, e) \in Nat
<1>1. i.lim.exp \in Nat /\ Conservative(i.lim.exp) \in Nat
  BY Ratings, Margins DEF Input, Limits
<1>2. Absorbing(s) \in Nat
  BY Numbers DEF Absorbing, Typed
<1>3. SignedExport(i, s) \in Int
  BY Numbers DEF SignedExport, Input, Typed, Watts
<1>4. ActualExport(i, s) \in Nat
  BY <1>3, Numbers DEF ActualExport
<1>5. Unconstrained(i, s, e) \in Int
  <2> DEFINE x == SignedExport(i, s)
                  + (IF e.absorb # NaN THEN e.absorb ELSE Absorbing(s))
                  + (IF e.ev # NaN THEN e.ev ELSE i.ev.power)
  <2>1. x \in Int /\ i.solar.power \in Int
    BY <1>2, <1>3 DEF ExpLevers, Amounts, Input
  <2>2. Unconstrained(i, s, e) = Least(i.solar.power, x)
    BY DEF Unconstrained
  <2> HIDE DEF x
  <2> QED BY <2>1, <2>2 DEF Least
<1>6. Absorb(i, s, e) \in Nat
  <2> DEFINE most == Taper(i.batt.soc)
             fresh == Least(most, Pos(Unconstrained(i, s, e) - Conservative(i.lim.exp)))
  <2>1. most \in Nat
    <3>1. i.batt.soc \in Nat \cup {NaN}
      BY DEF Input
    <3> QED BY <3>1, Tapers
  <2>2. Pos(Unconstrained(i, s, e) - Conservative(i.lim.exp)) \in Nat
    BY <1>1, <1>5, Numbers
  <2> HIDE DEF most
  <2>3. fresh \in Nat
    BY <2>1, <2>2 DEF Least
  <2> HIDE DEF fresh
  <2>4. e.absorb # NaN => /\ e.absorb \in Nat /\ Least(e.absorb, most) \in Nat
                          /\ Least((fresh + e.absorb) \div 2, most) \in Nat
    <3>1. e.absorb # NaN => e.absorb \in Nat /\ fresh + e.absorb \in Nat
      BY <2>3 DEF ExpLevers, Amounts
    <3>2. e.absorb # NaN => (fresh + e.absorb) \div 2 \in Nat
      BY <3>1, Quotients
    <3> QED BY <2>1, <3>1, <3>2 DEF Least
  <2>5. \/ Absorb(i, s, e) \in {0, fresh}
        \/ e.absorb # NaN /\ Absorb(i, s, e) \in {Least(e.absorb, most),
                                                  Least((fresh + e.absorb) \div 2, most)}
    BY DEF Absorb, most, fresh
  <2> QED BY <2>3, <2>4, <2>5
<1> QED
  BY <1>1, <1>2, <1>4, <1>5, <1>6

LEMMA CreditIsAmount ==
    ASSUME NEW i, NEW s, Input(i), Typed(s), i.lim.exp # NaN, NEW e, ExpLevers(e),
           NEW absorb
    PROVE  Credit(i, s, e, absorb) \in Nat
<1>1. /\ Conservative(i.lim.exp) \in Nat /\ Absorbing(s) \in Nat
      /\ Unconstrained(i, s, e) \in Int
  BY ExportQuantities
<1> DEFINE next == IF i.batt.soc = NaN THEN NaN ELSE i.batt.soc + 1
           x == Taper(next)
           y == Pos(Unconstrained(i, s, e) - Conservative(i.lim.exp))
<1>2. x \in Nat
  <2>1. next \in Nat \cup {NaN}
    BY DEF Input
  <2> HIDE DEF next
  <2> QED BY <2>1, Tapers
<1>3. y \in Nat
  BY <1>1, Numbers
<1>4. Credit(i, s, e, absorb) \in {Absorbing(s), 0, Least(x, y)}
  <2> HIDE DEF x, y, next
  <2> QED BY DEF Credit, x, y, next
<1> HIDE DEF x, y
<1> QED
  BY <1>1, <1>2, <1>3, <1>4 DEF Least

LEMMA TrimIsAmount ==
    ASSUME NEW i, NEW s, Input(i), Typed(s), i.lim.exp # NaN, NEW e, ExpLevers(e),
           NEW absorb \in Nat, NEW target \in Nat
    PROVE  EvTrim(i, s, e, absorb, target) \in Nat
<1>1. i.lim.exp \in Nat /\ Unconstrained(i, s, e) \in Int
  BY ExportQuantities
<1> DEFINE ramped == EvRamped(target, e)
           excess == Unconstrained(i, s, e) - absorb - ramped - i.lim.exp
<1>2. ramped \in Nat
  <2>1. e.ev # NaN => e.ev \in Nat
    BY DEF ExpLevers, Amounts
  <2>2. e.ev # NaN => /\ Least(target, e.ev + EvStep) \in Nat
                      /\ Most(EvMin, Most(target, e.ev - EvRelax)) \in Nat
    BY <2>1, Ratings DEF Least, Most
  <2> QED
    BY <2>1, <2>2, Ratings DEF EvRamped
<1> HIDE DEF ramped
<1>3. excess \in Int
  BY <1>1, <1>2
<1> HIDE DEF excess
<1>4. Least(excess, EvMax - ramped) \in Int
  BY <1>2, <1>3, Ratings DEF Least
<1>5. Pos(Least(excess, EvMax - ramped)) \in Nat
  BY <1>4, Numbers
<1> QED
  BY <1>2, <1>5 DEF EvTrim, ramped, excess

LEMMA CeilingIsAmount ==
    ASSUME NEW i, NEW s, Input(i), Typed(s), i.lim.exp # NaN, NEW e, ExpLevers(e),
           NEW absorb \in Nat, NEW credit \in Nat, NEW ev \in Amounts
    PROVE  Ceiling(i, s, e, absorb, credit, ev) \in Nat
<1>1. /\ Conservative(i.lim.exp) \in Nat
      /\ ActualExport(i, s) \in Nat /\ Absorbing(s) \in Nat
  BY ExportQuantities
<1> DEFINE target == Conservative(i.lim.exp)
           error == target - (ActualExport(i, s) - Pos(absorb - Absorbing(s)))
           moved == Most(e.ceiling - CeilDrop,
                         Least(e.ceiling + CeilRise, Pos(e.ceiling + error \div 2)))
           fed == IF e.ceiling = NaN THEN Pos(i.solar.power + error) ELSE Pos(moved)
           home == Pos(i.solar.power - ActualExport(i, s) - Absorbing(s) - i.ev.power)
           sinks == home + credit + (IF ev = NaN THEN 0 ELSE ev) + target
<1>2. error \in Int
  <2>1. Pos(absorb - Absorbing(s)) \in Nat
    BY <1>1, Numbers
  <2> QED BY <1>1, <2>1
<1>3. home \in Nat
  BY <1>1, Numbers DEF Input
<1>4. sinks \in Nat
  BY <1>1, <1>3 DEF Amounts
<1> HIDE DEF target, error, home, sinks
<1>5. fed \in Nat
  <2>1. CASE e.ceiling = NaN
    <3>1. i.solar.power + error \in Int
      BY <1>2 DEF Input
    <3> QED BY <2>1, <3>1, Numbers
  <2>2. CASE e.ceiling # NaN
    <3>1. e.ceiling \in Nat /\ error \div 2 \in Int
      BY <1>2, <2>2, Halves DEF ExpLevers, Amounts
    <3> DEFINE half == error \div 2
    <3> HIDE DEF half
    <3>2. Pos(e.ceiling + half) \in Nat
      BY <3>1, Numbers DEF half
    <3>3. Least(e.ceiling + CeilRise, Pos(e.ceiling + half)) \in Nat
      BY <3>1, <3>2, Ratings DEF Least
    <3>4. Most(e.ceiling - CeilDrop, Least(e.ceiling + CeilRise, Pos(e.ceiling + half))) \in Int
      BY <3>1, <3>3, Ratings DEF Most
    <3>5. moved \in Int
      BY <3>4 DEF half
    <3> HIDE DEF moved
    <3> QED BY <2>2, <3>5, Numbers
  <2> QED BY <2>1, <2>2
<1>6. Ceiling(i, s, e, absorb, credit, ev) = Least(fed, sinks)
  BY DEF Ceiling, target, error, home, sinks
<1> HIDE DEF fed
<1> QED
  BY <1>4, <1>5, <1>6 DEF Least

\* Under an export limit an inverter in sight has a ceiling, at most its rating.
LEMMA ExportCaps ==
    ASSUME NEW i, NEW s, Input(i), Typed(s)
    PROVE  LET t == ExportLimit(i, s)
           IN  /\ Typed(t)
               /\ t.plan.solar \in {s.plan.solar} \cup 0..Nameplate
               /\ i.lim.exp # NaN /\ i.solar.up => t.plan.solar \in 0..Nameplate
<1>1. CASE i.lim.exp = NaN
  <2>1. ExportLimit(i, s) = [s EXCEPT !.g.exp = NoExport, !.g.zeroLever = 0]
    BY <1>1 DEF ExportLimit
  <2> DEFINE t == ExportLimit(i, s)
  <2>2. ExpLevers(NoExport)
    BY DEF ExpLevers, NoExport, Amounts
  <2>3. /\ Fields(t) /\ t.plan = s.plan /\ GuardFields(t.g)
        /\ t.g.exp = NoExport /\ t.g.imp = s.g.imp /\ t.g.ausLoad = s.g.ausLoad
        /\ t.power = s.power /\ t.surplus = s.surplus /\ t.headroom = s.headroom
    BY <2>1 DEF Typed, Fields, GuardFields
  <2> HIDE DEF t
  <2>4. Typed(t) /\ t.plan.solar = s.plan.solar
    BY <2>2, <2>3 DEF Typed, Levers
  <2> QED
    BY <1>1, <2>4 DEF t
<1>2. CASE i.lim.exp # NaN
  <2> DEFINE e       == ExportSample(i, s)
             absorb  == Absorb(i, s, e)
             credit  == Credit(i, s, e, absorb)
             target  == Least(EvMax, Most(EvMin, Unconstrained(i, s, e) - credit
                                                 - Conservative(i.lim.exp)))
             ev      == IF EvFree(i, s) THEN EvTrim(i, s, e, absorb, target) ELSE NaN
             ceiling == Ceiling(i, s, e, absorb, credit, ev)
  <2>1. ExpLevers(e)
    BY SampleHasLevers
  <2>2. ExportLimit(i, s) = ExportDefence(i, s, e, absorb, target, ev, ceiling)
    BY <1>2 DEF ExportLimit
  <2> HIDE DEF e
  <2>3. absorb \in Nat /\ Unconstrained(i, s, e) \in Int /\ Conservative(i.lim.exp) \in Nat
    BY <1>2, <2>1, ExportQuantities
  <2> HIDE DEF absorb
  <2>4. credit \in Nat
    BY <1>2, <2>1, CreditIsAmount
  <2> HIDE DEF credit
  <2>5. target \in Nat
    BY <2>3, <2>4, Ratings DEF Least, Most
  <2> HIDE DEF target
  <2>6. ev \in Amounts
    BY <1>2, <2>1, <2>3, <2>5, TrimIsAmount DEF Amounts
  <2> HIDE DEF ev
  <2>7. ceiling \in Nat
    BY <1>2, <2>1, <2>3, <2>4, <2>6, CeilingIsAmount
  <2> HIDE DEF ceiling
  <2> DEFINE capped == Least(ceiling, Nameplate)
             zero == Leaky(s.g.zeroLever, ActualExport(i, s) > i.lim.exp /\ ceiling = 0)
             commands == ExportCommands(i, s, absorb, ev, capped)
             session == ExportSession(i, s, e, absorb, target, ev, capped)
             done == [commands EXCEPT !.g.zeroLever = zero, !.g.exp = session]
             short == ActualExport(i, s) - i.lim.exp
  <2>8. capped \in 0..Nameplate
    BY <2>7, Ratings DEF Least
  <2>9. \/ ExportDefence(i, s, e, absorb, target, ev, ceiling) = done
        \/ ExportDefence(i, s, e, absorb, target, ev, ceiling)
              = RecordBreach(done, "export", short)
    BY DEF ExportDefence
  <2> HIDE DEF capped, zero, short
  <2>10. /\ Typed(commands)
         /\ commands.plan.solar = IF i.solar.up THEN capped ELSE s.plan.solar
    <3> DEFINE w == IF ev # NaN THEN ev ELSE 0
               left == s.surplus - absorb - w
    <3>1. left \in Int
      BY <2>3, <2>6 DEF Typed, Amounts
    <3> HIDE DEF left
    <3>2. commands =
            [s EXCEPT !.plan.batt  = IF absorb > 0 THEN -absorb ELSE @,
                      !.power      = IF absorb > 0 THEN -absorb ELSE @,
                      !.plan.ev    = IF ev # NaN THEN ev ELSE @,
                      !.plan.solar = IF i.solar.up THEN capped ELSE @,
                      !.surplus    = left]
      BY DEF ExportCommands, Typed, Fields, left
    <3> HIDE DEF commands
    <3>3. /\ Fields(commands) /\ commands.g = s.g
          /\ commands.plan.batt \in {s.plan.batt, -absorb}
          /\ commands.power \in {s.power, -absorb}
          /\ commands.plan.ev \in {s.plan.ev, ev}
          /\ commands.plan.solar = IF i.solar.up THEN capped ELSE s.plan.solar
          /\ commands.surplus = left /\ commands.headroom = s.headroom
      BY <3>2 DEF Typed, Fields
    <3> QED
      BY <2>3, <2>6, <2>8, <3>1, <3>3, Ratings DEF Typed, Watts, Amounts
  <2>11. ExpLevers(session)
    <3>1. DOMAIN session = DOMAIN e /\ session.ev = ev
          /\ session.absorb \in {absorb, NaN} /\ session.ceiling \in {e.ceiling, capped}
      BY <2>1 DEF ExportSession, ExpLevers
    <3> HIDE DEF session
    <3> QED BY <2>1, <2>3, <2>6, <2>8, <3>1, Ratings DEF ExpLevers, Amounts
  <2> HIDE DEF commands, session
  <2>12. Keeps(commands, done)
    BY <2>10, <2>11 DEF Keeps, Typed, Fields, Levers, GuardFields
  <2> HIDE DEF done
  <2>13. Keeps(done, RecordBreach(done, "export", short))
    BY <2>12, RecordKeeps DEF Keeps
  <2> DEFINE t == ExportDefence(i, s, e, absorb, target, ev, ceiling)
  <2>14. Typed(t) /\ t.plan.solar = IF i.solar.up THEN capped ELSE s.plan.solar
    BY <2>9, <2>10, <2>12, <2>13 DEF Keeps
  <2> HIDE DEF t
  <2>15. ExportLimit(i, s) = t
    BY <2>2 DEF t
  <2> QED
    BY <2>8, <2>14, <2>15
<1> QED
  BY <1>1, <1>2

LEMMA ChecksKeep ==
    ASSUME NEW i, NEW s, Typed(s)
    PROVE  /\ Keeps(s, CheckExport(i, s)) /\ Keeps(s, CheckGen(i, s))
           /\ Keeps(s, CheckImport(i, s)) /\ Keeps(s, CheckAusGen(i, s))
           /\ Keeps(s, CheckAusLoad(i, s))
<1>1. ASSUME NEW n PROVE /\ Keeps(s, [s EXCEPT !.g.expOver = n])
                         /\ Keeps(s, [s EXCEPT !.g.gen = n]) /\ Keeps(s, [s EXCEPT !.g.ausGen = n])
  BY DEF Keeps, Typed, Fields, Levers, GuardFields
<1>2. ASSUME NEW n PROVE /\ Keeps(s, [s EXCEPT !.g.imp.breach = n])
                         /\ Keeps(s, [s EXCEPT !.g.ausLoad.breach = n])
  BY DEF Keeps, Typed, Fields, Levers, GuardFields, ImpLevers, LoadLevers
<1>3. Keeps(s, s)
  BY DEF Keeps
<1>4. ASSUME NEW t, Keeps(s, t), NEW due, NEW kind, NEW short
      PROVE  Keeps(s, ReportOnce(t, due, kind, short)) /\ Keeps(s, RecordBreach(t, kind, short))
  BY <1>4, ReportKeeps, RecordKeeps DEF Keeps
<1>5. Keeps(s, CheckExport(i, s))
  BY <1>1, <1>3, <1>4 DEF CheckExport
<1>6. Keeps(s, CheckGen(i, s))
  BY <1>1, <1>3, <1>4 DEF CheckGen
<1>7. Keeps(s, CheckImport(i, s))
  BY <1>2, <1>3, <1>4 DEF CheckImport
<1>8. Keeps(s, CheckAusGen(i, s))
  BY <1>1, <1>3, <1>4 DEF CheckAusGen
<1>9. Keeps(s, CheckAusLoad(i, s))
  BY <1>2, <1>3, <1>4 DEF CheckAusLoad
<1> QED
  BY <1>5, <1>6, <1>7, <1>8, <1>9

\* Under an output cap likewise; and a ceiling there is only comes down.
LEMMA GenCaps ==
    ASSUME NEW i, NEW s, Input(i), Typed(s)
    PROVE  LET t == GenLimit(i, s)
           IN  /\ Typed(t)
               /\ i.lim.max = NaN \/ ~i.solar.up => t = s
               /\ i.lim.max # NaN /\ i.solar.up =>
                     /\ t.plan.solar \in 0..i.lim.max
                     /\ s.plan.solar # NaN => t.plan.solar <= s.plan.solar
<1>1. CASE i.lim.max = NaN \/ ~i.solar.up
  BY <1>1 DEF GenLimit
<1>2. CASE ~(i.lim.max = NaN \/ ~i.solar.up)
  <2> DEFINE w == NanMin(s.plan.solar, i.lim.max)
  <2>1. w \in 0..i.lim.max /\ (s.plan.solar # NaN => w <= s.plan.solar) /\ i.lim.max \in Nat
    BY <1>2, NanMins, Ratings DEF Input, Limits, Typed
  <2> HIDE DEF w
  <2>2. GenLimit(i, s) = [s EXCEPT !.plan.solar = w]
    BY <1>2 DEF GenLimit, Typed, Fields, w
  <2> QED
    BY <1>2, <2>1, <2>2 DEF Typed, Fields, Amounts
<1> QED
  BY <1>1, <1>2

LEMMA ImportKeeps ==
    ASSUME NEW i, NEW s, Input(i), Typed(s)
    PROVE  Keeps(s, ImportLimit(i, s))
<1>1. ASSUME NEW t, Keeps(s, t), NEW m, ImpLevers(m)
      PROVE  Keeps(s, [t EXCEPT !.g.imp = m])
  BY <1>1 DEF Keeps, Typed, Fields, Levers, GuardFields
<1>2. CASE i.lim.imp = NaN
  <2>1. ImpLevers(NoImport)
    BY DEF ImpLevers, NoImport, Amounts
  <2> QED BY <1>1, <1>2, <2>1 DEF ImportLimit, Keeps
<1>3. CASE i.lim.imp # NaN
  <2> DEFINE base   == IF s.g.imp.limit = i.lim.imp THEN s.g.imp
                       ELSE [NoImport EXCEPT !.limit = i.lim.imp,
                                             !.evSafe = IF ImportSafe(i) THEN Cooldown ELSE 0]
             m      == ImportSample(i, s)
             target == ImportTarget(i, s)
             wanted == ImportWanted(m, target)
             eased  == [m EXCEPT !.safe = IF Relaxes(m, target) THEN 0 ELSE @]
  <2>1. ImpLevers(base)
    BY DEF Typed, Levers, ImpLevers, NoImport, Amounts
  <2>2. ImpLevers(m)
    <3> DEFINE safe == IF Import(i) <= i.lim.imp THEN Least(base.safe + 1, RelaxCycles) ELSE 0
               evSafe == IF ImportSafe(i) THEN Least(base.evSafe + 1, Cooldown) ELSE 0
    <3>1. m = [base EXCEPT !.safe = safe, !.evSafe = evSafe]
      BY <2>1 DEF ImportSample, ImpLevers
    <3> HIDE DEF base, safe, evSafe, m
    <3> QED BY <2>1, <3>1 DEF ImpLevers
  <2> HIDE DEF base, m
  <2>3. target \in Nat /\ Import(i) \in Nat
    <3>1. Import(i) \in Nat
      BY Numbers, Ratings DEF Import, Input, Watts
    <3>2. Pos(s.power) \in Nat /\ Conservative(i.lim.imp) \in Nat
      BY <1>3, Numbers, Margins DEF Typed, Input, Limits
    <3>3. Import(i) + Pos(s.power) - Conservative(i.lim.imp) \in Int
      BY <3>1, <3>2
    <3> QED BY <3>1, <3>3, Numbers DEF ImportTarget
  <2> HIDE DEF target
  <2>4. wanted \in Nat
    <3>1. m.discharge # NaN => m.discharge \in Nat /\ Most(target, m.discharge - BattRelax) \in Nat
      BY <2>2, <2>3, Ratings DEF ImpLevers, Amounts, Most
    <3> QED BY <2>3, <3>1 DEF ImportWanted, Relaxes, Eases
  <2> HIDE DEF wanted
  <2>5. ImpLevers(eased) /\ ImpLevers([eased EXCEPT !.discharge = NaN])
        /\ \A d \in Nat : ImpLevers([eased EXCEPT !.discharge = d])
    <3> DEFINE n == IF Relaxes(m, target) THEN 0 ELSE m.safe
    <3> HIDE DEF n
    <3>1. eased = [m EXCEPT !.safe = n]
      BY DEF n
    <3> HIDE DEF eased
    <3>2. ImpLevers(eased)
      BY <2>2, <3>1 DEF ImpLevers
    <3> QED BY <3>2 DEF ImpLevers, Amounts
  <2> HIDE DEF eased
  <2>6. CASE wanted = 0
    <3>1. ImportLimit(i, s) = [s EXCEPT !.g.imp = [eased EXCEPT !.discharge = NaN]]
      BY <1>3, <2>6 DEF ImportLimit, m, target, wanted, eased
    <3> QED BY <1>1, <2>5, <3>1 DEF Keeps
  <2>7. CASE wanted # 0
    <3> DEFINE halted  == Halted(s)
               missing == Pos(wanted - Committed(halted))
               add     == Added(i, halted, missing)
               total   == Committed(halted) + add
               raised  == Raised(halted, add)
               done    == [raised EXCEPT
                             !.g.imp = [eased EXCEPT !.discharge = IF total > 0 THEN total ELSE NaN]]
               short   == Import(i) - i.lim.imp
    <3>1. Keeps(s, halted)
      BY CommandedTyped DEF Halted, Keeps
    <3> HIDE DEF halted
    <3>2. Committed(halted) \in Nat
      BY <3>1, Numbers DEF Committed, Keeps, Typed, Watts
    <3>3. missing \in Nat
      BY <2>4, <3>2, Numbers
    <3> HIDE DEF missing
    <3>4. add \in Nat
      <4>1. Least(BattMax - halted.power, missing) \in Int
        BY <3>1, <3>3, Ratings DEF Least, Keeps, Typed
      <4> QED BY <4>1, Numbers DEF Added
    <3> HIDE DEF add
    <3>5. total \in Nat
      BY <3>2, <3>4
    <3>6. Keeps(s, raised)
      BY <3>1, <3>5, CommandedTyped DEF Raised, Keeps
    <3> HIDE DEF total, raised
    <3>7. Keeps(s, done)
      <4> DEFINE d == IF total > 0 THEN total ELSE NaN
      <4>1. ImpLevers([eased EXCEPT !.discharge = d])
        BY <2>5, <3>5
      <4> HIDE DEF d
      <4>2. done = [raised EXCEPT !.g.imp = [eased EXCEPT !.discharge = d]]
        BY DEF d
      <4> HIDE DEF done
      <4> QED BY <1>1, <3>6, <4>1, <4>2
    <3>8. ImportDefence(i, s, eased, wanted) \in {done, RecordBreach(done, "import", short)}
      BY DEF ImportDefence, halted, missing, add, total, raised
    <3>9. ImportLimit(i, s) = ImportDefence(i, s, eased, wanted)
      BY <1>3, <2>7 DEF ImportLimit, m, target, wanted, eased
    <3> HIDE DEF done, short
    <3> QED BY <3>7, <3>8, <3>9, RecordKeeps DEF Keeps
  <2> QED BY <2>6, <2>7
<1> QED
  BY <1>2, <1>3

\* Under a cap on generation likewise; what it leaves the pack is not negative.
LEMMA AusGenCaps ==
    ASSUME NEW i, NEW s, Input(i), Typed(s)
    PROVE  LET t == AusGenLimit(i, s)
           IN  /\ Typed(t)
               /\ i.lim.gen = NaN \/ ~i.solar.up => t.plan.solar = s.plan.solar
               /\ i.lim.gen # NaN /\ i.solar.up =>
                     /\ t.plan.solar \in 0..i.lim.gen
                     /\ s.plan.solar # NaN => t.plan.solar <= s.plan.solar
<1>1. CASE i.lim.gen = NaN
  BY <1>1 DEF AusGenLimit
<1>2. CASE i.lim.gen # NaN
  <2> DEFINE room      == Pos(i.lim.gen - i.solar.power)
             committed == IF s.plan.batt = NaN THEN 0 ELSE Pos(Least(s.plan.batt, room))
             trims     == s.plan.batt # NaN /\ s.plan.batt > room
             trimmed   == IF trims THEN Commanded(s, room) ELSE s
             cap       == Pos(i.lim.gen - committed)
             left      == room - committed
             w         == IF i.solar.up THEN NanMin(trimmed.plan.solar, cap)
                          ELSE trimmed.plan.solar
  <2>1. i.lim.gen \in Nat /\ room \in Nat
    BY <1>2, Numbers DEF Input, Limits
  <2> HIDE DEF room
  <2>2. committed \in 0..room
    <3>1. CASE s.plan.batt = NaN
      BY <2>1, <3>1
    <3>2. CASE s.plan.batt # NaN
      <4>1. Least(s.plan.batt, room) \in Int /\ Least(s.plan.batt, room) <= room
        BY <2>1, <3>2 DEF Typed, Watts, Least
      <4> QED BY <2>1, <3>2, <4>1 DEF Pos, Most
    <3> QED BY <3>1, <3>2
  <2> HIDE DEF committed
  <2>3. cap \in 0..i.lim.gen /\ left \in Nat
    BY <2>1, <2>2 DEF Pos, Most
  <2>4. Keeps(s, trimmed)
    BY <2>1, CommandedTyped DEF Keeps
  <2> HIDE DEF trimmed, cap, left
  <2>5. /\ i.solar.up => /\ w \in 0..i.lim.gen
                         /\ s.plan.solar # NaN => w <= s.plan.solar
        /\ ~i.solar.up => w = s.plan.solar
        /\ w \in Amounts
    <3>1. s.plan.solar \in Amounts /\ trimmed.plan.solar = s.plan.solar /\ cap \in Nat
      BY <2>1, <2>3, <2>4 DEF Keeps, Typed
    <3>2. /\ NanMin(s.plan.solar, cap) \in 0..cap
          /\ s.plan.solar # NaN => NanMin(s.plan.solar, cap) <= s.plan.solar
      BY <3>1, NanMins
    <3> QED BY <2>1, <2>3, <3>1, <3>2 DEF Amounts
  <2>6. AusGenLimit(i, s) = [trimmed EXCEPT !.headroom = left, !.plan.solar = w]
    <3>1. Fields(trimmed)
      BY <2>4 DEF Keeps, Typed
    <3> QED BY <1>2, <3>1 DEF AusGenLimit, Fields, room, committed, trims, trimmed, cap, left
  <2> HIDE DEF w
  <2>7. /\ Typed([trimmed EXCEPT !.headroom = left, !.plan.solar = w])
        /\ [trimmed EXCEPT !.headroom = left, !.plan.solar = w].plan.solar = w
    BY <2>3, <2>4, <2>5 DEF Keeps, Typed, Fields, Amounts
  <2> QED BY <1>2, <2>5, <2>6, <2>7
<1> QED
  BY <1>1, <1>2

LEMMA SpentKeeps ==
    ASSUME NEW s, NEW t, Keeps(s, t), NEW n \in Int
    PROVE  Keeps(s, [t EXCEPT !.surplus = n])
BY DEF Keeps, Typed, Fields

LEMMA SelfConsumptionKeeps ==
    ASSUME NEW i, NEW s, Input(i), Typed(s)
    PROVE  Keeps(s, SelfConsumption(i, s))
<1> DEFINE absorbing  == Absorbing(s)
           additional == Pos(s.surplus - absorbing)
           more       == Least(Pos(BattMax + s.power), additional)
           less       == s.power - more
           left       == s.surplus - more - absorbing
<1>1. absorbing \in Nat
  BY Numbers DEF Absorbing, Typed
<1> HIDE DEF absorbing
<1>2. additional \in Nat /\ Pos(BattMax + s.power) \in Nat
  BY <1>1, Numbers, Ratings DEF Typed
<1> HIDE DEF additional
<1>3. more \in Nat
  BY <1>2 DEF Least
<1> HIDE DEF more
<1>4. less \in Int /\ left \in Int /\ s.surplus - absorbing \in Int
  BY <1>1, <1>3 DEF Typed
<1> HIDE DEF less, left
<1>5. ASSUME NEW w \in Int, NEW n \in Int
      PROVE  Keeps(s, [Commanded(s, w) EXCEPT !.surplus = n])
  BY <1>5, CommandedTyped, SpentKeeps
<1>6. \/ SelfConsumption(i, s) = s
      \/ SelfConsumption(i, s) = [Commanded(s, less) EXCEPT !.surplus = left]
      \/ SelfConsumption(i, s) = [Commanded(s, s.power) EXCEPT !.surplus = s.surplus - absorbing]
  <2>1. \A w : [Commanded(s, w) EXCEPT !.surplus = @ - more - absorbing]
                  = [Commanded(s, w) EXCEPT !.surplus = left]
    BY DEF Commanded, Typed, Fields, left
  <2>2. [Commanded(s, s.power) EXCEPT !.surplus = @ - absorbing]
          = [Commanded(s, s.power) EXCEPT !.surplus = s.surplus - absorbing]
    BY DEF Commanded, Typed, Fields
  <2> QED BY <2>1, <2>2 DEF SelfConsumption, absorbing, additional, more, less
<1>7. Keeps(s, s) /\ s.power \in Int
  BY DEF Keeps, Typed
<1>8. /\ Keeps(s, [Commanded(s, less) EXCEPT !.surplus = left])
      /\ Keeps(s, [Commanded(s, s.power) EXCEPT !.surplus = s.surplus - absorbing])
  BY <1>4, <1>5, <1>7
<1> QED
  BY <1>6, <1>7, <1>8

LEMMA PeakKeeps ==
    ASSUME NEW i, NEW s, Input(i), Typed(s)
    PROVE  Keeps(s, PeakDischarge(i, s))
<1> DEFINE export   == IF i.net # NaN THEN Pos(-i.net) ELSE Pos(s.surplus)
           room     == IF i.lim.exp = NaN THEN NaN ELSE Pos(Conservative(i.lim.exp) - export)
           cap      == NanMin(s.headroom, room)
           setpoint == NanMin(BattMax, cap)
           n        == s.surplus + setpoint - s.power
<1>1. export \in Nat
  BY Numbers DEF Input, Watts, Typed
<1> HIDE DEF export
<1>2. room \in Amounts
  <2>1. i.lim.exp # NaN => Conservative(i.lim.exp) \in Nat
    BY Margins DEF Input, Limits
  <2> QED BY <1>1, <2>1, Numbers DEF Amounts
<1> HIDE DEF room
<1>3. cap \in Amounts
  BY <1>2, Ratings DEF Typed, Amounts, NanMin, Least
<1> HIDE DEF cap
<1>4. setpoint \in Int
  BY <1>3, Ratings DEF NanMin, Least, Amounts
<1> HIDE DEF setpoint
<1>5. n \in Int
  BY <1>4 DEF Typed
<1> HIDE DEF n
<1> DEFINE c == Commanded(s, setpoint)
<1>6. Keeps(s, c) /\ c.surplus = s.surplus
  <2>1. Keeps(s, c)
    BY <1>4, CommandedTyped
  <2>2. c.surplus = s.surplus
    BY DEF Commanded, Typed, Fields
  <2> QED BY <2>1, <2>2
<1>7. PeakDischarge(i, s) \in {s, [c EXCEPT !.surplus = n]}
  BY <1>6 DEF PeakDischarge, export, room, cap, setpoint, n
<1> HIDE DEF c
<1>8. Keeps(s, [c EXCEPT !.surplus = n])
  BY <1>5, <1>6, SpentKeeps
<1> QED
  BY <1>7, <1>8 DEF Keeps

LEMMA EvChargingKeeps ==
    ASSUME NEW i, NEW s, Input(i), Typed(s)
    PROVE  Keeps(s, EvCharging(i, s))
<1>1. ASSUME NEW n \in Int PROVE EvPower(i, s, n) \in Int
  <2>1. Pos(n) \in Nat
    BY Numbers
  <2>2. Throttled(i, Pos(n)) \in Int
    BY <2>1, Ratings DEF Throttled, Least
  <2>3. Most(EvMin, n + i.ev.power) \in Int
    BY Ratings DEF Most, Input
  <2> QED BY <2>2, <2>3, Ratings DEF EvPower
<1>2. Surplus(i) \in Int /\ s.surplus \in Int
  BY SurplusIsNumber DEF Typed
<1> DEFINE w == EvPower(i, s, IF s.followed THEN Surplus(i) ELSE s.surplus)
<1>3. w \in Int
  BY <1>1, <1>2
<1> HIDE DEF w
<1>4. EvCharging(i, s) \in {s, [s EXCEPT !.plan.ev = w]}
  BY DEF EvCharging, w
<1> QED
  BY <1>3, <1>4 DEF Keeps, Typed, Fields, Watts

\* The EV ceiling of the cap on gross load.
LEMMA AusEvIsAmount ==
    ASSUME NEW i, Input(i), i.lim.load # NaN, NEW a, LoadLevers(a),
           NEW others \in Int, NEW charge \in Int
    PROVE  AusEvLimit(i, a, others, charge) \in Nat
<1> DEFINE room    == Least(EvMax, Pos(Conservative(i.lim.load)
                                       - Pos(others - i.ev.power) - charge))
           target  == IF room < EvMin THEN 0 ELSE room
           stepped == IF a.safe < RelaxCycles THEN a.ev ELSE Least(target, a.ev + EvStep)
<1>1. Conservative(i.lim.load) \in Nat /\ Pos(others - i.ev.power) \in Nat
  BY Margins, Numbers DEF Input, Limits
<1>2. Pos(Conservative(i.lim.load) - Pos(others - i.ev.power) - charge) \in Nat
  BY <1>1, Numbers
<1>3. room \in Nat
  BY <1>2, Ratings DEF Least
<1> HIDE DEF room
<1>4. target \in Nat
  BY <1>3
<1> HIDE DEF target
<1>5. a.ev # NaN => stepped \in Nat
  BY <1>4, Ratings DEF LoadLevers, Amounts, Least
<1> QED
  BY <1>4, <1>5, Ratings DEF AusEvLimit, room, target, stepped

LEMMA GrossIsNumber ==
    ASSUME NEW i, Input(i), i.net # NaN
    PROVE  /\ GrossLoad(i) \in Nat /\ Pos(-i.batt.power) \in Nat
           /\ GrossLoad(i) - Pos(-i.batt.power) \in Int
<1>1. Pos(-i.batt.power) \in Nat /\ Pos(i.batt.power) \in Nat
  BY Numbers DEF Input
<1>2. GrossLoad(i) \in Nat
  BY <1>1, Numbers DEF GrossLoad, Input, Watts
<1> QED BY <1>1, <1>2

LEMMA AusLoadSampleHasLevers ==
    ASSUME NEW i, NEW s, Typed(s)
    PROVE  LoadLevers(AusLoadSample(i, s))
<1> DEFINE a == IF s.g.ausLoad.limit = i.lim.load THEN s.g.ausLoad
                ELSE [NoAusLoad EXCEPT !.limit = i.lim.load]
           n == IF GrossLoad(i) <= i.lim.load THEN Least(a.safe + 1, RelaxCycles) ELSE 0
<1>1. LoadLevers(a)
  BY DEF Typed, Levers, LoadLevers, NoAusLoad, Amounts
<1>2. AusLoadSample(i, s) = IF i.net = NaN THEN a ELSE [a EXCEPT !.safe = n]
  BY <1>1 DEF AusLoadSample, LoadLevers
<1> HIDE DEF a, n
<1> QED
  BY <1>1, <1>2 DEF LoadLevers

LEMMA AusLoadKeeps ==
    ASSUME NEW i, NEW s, Input(i), Typed(s)
    PROVE  Keeps(s, AusLoadLimit(i, s))
<1>1. ASSUME NEW t, Keeps(s, t), NEW a, LoadLevers(a)
      PROVE  Keeps(s, [t EXCEPT !.g.ausLoad = a])
  BY <1>1 DEF Keeps, Typed, Fields, Levers, GuardFields
<1>2. CASE i.lim.load = NaN
  <2>1. LoadLevers(NoAusLoad)
    BY DEF LoadLevers, NoAusLoad, Amounts
  <2> QED BY <1>1, <1>2, <2>1 DEF AusLoadLimit, Keeps
<1>3. CASE i.lim.load # NaN
  <2> DEFINE a       == AusLoadSample(i, s)
             others  == Pos(GrossLoad(i) - Pos(-i.batt.power))
             room    == Pos(Conservative(i.lim.load) - others)
             charges == s.plan.batt # NaN /\ s.plan.batt < 0
             halts   == charges /\ -s.plan.batt > room
             shed    == IF halts THEN [s EXCEPT !.plan.batt = 0] ELSE s
             charge  == IF charges /\ ~halts THEN -s.plan.batt ELSE 0
             limit   == AusEvLimit(i, a, others, charge)
             relaxes == a.ev # NaN /\ limit > a.ev
             eased   == [a EXCEPT !.ev = limit, !.safe = IF relaxes THEN 0 ELSE @]
  <2>1. LoadLevers(a)
    BY AusLoadSampleHasLevers
  <2> HIDE DEF a
  <2>2. ASSUME NEW t, Keeps(s, t), NEW w \in Nat PROVE Keeps(s, MergeEvLimit(i, t, w))
    <3>1. NanMin(t.plan.ev, w) \in Watts
      <4>1. t.plan.ev \in Watts /\ w \in Watts
        BY <2>2 DEF Keeps, Typed, Watts
      <4> QED BY <4>1, NanMins
    <3> DEFINE v == NanMin(t.plan.ev, w)
    <3> HIDE DEF v
    <3>2. MergeEvLimit(i, t, w) \in {t, [t EXCEPT !.plan.ev = v]}
      BY <2>2 DEF MergeEvLimit, v, Keeps, Typed, Fields
    <3>3. Keeps(s, [t EXCEPT !.plan.ev = v])
      BY <2>2, <3>1 DEF Keeps, Typed, Fields, v
    <3> QED BY <2>2, <3>2, <3>3
  <2>3. CASE i.net = NaN
    <3>1. AusLoadLimit(i, s) =
            [(IF a.ev = NaN THEN s ELSE MergeEvLimit(i, s, a.ev)) EXCEPT !.g.ausLoad = a]
      BY <1>3, <2>3 DEF AusLoadLimit, a
    <3>2. Keeps(s, s) /\ (a.ev # NaN => Keeps(s, MergeEvLimit(i, s, a.ev)))
      BY <2>1, <2>2 DEF LoadLevers, Amounts, Keeps
    <3> QED BY <1>1, <2>1, <3>1, <3>2
  <2>4. CASE i.net # NaN
    <3>1. Keeps(s, shed)
      BY DEF Keeps, Typed, Fields, Watts
    <3>2. others \in Nat
      BY <2>4, GrossIsNumber, Numbers
    <3>3. charge \in Int
      BY DEF Typed, Watts
    <3> HIDE DEF others, halts, charge, shed
    <3>4. limit \in Nat
      BY <1>3, <2>1, <3>2, <3>3, AusEvIsAmount
    <3> HIDE DEF limit
    <3>5. LoadLevers(eased) /\ LoadLevers([a EXCEPT !.ev = NaN])
      <4> DEFINE n == IF relaxes THEN 0 ELSE a.safe
      <4> HIDE DEF n
      <4>1. eased = [a EXCEPT !.ev = limit, !.safe = n]
        BY DEF n
      <4> HIDE DEF eased
      <4> QED BY <2>1, <3>4, <4>1 DEF LoadLevers, Amounts
    <3>6. AusLoadLimit(i, s) \in {[shed EXCEPT !.g.ausLoad = a],
                                  [shed EXCEPT !.g.ausLoad = [a EXCEPT !.ev = NaN]],
                                  [MergeEvLimit(i, shed, limit) EXCEPT !.g.ausLoad = eased]}
      BY <1>3, <2>4 DEF AusLoadLimit, a, others, room, charges, halts, shed, charge, limit, relaxes
    <3> HIDE DEF eased
    <3>7. Keeps(s, MergeEvLimit(i, shed, limit))
      BY <2>2, <3>1, <3>4
    <3> QED BY <1>1, <2>1, <3>1, <3>5, <3>6, <3>7
  <2> QED BY <2>3, <2>4
<1> QED
  BY <1>2, <1>3

\* Battery safety changes the pack's command only.
LEMMA SafetyTyped ==
    ASSUME NEW i, NEW s, Fields(s), Levers(s.g)
    PROVE  LET t == CheckBatterySafety(i, s)
           IN  /\ Fields(t) /\ Levers(t.g)
               /\ t.plan.solar = s.plan.solar /\ t.plan.ev = s.plan.ev
               /\ t.plan.batt \in {s.plan.batt, 0}
<1> DEFINE Tally(d, w) == [s EXCEPT !.g.drain = d, !.g.wrong = w]
           Cut(t) == [t EXCEPT !.plan.batt = 0, !.plan.connect = FALSE]
           b        == i.batt
           charge   == ChargeCommanded(s.plan.batt, s.g.lastBatt)
           atRest   == s.g.hold \/ b.soc <= Reserve
           drain    == IF b.power > 0 /\ atRest THEN Least(s.g.drain + 1, Ticks) ELSE 0
           wrong    == IF b.power > 0 /\ charge THEN Least(s.g.wrong + 1, Ticks) ELSE 0
<1>1. \A d, w : Fields(Tally(d, w)) /\ Levers(Tally(d, w).g) /\ Tally(d, w).plan = s.plan
  BY DEF Fields, Levers, GuardFields
<1>2. ASSUME NEW t, Fields(t)
      PROVE  /\ Fields(Cut(t)) /\ Cut(t).g = t.g /\ Cut(t).plan.batt = 0
             /\ Cut(t).plan.solar = t.plan.solar /\ Cut(t).plan.ev = t.plan.ev
  BY <1>2 DEF Fields
<1>3. CheckBatterySafety(i, s) \in {Tally(0, 0), Tally(drain, wrong), Cut(Tally(drain, wrong))}
  BY DEF CheckBatterySafety
<1> HIDE DEF drain, wrong, Tally, Cut
<1> QED
  BY <1>1, <1>2, <1>3

-----------------------------------------------------------------------------
(* The cascade.                                                            *)

\* A plan, and a ceiling within the caps in force on an inverter in sight.
Planned(p) ==
    /\ DOMAIN p = {"batt", "connect", "solar", "ev", "breach"}
    /\ p.batt \in Watts /\ p.ev \in Watts /\ p.solar \in Amounts \cup {FullOutput}
ExpHeld(i, w) == i.solar.up /\ i.lim.exp # NaN => w \in 0..Nameplate
MaxHeld(i, w) == i.solar.up /\ i.lim.max # NaN => w \in 0..i.lim.max
GenHeld(i, w) == i.solar.up /\ i.lim.gen # NaN => w \in 0..i.lim.gen

LEMMA StartTyped ==
    ASSUME NEW i, Input(i), NEW k, Levers(k)
    PROVE  Typed(Start(i, k)) /\ Start(i, k).plan.solar = NaN
<1>1. Levers(UpdateReserveHolds(i.batt, k))
  BY HoldsKeepLevers
<1>2. Surplus(i) \in Int
  BY SurplusIsNumber
<1> DEFINE h == UpdateReserveHolds(i.batt, k)
           n == Surplus(i)
<1> HIDE DEF h, n
<1>3. Levers(h) /\ n \in Int
  BY <1>1, <1>2 DEF h, n
<1>4. Start(i, k) = [plan |-> NoPlan, g |-> h, power |-> i.batt.power, surplus |-> n,
                     followed |-> FALSE, headroom |-> NaN]
  BY DEF Start, h, n
<1> QED
  BY <1>3, <1>4 DEF Typed, Fields, Levers, GuardFields, NoPlan, Input, Watts, Amounts

\* What the compliance rules leave on the inverter.
LEMMA ComplyHolds ==
    ASSUME NEW i, NEW s, Input(i), Typed(s), s.plan.solar = NaN
    PROVE  LET t == Comply(i, s)
           IN  /\ Typed(t)
               /\ ExpHeld(i, t.plan.solar) /\ MaxHeld(i, t.plan.solar)
               /\ GenHeld(i, t.plan.solar)
<1> DEFINE a == ExportLimit(i, s)
           b == CheckExport(i, a)
           c == GenLimit(i, b)
           d == CheckImport(i, ImportLimit(i, CheckGen(i, c)))
           f == AusGenLimit(i, d)
<1>1. Typed(a) /\ ExpHeld(i, a.plan.solar)
  BY ExportCaps DEF ExpHeld
<1> HIDE DEF a
<1>2. Typed(b) /\ ExpHeld(i, b.plan.solar)
  BY <1>1, ChecksKeep DEF Keeps
<1> HIDE DEF b
<1>3. Typed(c) /\ ExpHeld(i, c.plan.solar) /\ MaxHeld(i, c.plan.solar)
  <2>1. /\ Typed(c)
        /\ i.lim.max = NaN \/ ~i.solar.up => c = b
        /\ i.lim.max # NaN /\ i.solar.up =>
              /\ c.plan.solar \in 0..i.lim.max
              /\ b.plan.solar # NaN => c.plan.solar <= b.plan.solar
    BY <1>2, GenCaps
  <2>2. i.lim.max # NaN => i.lim.max \in Nat
    BY DEF Input, Limits
  <2> HIDE DEF c
  <2> QED BY <1>2, <2>1, <2>2, Ratings DEF ExpHeld, MaxHeld
<1> HIDE DEF c
<1>4. Keeps(c, CheckGen(i, c))
  BY <1>3, ChecksKeep
<1>5. Keeps(c, ImportLimit(i, CheckGen(i, c)))
  BY <1>4, ImportKeeps DEF Keeps
<1>6. Keeps(c, d)
  BY <1>5, ChecksKeep DEF Keeps
<1> HIDE DEF d
<1>7. /\ Typed(f) /\ ExpHeld(i, f.plan.solar) /\ MaxHeld(i, f.plan.solar)
      /\ GenHeld(i, f.plan.solar)
  <2>1. /\ Typed(f)
        /\ i.lim.gen = NaN \/ ~i.solar.up => f.plan.solar = d.plan.solar
        /\ i.lim.gen # NaN /\ i.solar.up =>
              /\ f.plan.solar \in 0..i.lim.gen
              /\ d.plan.solar # NaN => f.plan.solar <= d.plan.solar
    BY <1>6, AusGenCaps DEF Keeps
  <2>2. /\ i.lim.gen # NaN => i.lim.gen \in Nat
        /\ i.lim.max # NaN => i.lim.max \in Nat
    BY DEF Input, Limits
  <2>3. ExpHeld(i, d.plan.solar) /\ MaxHeld(i, d.plan.solar)
    BY <1>3, <1>6 DEF Keeps
  <2> HIDE DEF f
  <2> QED BY <2>1, <2>2, <2>3, Ratings DEF ExpHeld, MaxHeld, GenHeld
<1> HIDE DEF f
<1>8. Keeps(f, CheckAusGen(i, f))
  BY <1>7, ChecksKeep
<1>9. Comply(i, s) = CheckAusGen(i, f)
  BY DEF Comply, a, b, c, d, f
<1> QED
  BY <1>7, <1>8, <1>9 DEF Keeps

LEMMA EconomiseKeeps ==
    ASSUME NEW i, NEW s, Input(i), Typed(s)
    PROVE  Keeps(s, Economise(i, s))
<1>1. Keeps(s, SelfConsumption(i, s))
  BY SelfConsumptionKeeps
<1>2. Keeps(s, PeakDischarge(i, SelfConsumption(i, s)))
  BY <1>1, PeakKeeps DEF Keeps
<1> QED
  BY <1>2, EvChargingKeeps DEF Keeps, Economise

\* The restore pass releases no inverter that a cap bounds.
LEMMA BackstopHolds ==
    ASSUME NEW i, NEW s, Input(i), Typed(s),
           ExpHeld(i, s.plan.solar), MaxHeld(i, s.plan.solar), GenHeld(i, s.plan.solar)
    PROVE  LET t == Backstop(i, s)
           IN  /\ Levers(t.g) /\ Planned(t.plan)
               /\ ExpHeld(i, t.plan.solar) /\ MaxHeld(i, t.plan.solar)
               /\ GenHeld(i, t.plan.solar)
               /\ t.plan.solar = FullOutput => ~SolarCapActive(i)
<1> DEFINE a == CheckAusLoad(i, AusLoadLimit(i, s))
           b == Restore(i, a)
<1>1. Keeps(s, a)
  BY AusLoadKeeps, ChecksKeep DEF Keeps
<1> HIDE DEF a
<1>2. /\ Fields(b) /\ b.g = a.g /\ b.plan.ev = a.plan.ev /\ b.plan.batt \in {a.plan.batt, 0}
      /\ b.plan.solar = IF a.plan.solar = NaN /\ (i.solar.up \/ ~SolarCapActive(i))
                        THEN FullOutput ELSE a.plan.solar
  BY <1>1 DEF Keeps, Typed, Fields, Restore
<1> HIDE DEF b
<1>3. /\ ExpHeld(i, b.plan.solar) /\ MaxHeld(i, b.plan.solar) /\ GenHeld(i, b.plan.solar)
      /\ b.plan.solar = FullOutput => ~SolarCapActive(i)
      /\ b.plan.solar \in Amounts \cup {FullOutput}
  <2>1. a.plan.solar \in Amounts /\ a.plan.solar = s.plan.solar
    BY <1>1 DEF Keeps, Typed
  <2>2. i.solar.up /\ SolarCapActive(i) => s.plan.solar \in Int
    BY DEF ExpHeld, MaxHeld, GenHeld, SolarCapActive
  <2>3. i.solar.up /\ SolarCapActive(i) => b.plan.solar = s.plan.solar
    BY <1>2, <2>1, <2>2, Ratings
  <2>4. b.plan.solar = FullOutput => ~SolarCapActive(i)
    <3>1. a.plan.solar # FullOutput
      BY <2>1, Ratings DEF Amounts, FullOutput
    <3> QED BY <1>2, <2>1, <2>2, <3>1, Ratings
  <2>5. ~SolarCapActive(i) => i.lim.exp = NaN /\ i.lim.max = NaN /\ i.lim.gen = NaN
    BY DEF SolarCapActive
  <2> QED BY <1>2, <2>1, <2>3, <2>4, <2>5 DEF ExpHeld, MaxHeld, GenHeld
<1>4. /\ Fields(CheckBatterySafety(i, b)) /\ Levers(CheckBatterySafety(i, b).g)
      /\ CheckBatterySafety(i, b).plan.solar = b.plan.solar
      /\ CheckBatterySafety(i, b).plan.ev = b.plan.ev
      /\ CheckBatterySafety(i, b).plan.batt \in {b.plan.batt, 0}
  BY <1>1, <1>2, SafetyTyped DEF Keeps, Typed
<1>5. Backstop(i, s) = CheckBatterySafety(i, b)
  BY DEF Backstop, a, b
<1> QED
  BY <1>1, <1>2, <1>3, <1>4, <1>5 DEF Planned, Fields, Keeps, Typed, Watts

LEMMA CascadeHolds ==
    ASSUME NEW i, Input(i), NEW k, Levers(k)
    PROVE  LET o == Optimize(i, k)
           IN  /\ Levers(o.g) /\ Planned(o.plan)
               /\ ~i.cease =>
                     /\ ExpHeld(i, o.plan.solar) /\ MaxHeld(i, o.plan.solar)
                     /\ GenHeld(i, o.plan.solar)
                     /\ o.plan.solar = FullOutput => ~SolarCapActive(i)
<1>1. CASE i.cease
  <2>1. Optimize(i, k) = [plan |-> CeasePlan(i), g |-> k]
    BY <1>1 DEF Optimize
  <2>2. Planned(CeasePlan(i))
    BY DEF Planned, CeasePlan, NoPlan, Watts, Amounts
  <2> QED BY <1>1, <2>1, <2>2
<1>2. CASE ~i.cease
  <2> DEFINE d == Dispatch(i, k)
             c == Comply(i, d)
             f == Economise(i, c)
             s == Backstop(i, f)
             last == IF s.plan.batt = NaN THEN s.g.lastBatt ELSE s.plan.batt
  <2>1. Keeps(Start(i, k), FixedDispatch(i, Start(i, k)))
    BY StartTyped, DispatchKeeps
  <2>2. Typed(d) /\ d.plan.solar = NaN
    BY <2>1, StartTyped, FollowKeeps DEF Dispatch, Keeps
  <2> HIDE DEF d
  <2>3. Typed(c) /\ ExpHeld(i, c.plan.solar) /\ MaxHeld(i, c.plan.solar)
        /\ GenHeld(i, c.plan.solar)
    BY <2>2, ComplyHolds
  <2> HIDE DEF c
  <2>4. Typed(f) /\ ExpHeld(i, f.plan.solar) /\ MaxHeld(i, f.plan.solar)
        /\ GenHeld(i, f.plan.solar)
    BY <2>3, EconomiseKeeps DEF Keeps
  <2> HIDE DEF f
  <2>5. /\ Levers(s.g) /\ Planned(s.plan)
        /\ ExpHeld(i, s.plan.solar) /\ MaxHeld(i, s.plan.solar)
        /\ GenHeld(i, s.plan.solar)
        /\ s.plan.solar = FullOutput => ~SolarCapActive(i)
    BY <2>4, BackstopHolds
  <2> HIDE DEF s
  <2>6. Optimize(i, k) = [plan |-> s.plan, g |-> [s.g EXCEPT !.lastBatt = last]]
    BY <1>2, <2>5 DEF Optimize, Levers, GuardFields, s, f, c, d
  <2> HIDE DEF last
  <2>7. Levers([s.g EXCEPT !.lastBatt = last])
    BY <2>5 DEF Levers, GuardFields
  <2> QED BY <1>2, <2>5, <2>6, <2>7
<1> QED
  BY <1>1, <1>2

-----------------------------------------------------------------------------
(* The stacks.                                                             *)

\* An interval of numbers, in or out of bounds.
Numeric(iv) == iv.lo \in Int /\ iv.hi \in Int
Opines(o) == Interval(o.solar) /\ Numeric(o.batt) /\ Numeric(o.ev)
Voices == {"export", "gen", "import", "gen-aus", "load-aus", "lowest"}

LEMMA FreeIsOpen == Interval(Free) /\ Numeric(Free)
BY Ratings DEF Interval, Numeric, Free, Bounds

LEMMA DemandsAreNumeric ==
    /\ \A author : \A w \in Int :
          /\ Numeric(CeilingDemand(w, author)) /\ Numeric(FloorDemand(w, author))
          /\ Numeric(PointDemand(w, author))
    /\ \A author, iv : \A w \in Watts :
          Numeric(iv) => Numeric(Exactly(w, author, iv)) /\ Numeric(UpTo(w, author, iv))
    /\ \A author : \A w \in 0..Inf :
          Interval(CeilingDemand(w, author)) /\ CeilingDemand(w, author).hi = w
BY Ratings DEF Numeric, CeilingDemand, FloorDemand, PointDemand, Exactly, UpTo, Watts,
               Interval, Bounds

LEMMA EmptyTyped ==
    ASSUME NEW i, Input(i), NEW k, Levers(k)
    PROVE  /\ Typed(Empty(i, k)) /\ Empty(i, k).plan.solar = NaN
           /\ Empty(i, k).plan.batt = NaN /\ Empty(i, k).g = k
<1>1. Surplus(i) \in Int
  BY SurplusIsNumber
<1> DEFINE n == Surplus(i)
<1> HIDE DEF n
<1>2. Empty(i, k) = [plan |-> NoPlan, g |-> k, power |-> i.batt.power, surplus |-> n,
                     followed |-> FALSE, headroom |-> NaN]
  BY DEF Empty, n
<1>3. n \in Int
  BY <1>1 DEF n
<1> QED
  BY <1>2, <1>3 DEF Typed, Fields, Levers, GuardFields, NoPlan, Input, Watts, Amounts

LEMMA OpinionOpines ==
    ASSUME NEW k, NEW breach
    PROVE  Opines(Opinion(k, breach)) /\ Opinion(k, breach).k = k
BY FreeIsOpen DEF Opines, Opinion

\* The constraints on generation demand their caps.
LEMMA ExportDemandsCap ==
    ASSUME NEW i, Input(i), NEW k, Levers(k)
    PROVE  LET o == ExportConstraint(i, k)
           IN  Levers(o.k) /\ Opines(o) /\ ExpHeld(i, o.solar.hi)
<1> DEFINE e == Empty(i, k)
           a == ExportLimit(i, e)
           s == CheckExport(i, a)
<1>1. Typed(e) /\ e.plan.solar = NaN
  BY EmptyTyped
<1> HIDE DEF e
<1>2. Typed(a) /\ a.plan.solar \in {NaN} \cup 0..Nameplate /\ ExpHeld(i, a.plan.solar)
  BY <1>1, ExportCaps DEF ExpHeld
<1> HIDE DEF a
<1>3. Keeps(a, s)
  BY <1>2, ChecksKeep
<1>4. ExportConstraint(i, k) = ExportDemands(s)
  BY DEF ExportConstraint, ExportControl, s, a, e
<1> HIDE DEF s
<1> DEFINE batt == Exactly(s.plan.batt, "export", Free)
           solar == UpTo(s.plan.solar, "export", Free)
           o == [k |-> s.g, breach |-> s.plan.breach, solar |-> solar, batt |-> batt,
                 ev |-> Free, connect |-> NaN]
<1>5. ExportDemands(s) = o
  <2>1. Opinion(s.g, s.plan.breach).batt = Free /\ Opinion(s.g, s.plan.breach).solar = Free
    BY DEF Opinion
  <2>2. ExportDemands(s) = [Opinion(s.g, s.plan.breach) EXCEPT !.batt = batt, !.solar = solar]
    BY <2>1 DEF ExportDemands
  <2> HIDE DEF batt, solar
  <2> QED BY <2>2 DEF Opinion
<1>6. Numeric(batt)
  BY <1>3, DemandsAreNumeric, FreeIsOpen DEF Keeps, Typed
<1>7. Interval(solar) /\ ExpHeld(i, solar.hi)
  <2>1. CASE s.plan.solar = NaN
    BY <1>2, <1>3, <2>1, FreeIsOpen, Ratings DEF Keeps, ExpHeld, UpTo
  <2>2. CASE s.plan.solar # NaN
    <3>1. s.plan.solar \in 0..Inf
      BY <1>2, <1>3, <2>2, Ratings DEF Keeps
    <3>2. Interval(solar) /\ solar.hi = s.plan.solar
      BY <2>2, <3>1, DemandsAreNumeric DEF UpTo
    <3> QED BY <1>2, <1>3, <3>2 DEF Keeps
  <2> QED BY <2>1, <2>2
<1> HIDE DEF batt, solar
<1> QED
  BY <1>3, <1>4, <1>5, <1>6, <1>7, FreeIsOpen DEF Keeps, Typed, Opines

LEMMA GenDemandsCap ==
    ASSUME NEW i, Input(i), NEW k, Levers(k)
    PROVE  LET o == GenLimitConstraint(i, k)
           IN  Levers(o.k) /\ Opines(o) /\ MaxHeld(i, o.solar.hi)
<1> DEFINE e == Empty(i, k)
           a == GenLimit(i, e)
           s == CheckGen(i, a)
<1>1. Typed(e) /\ e.plan.solar = NaN
  BY EmptyTyped
<1>0. i.lim.max # NaN => i.lim.max \in 0..(Inf - 1)
  BY DEF Input, Limits
<1> HIDE DEF e
<1>2. Typed(a) /\ a.plan.solar \in {NaN} \cup 0..(Inf - 1) /\ MaxHeld(i, a.plan.solar)
  BY <1>0, <1>1, GenCaps, Ratings DEF MaxHeld
<1> HIDE DEF a
<1>3. Keeps(a, s)
  BY <1>2, ChecksKeep
<1>4. GenLimitConstraint(i, k) = GenDemands(s)
  BY DEF GenLimitConstraint, s, a, e
<1> HIDE DEF s
<1> DEFINE solar == UpTo(s.plan.solar, "gen", Free)
           o == [k |-> s.g, breach |-> s.plan.breach, solar |-> solar, batt |-> Free,
                 ev |-> Free, connect |-> NaN]
<1>5. GenDemands(s) = o
  BY DEF GenDemands, Opinion
<1>7. Interval(solar) /\ MaxHeld(i, solar.hi)
  <2>1. CASE s.plan.solar = NaN
    BY <1>2, <1>3, <2>1, FreeIsOpen, Ratings DEF Keeps, MaxHeld, UpTo
  <2>2. CASE s.plan.solar # NaN
    <3>1. s.plan.solar \in 0..Inf
      BY <1>2, <1>3, <2>2, Ratings DEF Keeps
    <3>2. Interval(solar) /\ solar.hi = s.plan.solar
      BY <2>2, <3>1, DemandsAreNumeric DEF UpTo
    <3> QED BY <1>2, <1>3, <3>2 DEF Keeps
  <2> QED BY <2>1, <2>2
<1> HIDE DEF solar
<1> QED
  BY <1>3, <1>4, <1>5, <1>7, FreeIsOpen DEF Keeps, Typed, Opines

LEMMA AusGenDemandsCap ==
    ASSUME NEW i, Input(i), NEW k, Levers(k)
    PROVE  LET o == AusGenLimitConstraint(i, k)
           IN  Levers(o.k) /\ Opines(o) /\ GenHeld(i, o.solar.hi)
<1> DEFINE e == Empty(i, k)
           s == CheckAusGen(i, e)
<1>1. Typed(e)
  BY EmptyTyped
<1> HIDE DEF e
<1>2. Keeps(e, s)
  BY <1>1, ChecksKeep
<1>3. AusGenLimitConstraint(i, k) = AusGenDemands(i, s)
  BY DEF AusGenLimitConstraint, s, e
<1> HIDE DEF s
<1> DEFINE room == Pos(i.lim.gen - i.solar.power)
           batt == IF i.lim.gen # NaN /\ i.batt.up THEN CeilingDemand(room, "gen-aus") ELSE Free
           solar == IF i.lim.gen # NaN /\ i.solar.up THEN CeilingDemand(i.lim.gen, "gen-aus")
                    ELSE Free
           o == [k |-> s.g, breach |-> s.plan.breach, solar |-> solar, batt |-> batt,
                 ev |-> Free, connect |-> NaN]
<1>4. AusGenDemands(i, s) = o
  <2>1. AusGenDemands(i, s) = [Opinion(s.g, s.plan.breach) EXCEPT !.batt = batt, !.solar = solar]
    BY DEF AusGenDemands
  <2> HIDE DEF batt, solar
  <2> QED BY <2>1 DEF Opinion
<1>5. i.lim.gen # NaN => i.lim.gen \in 0..(Inf - 1) /\ room \in Int
  BY Ratings, Numbers DEF Input, Limits
<1> HIDE DEF room
<1>6. Numeric(batt)
  BY <1>5, DemandsAreNumeric, FreeIsOpen
<1>7. Interval(solar) /\ GenHeld(i, solar.hi)
  <2>1. i.lim.gen # NaN => i.lim.gen \in 0..Inf /\ i.lim.gen \in 0..i.lim.gen
    BY <1>5, Ratings
  <2> QED BY <2>1, DemandsAreNumeric, FreeIsOpen DEF GenHeld
<1> HIDE DEF batt, solar
<1> QED
  BY <1>2, <1>3, <1>4, <1>6, <1>7, FreeIsOpen DEF Keeps, Typed, Opines

LEMMA ImportOpines ==
    ASSUME NEW i, Input(i), NEW k, Levers(k)
    PROVE  LET o == ImportLimitConstraint(i, k) IN Levers(o.k) /\ Opines(o)
<1> DEFINE e == Empty(i, k)
           s == CheckImport(i, ImportLimit(i, e))
<1>1. Typed(e)
  BY EmptyTyped
<1> HIDE DEF e
<1>2. Keeps(e, s)
  BY <1>1, ImportKeeps, ChecksKeep DEF Keeps
<1>3. ImportLimitConstraint(i, k) = ImportDemands(s)
  BY DEF ImportLimitConstraint, ImportControl, s, e
<1> HIDE DEF s
<1> DEFINE batt == Exactly(s.plan.batt, "import", Free)
           o == [k |-> s.g, breach |-> s.plan.breach, solar |-> Free, batt |-> batt,
                 ev |-> Free, connect |-> NaN]
<1>4. ImportDemands(s) = o
  BY DEF ImportDemands, Opinion
<1>5. Numeric(batt)
  BY <1>2, DemandsAreNumeric, FreeIsOpen DEF Keeps, Typed
<1> HIDE DEF batt
<1> QED
  BY <1>2, <1>3, <1>4, <1>5, FreeIsOpen DEF Keeps, Typed, Opines

LEMMA AusLoadOpines ==
    ASSUME NEW i, Input(i), NEW k, Levers(k)
    PROVE  LET o == AusLoadLimitConstraint(i, k) IN Levers(o.k) /\ Opines(o)
<1> DEFINE e == Empty(i, k)
           a == AusLoadSample(i, e)
           control == AusLoadControl(i, a)
           held == [e EXCEPT !.g.ausLoad = control]
           s == CheckAusLoad(i, held)
<1>1. Typed(e)
  BY EmptyTyped
<1>2. CASE i.lim.load = NaN
  <2>1. LoadLevers(NoAusLoad)
    BY DEF LoadLevers, NoAusLoad, Amounts
  <2> DEFINE after == [k EXCEPT !.ausLoad = NoAusLoad]
  <2>2. Levers(after)
    BY <2>1 DEF Levers, GuardFields
  <2>3. AusLoadLimitConstraint(i, k) = Opinion(after, NoBreach)
    BY <1>2 DEF AusLoadLimitConstraint
  <2> HIDE DEF after
  <2> QED BY <2>2, <2>3, OpinionOpines
<1>3. CASE i.lim.load # NaN
  <2>1. AusLoadLimitConstraint(i, k) = AusLoadDemands(i, s)
    BY <1>3 DEF AusLoadLimitConstraint
  <2> HIDE DEF e
  <2>2. LoadLevers(a)
    BY <1>1, AusLoadSampleHasLevers
  <2> HIDE DEF a
  <2>3. LoadLevers(control)
    <3> DEFINE charging == Pos(-i.batt.power)
               others   == Pos(GrossLoad(i) - charging)
               charge   == IF charging > AusLoadRoom(i) THEN 0 ELSE charging
               limit    == AusEvLimit(i, a, others, charge)
               n        == IF a.ev # NaN /\ limit > a.ev THEN 0 ELSE a.safe
    <3>1. CASE i.net = NaN
      BY <2>2, <3>1 DEF AusLoadControl
    <3>2. CASE i.net # NaN
      <4>1. charging \in Nat /\ others \in Nat
        BY <3>2, GrossIsNumber, Numbers
      <4> HIDE DEF charging, others
      <4>2. charge \in Int
        BY <4>1
      <4> HIDE DEF charge
      <4>3. limit \in Nat
        BY <1>3, <2>2, <4>1, <4>2, AusEvIsAmount
      <4>4. control \in {a, [a EXCEPT !.ev = NaN], [a EXCEPT !.ev = limit, !.safe = n]}
        BY <3>2 DEF AusLoadControl, charging, others, charge
      <4> HIDE DEF limit, n, control
      <4> QED BY <2>2, <4>3, <4>4 DEF LoadLevers, Amounts
    <3> QED BY <3>1, <3>2
  <2> HIDE DEF control
  <2>4. Typed(held)
    BY <1>1, <2>3 DEF Typed, Fields, Levers, GuardFields
  <2> HIDE DEF held
  <2>5. Keeps(held, s)
    BY <2>4, ChecksKeep
  <2> HIDE DEF s
  <2> DEFINE w == s.g.ausLoad.ev
             batt == IF i.net # NaN /\ i.batt.up THEN FloorDemand(-AusLoadRoom(i), "load-aus")
                     ELSE Free
             ev == IF w # NaN /\ i.ev.session THEN CeilingDemand(w, "load-aus") ELSE Free
             o == [k |-> s.g, breach |-> s.plan.breach, solar |-> Free, batt |-> batt,
                   ev |-> ev, connect |-> NaN]
  <2>6. AusLoadDemands(i, s) = o
    <3>1. Opinion(s.g, s.plan.breach).batt = Free /\ Opinion(s.g, s.plan.breach).ev = Free
      BY DEF Opinion
    <3>2. AusLoadDemands(i, s) = [Opinion(s.g, s.plan.breach) EXCEPT !.batt = batt, !.ev = ev]
      BY <3>1 DEF AusLoadDemands
    <3> HIDE DEF batt, ev
    <3> QED BY <3>2 DEF Opinion
  <2>7. Numeric(batt)
    <3>1. i.net # NaN => -AusLoadRoom(i) \in Int
      <4> SUFFICES ASSUME i.net # NaN PROVE -AusLoadRoom(i) \in Int
        OBVIOUS
      <4> DEFINE others == Pos(GrossLoad(i) - Pos(-i.batt.power))
      <4>1. others \in Nat /\ Conservative(i.lim.load) \in Nat
        BY <1>3, GrossIsNumber, Numbers, Margins DEF Input, Limits
      <4> HIDE DEF others
      <4>2. Pos(Conservative(i.lim.load) - others) \in Nat
        BY <4>1, Numbers
      <4> QED BY <4>2 DEF AusLoadRoom, others
    <3> QED BY <3>1, DemandsAreNumeric, FreeIsOpen
  <2>8. Numeric(ev)
    <3>1. w # NaN => w \in Int
      BY <2>5 DEF Keeps, Typed, Levers, LoadLevers, Amounts
    <3> QED BY <3>1, DemandsAreNumeric, FreeIsOpen
  <2> HIDE DEF batt, ev
  <2> QED
    BY <2>1, <2>5, <2>6, <2>7, <2>8, FreeIsOpen DEF Keeps, Typed, Opines
<1> QED
  BY <1>2, <1>3

LEMMA EconomicsOpines ==
    ASSUME NEW i, Input(i), NEW k, Levers(k)
    PROVE  LET o == EconomicsConstraint(i, k)
           IN  Levers(o.k) /\ Opines(o)
<1>1. CASE i.cease
  <2>1. EconomicsConstraint(i, k) = Opinion(k, NoBreach)
    BY <1>1 DEF EconomicsConstraint
  <2> QED BY <2>1, OpinionOpines
<1>2. CASE ~i.cease
  <2> DEFINE e == FixedDispatch(i, Empty(i, k))
             told == IF i.target = NaN THEN i ELSE [i EXCEPT !.target.evModelled = TRUE]
             p == FollowPlan(told, e)
             s == Reactive(i, p)
  <2>1. Typed(e)
    BY EmptyTyped, DispatchKeeps DEF Keeps
  <2>2. Input(told)
    BY DEF Input
  <2> HIDE DEF e, told
  <2>3. Typed(p)
    BY <2>1, <2>2, FollowKeeps DEF Keeps
  <2>4. EconomicPlan(i, e) = p
    BY DEF EconomicPlan, told
  <2> HIDE DEF p
  <2>5. Typed(s)
    <3>1. Typed(Economise(i, p))
      BY <2>3, EconomiseKeeps DEF Keeps
    <3> QED BY <2>3, <3>1 DEF Reactive, Economise
  <2>6. EconomicsConstraint(i, k) = [EconomicDemands(s) EXCEPT !.k = k]
    BY <1>2, <2>4 DEF EconomicsConstraint, e
  <2> HIDE DEF s
  <2> DEFINE batt == Exactly(s.plan.batt, "economics", Free)
             ev == Exactly(s.plan.ev, "economics", Free)
             o == [k |-> k, breach |-> NoBreach, solar |-> Free, batt |-> batt,
                   ev |-> ev, connect |-> NaN]
  <2>7. EconomicsConstraint(i, k) = o
    <3>1. Opinion(s.g, NoBreach).batt = Free /\ Opinion(s.g, NoBreach).ev = Free
      BY DEF Opinion
    <3>2. EconomicDemands(s) = [Opinion(s.g, NoBreach) EXCEPT !.batt = batt, !.ev = ev]
      BY <3>1 DEF EconomicDemands
    <3> HIDE DEF batt, ev
    <3> QED BY <2>6, <3>2 DEF Opinion
  <2>8. Numeric(batt) /\ Numeric(ev)
    BY <2>5, DemandsAreNumeric, FreeIsOpen DEF Typed
  <2> HIDE DEF batt, ev
  <2> QED
    BY <2>7, <2>8, FreeIsOpen DEF Opines
<1> QED
  BY <1>1, <1>2

LEMMA UtilityOpines ==
    ASSUME NEW i, Input(i), NEW k, Levers(k)
    PROVE  LET o == CSIPPassthrough(i, k) IN Levers(o.k) /\ Opines(o)
<1> DEFINE w == IF i.lim.max = NaN THEN Inf ELSE i.lim.max
           batt == IF i.fixed = NaN THEN 0 ELSE i.fixed
           ev == IF i.peak THEN 0 ELSE EvMax
           o == CSIPPassthrough(i, k)
<1>1. w \in 0..Inf /\ batt \in Int /\ ev \in Int
  BY Ratings DEF Input, Limits, Watts
<1>2. /\ o.k = k /\ o.solar = CeilingDemand(w, "csip-maxlim")
      /\ o.batt = PointDemand(batt, "csip-fixedw") /\ o.ev = CeilingDemand(ev, "gateway-evse")
  BY DEF CSIPPassthrough, Opinion
<1> HIDE DEF w, batt, ev, o
<1>3. Levers(o.k) /\ Opines(o)
  BY <1>1, <1>2, DemandsAreNumeric DEF Opines
<1> QED
  BY <1>3 DEF o

\* A pass of a stack: what is said of an axis is within numbers, and the caps
\* of the constraints asked are among it.
Ready(pass) ==
    /\ DOMAIN pass = {"k", "breach", "said"} /\ DOMAIN pass.said = Voices
    /\ Levers(pass.k)
    /\ \A n \in Voices : Opines(pass.said[n])
Capped(i, wired, pass) ==
    /\ "export" \in wired => ExpHeld(i, pass.said["export"].solar.hi)
    /\ "gen" \in wired => MaxHeld(i, pass.said["gen"].solar.hi)
    /\ "gen-aus" \in wired => GenHeld(i, pass.said["gen-aus"].solar.hi)

LEMMA HeardReady ==
    ASSUME NEW pass, Ready(pass), NEW o, Levers(o.k), Opines(o), NEW name \in Voices,
           NEW t, t = Heard(pass, name, o)
    PROVE  /\ Ready(t) /\ t.said[name] = o
           /\ \A n \in Voices \ {name} : t.said[n] = pass.said[n]
<1> DEFINE worse == Worse(pass.breach, o.breach)
<1>1. t = [pass EXCEPT !.k = o.k, !.breach = worse, !.said[name] = o]
  BY DEF Heard
<1> HIDE DEF worse
<1>2. /\ DOMAIN t = {"k", "breach", "said"} /\ t.k = o.k
      /\ t.said = [pass.said EXCEPT ![name] = o]
  BY <1>1 DEF Ready
<1>3. t.said[name] = o /\ \A n \in Voices \ {name} : t.said[n] = pass.said[n]
  BY <1>2 DEF Ready
<1>4. DOMAIN t.said = Voices
  BY <1>2 DEF Ready
<1>5. \A n \in Voices : Opines(t.said[n])
  BY <1>3 DEF Ready
<1> QED
  BY <1>2, <1>3, <1>4, <1>5 DEF Ready

LEMMA CompliedCapped ==
    ASSUME NEW i, Input(i), NEW k, Levers(k), NEW wired
    PROVE  /\ Ready(Complied(i, k, wired)) /\ Capped(i, wired, Complied(i, k, wired))
<1> DEFINE start == NoPass(UpdateReserveHolds(i.batt, k))
           a == Turn(i, start, "export", ExportConstraint, wired)
           b == Turn(i, a, "gen", GenLimitConstraint, wired)
           c == Turn(i, b, "import", ImportLimitConstraint, wired)
           d == Turn(i, c, "gen-aus", AusGenLimitConstraint, wired)
           e == Turn(i, d, "load-aus", AusLoadLimitConstraint, wired)
<1>1. Ready(start)
  <2> DEFINE h == UpdateReserveHolds(i.batt, k)
  <2>1. Levers(h)
    BY HoldsKeepLevers
  <2> HIDE DEF h
  <2>2. start = [k |-> h, breach |-> NoBreach, said |-> [n \in Voices |-> Opinion(h, NoBreach)]]
    BY DEF NoPass, Voices, h
  <2>3. Opines(Opinion(h, NoBreach))
    BY OpinionOpines
  <2> HIDE DEF start
  <2> QED BY <2>1, <2>2, <2>3 DEF Ready
<1> HIDE DEF start
<1>2. /\ Ready(a)
      /\ "export" \in wired => ExpHeld(i, a.said["export"].solar.hi)
  <2>1. CASE "export" \notin wired
    BY <1>1, <2>1 DEF Turn
  <2>2. CASE "export" \in wired
    <3> DEFINE o == ExportConstraint(i, start.k)
    <3>1. Levers(o.k) /\ Opines(o) /\ ExpHeld(i, o.solar.hi)
      BY <1>1, ExportDemandsCap DEF Ready
    <3>2. a = Heard(start, "export", o)
      BY <2>2 DEF Turn
    <3> HIDE DEF o, a
    <3>3. /\ Ready(a) /\ a.said["export"] = o
          /\ \A n \in Voices \ {"export"} : a.said[n] = start.said[n]
      <4>1. "export" \in Voices
        BY DEF Voices
      <4> QED BY <1>1, <3>1, <3>2, <4>1, HeardReady
    <3>4. /\ a.said["gen"] = start.said["gen"] /\ a.said["import"] = start.said["import"]
          /\ a.said["gen-aus"] = start.said["gen-aus"]
      BY <3>3 DEF Voices
    <3> QED BY <1>1, <3>1, <3>3, <3>4
  <2> QED BY <2>1, <2>2
<1> HIDE DEF a
<1>3. /\ Ready(b)
      /\ "export" \in wired => ExpHeld(i, b.said["export"].solar.hi)
      /\ "gen" \in wired => MaxHeld(i, b.said["gen"].solar.hi)
  <2>1. CASE "gen" \notin wired
    BY <1>2, <2>1 DEF Turn
  <2>2. CASE "gen" \in wired
    <3> DEFINE o == GenLimitConstraint(i, a.k)
    <3>1. Levers(o.k) /\ Opines(o) /\ MaxHeld(i, o.solar.hi)
      BY <1>2, GenDemandsCap DEF Ready
    <3>2. b = Heard(a, "gen", o)
      BY <2>2 DEF Turn
    <3> HIDE DEF o, b
    <3>3. /\ Ready(b) /\ b.said["gen"] = o
          /\ \A n \in Voices \ {"gen"} : b.said[n] = a.said[n]
      <4>1. "gen" \in Voices
        BY DEF Voices
      <4> QED BY <1>2, <3>1, <3>2, <4>1, HeardReady
    <3>4. /\ b.said["export"] = a.said["export"] /\ b.said["import"] = a.said["import"]
          /\ b.said["gen-aus"] = a.said["gen-aus"]
      BY <3>3 DEF Voices
    <3> QED BY <1>2, <3>1, <3>3, <3>4
  <2> QED BY <2>1, <2>2
<1> HIDE DEF b
<1>4. /\ Ready(c)
      /\ "export" \in wired => ExpHeld(i, c.said["export"].solar.hi)
      /\ "gen" \in wired => MaxHeld(i, c.said["gen"].solar.hi)
  <2>1. CASE "import" \notin wired
    BY <1>3, <2>1 DEF Turn
  <2>2. CASE "import" \in wired
    <3> DEFINE o == ImportLimitConstraint(i, b.k)
    <3>1. Levers(o.k) /\ Opines(o)
      BY <1>3, ImportOpines DEF Ready
    <3>2. c = Heard(b, "import", o)
      BY <2>2 DEF Turn
    <3> HIDE DEF o, c
    <3>3. /\ Ready(c) /\ c.said["import"] = o
          /\ \A n \in Voices \ {"import"} : c.said[n] = b.said[n]
      <4>1. "import" \in Voices
        BY DEF Voices
      <4> QED BY <1>3, <3>1, <3>2, <4>1, HeardReady
    <3>4. /\ c.said["export"] = b.said["export"] /\ c.said["gen"] = b.said["gen"]
          /\ c.said["gen-aus"] = b.said["gen-aus"]
      BY <3>3 DEF Voices
    <3> QED BY <1>3, <3>1, <3>3, <3>4
  <2> QED BY <2>1, <2>2
<1> HIDE DEF c
<1>5. Ready(d) /\ Capped(i, wired, d)
  <2>1. CASE "gen-aus" \notin wired
    BY <1>4, <2>1 DEF Turn, Capped
  <2>2. CASE "gen-aus" \in wired
    <3> DEFINE o == AusGenLimitConstraint(i, c.k)
    <3>1. Levers(o.k) /\ Opines(o) /\ GenHeld(i, o.solar.hi)
      BY <1>4, AusGenDemandsCap DEF Ready
    <3>2. d = Heard(c, "gen-aus", o)
      BY <2>2 DEF Turn
    <3> HIDE DEF o, d
    <3>3. /\ Ready(d) /\ d.said["gen-aus"] = o
          /\ \A n \in Voices \ {"gen-aus"} : d.said[n] = c.said[n]
      <4>1. "gen-aus" \in Voices
        BY DEF Voices
      <4> QED BY <1>4, <3>1, <3>2, <4>1, HeardReady
    <3>4. /\ d.said["export"] = c.said["export"] /\ d.said["gen"] = c.said["gen"]
          /\ d.said["import"] = c.said["import"]
      BY <3>3 DEF Voices
    <3> QED BY <1>4, <3>1, <3>3, <3>4 DEF Capped
  <2> QED BY <2>1, <2>2
<1> HIDE DEF d
<1>6. Ready(e) /\ Capped(i, wired, e)
  <2>1. CASE "load-aus" \notin wired
    BY <1>5, <2>1 DEF Turn
  <2>2. CASE "load-aus" \in wired
    <3> DEFINE o == AusLoadLimitConstraint(i, d.k)
    <3>1. Levers(o.k) /\ Opines(o)
      BY <1>5, AusLoadOpines DEF Ready
    <3>2. e = Heard(d, "load-aus", o)
      BY <2>2 DEF Turn
    <3> HIDE DEF o, e
    <3>3. /\ Ready(e) /\ e.said["load-aus"] = o
          /\ \A n \in Voices \ {"load-aus"} : e.said[n] = d.said[n]
      <4>1. "load-aus" \in Voices
        BY DEF Voices
      <4> QED BY <1>5, <3>1, <3>2, <4>1, HeardReady
    <3>4. /\ e.said["export"] = d.said["export"] /\ e.said["gen"] = d.said["gen"]
          /\ e.said["import"] = d.said["import"] /\ e.said["gen-aus"] = d.said["gen-aus"]
         
      BY <3>3 DEF Voices
    <3> QED BY <1>5, <3>1, <3>3, <3>4 DEF Capped
  <2> QED BY <2>1, <2>2
<1> QED
  BY <1>6 DEF Complied, start, a, b, c, d

LEMMA NumericNarrow ==
    ASSUME NEW iv, NEW d, Numeric(iv), Numeric(d)
    PROVE  Numeric(Narrow(iv, d)) /\ Numeric(Clamp(iv, d))
<1>0. iv.lo \in Int /\ iv.hi \in Int /\ d.lo \in Int /\ d.hi \in Int
  BY DEF Numeric
<1>1. /\ Upper(iv.lo, d.lo) \in Int /\ Lower(iv.hi, d.hi) \in Int
      /\ Lower(iv.lo, Lower(iv.hi, d.hi)) \in Int
  BY <1>0 DEF Upper, Lower
<1>2. Numeric(Narrow(iv, d))
  BY <1>1 DEF Narrow, Meet, Numeric
<1>3. Numeric(Clamp(iv, d))
  BY <1>0, <1>1 DEF Clamp, Meet, Numeric
<1> QED
  BY <1>2, <1>3

\* The highest tier, where nobody speaks, takes nothing from the next.
LEMMA FreeClampsNothing ==
    ASSUME NEW iv, Interval(iv)
    PROVE  Interval(Clamp(Free, iv)) /\ Clamp(Free, iv).hi <= iv.hi
<1>1. Interval(Clamp(Free, iv))
  BY FreeIsOpen, ClampStaysWithin
<1>2. /\ iv.lo \in Int /\ iv.hi \in Int /\ iv.lo <= iv.hi
      /\ -Inf <= iv.lo /\ iv.hi <= Inf /\ Inf \in Int
  BY Ratings DEF Interval, Bounds
<1>3. Upper(-Inf, iv.lo) = iv.lo /\ Lower(Inf, iv.hi) = iv.hi
  BY <1>2 DEF Upper, Lower
<1>4. Meet(Free, iv) = [lo |-> iv.lo, hi |-> iv.hi]
  BY <1>3 DEF Meet, Free
<1>5. Clamp(Free, iv).hi = iv.hi
  BY <1>2, <1>4 DEF Clamp, Meets
<1> QED
  BY <1>1, <1>2, <1>5

LEMMA ResolvedHolds ==
    ASSUME NEW pass, Ready(pass)
    PROVE  LET r == Resolved(pass.said)
           IN  /\ Interval(r.solar) /\ Numeric(r.batt) /\ Numeric(r.ev)
               /\ r.solar.hi <= pass.said["export"].solar.hi
               /\ r.solar.hi <= pass.said["gen"].solar.hi
               /\ r.solar.hi <= pass.said["gen-aus"].solar.hi
<1> DEFINE said == pass.said
<1>1. \A n \in Voices : Interval(said[n].solar) /\ Numeric(said[n].batt) /\ Numeric(said[n].ev)
  BY DEF Ready, Opines
<1> HIDE DEF said
<1>2. /\ Interval(said["export"].solar) /\ Interval(said["gen"].solar)
      /\ Interval(said["gen-aus"].solar) /\ Interval(said["lowest"].solar)
      /\ Numeric(said["export"].batt) /\ Numeric(said["gen-aus"].batt)
      /\ Numeric(said["import"].batt) /\ Numeric(said["load-aus"].batt)
      /\ Numeric(said["lowest"].batt) /\ Numeric(said["load-aus"].ev) /\ Numeric(said["lowest"].ev)
  BY <1>1 DEF Voices
<1> DEFINE tier == IntersectSameTier(said["export"].solar, said["gen"].solar,
                                     said["gen-aus"].solar, Free)
           solar == ResolveInterval(Free, tier, said["lowest"].solar)
           four == IntersectSameTier(said["export"].batt, said["gen-aus"].batt,
                                     said["import"].batt, said["load-aus"].batt)
           batt == ResolveInterval(Free, four, said["lowest"].batt)
           ev == ResolveInterval(Free, said["load-aus"].ev, said["lowest"].ev)
<1>3. /\ Interval(tier)
      /\ tier.hi <= said["export"].solar.hi /\ tier.hi <= said["gen"].solar.hi
      /\ tier.hi <= said["gen-aus"].solar.hi
  BY <1>2, FreeIsOpen, TightestCeilingHolds
<1> HIDE DEF tier
<1>4. Interval(solar) /\ solar.hi <= tier.hi
  <2> DEFINE inner == Clamp(Free, tier)
  <2>1. Interval(inner) /\ inner.hi <= tier.hi
    BY <1>3, FreeClampsNothing
  <2>2. solar = Clamp(inner, said["lowest"].solar)
    BY DEF ResolveInterval
  <2> HIDE DEF inner, solar
  <2>3. Interval(solar) /\ solar.hi <= inner.hi
    BY <1>2, <2>1, <2>2, ClampStaysWithin DEF Within
  <2>4. solar.hi \in Int /\ inner.hi \in Int /\ tier.hi \in Int
    BY <1>3, <2>1, <2>3, BoundsAreIntegers DEF Interval
  <2> QED BY <2>1, <2>3, <2>4
<1> HIDE DEF solar
<1>5. Numeric(four)
  <2> DEFINE w == Narrow(Free, said["export"].batt)
             x == Narrow(w, said["gen-aus"].batt)
             y == Narrow(x, said["import"].batt)
  <2>1. Numeric(w)
    BY <1>2, FreeIsOpen, NumericNarrow
  <2> HIDE DEF w
  <2>2. Numeric(x)
    BY <1>2, <2>1, NumericNarrow
  <2> HIDE DEF x
  <2>3. Numeric(y)
    BY <1>2, <2>2, NumericNarrow
  <2>4. four = Narrow(y, said["load-aus"].batt)
    BY DEF IntersectSameTier, y, x, w
  <2> HIDE DEF y
  <2> QED BY <1>2, <2>3, <2>4, NumericNarrow
<1> HIDE DEF four
<1>6. Numeric(batt) /\ Numeric(ev)
  <2>1. Numeric(Clamp(Free, four)) /\ Numeric(Clamp(Free, said["load-aus"].ev))
    BY <1>2, <1>5, FreeIsOpen, NumericNarrow
  <2> QED BY <1>2, <2>1, NumericNarrow DEF ResolveInterval
<1> HIDE DEF batt, ev
<1>7. Resolved(pass.said) = [solar |-> solar, batt |-> batt, ev |-> ev]
  BY DEF Resolved, solar, tier, batt, four, ev, said
<1>8. /\ solar.hi \in Int /\ tier.hi \in Int /\ said["export"].solar.hi \in Int
      /\ said["gen"].solar.hi \in Int /\ said["gen-aus"].solar.hi \in Int
  BY <1>2, <1>3, <1>4, BoundsAreIntegers DEF Interval
<1>9. /\ solar.hi <= said["export"].solar.hi /\ solar.hi <= said["gen"].solar.hi
      /\ solar.hi <= said["gen-aus"].solar.hi
  BY <1>3, <1>4, <1>8
<1> QED
  BY <1>4, <1>6, <1>7, <1>9 DEF said

\* A resolved ceiling under a demanded one is emitted under it.
LEMMA EmittedCeiling ==
    ASSUME NEW des, Interval(des.solar), NEW connect, NEW silent, NEW cap \in 0..(Inf - 1),
           NEW hi \in 0..cap, des.solar.hi <= hi
    PROVE  EmitCommands(des, connect, silent).solar \in 0..cap
<1>1. des.solar.hi \in Int /\ des.solar.hi < Inf /\ hi \in Nat /\ cap \in Nat
  <2>1. des.solar.hi \in Int
    BY BoundsAreIntegers DEF Interval
  <2> QED BY <2>1, Ratings
<1>2. EmitCommands(des, connect, silent).solar = Most(0, des.solar.hi)
  BY <1>1 DEF EmitCommands, NoPlan
<1> QED
  BY <1>1, <1>2 DEF Most

LEMMA EmittedPlanned ==
    ASSUME NEW des, Interval(des.solar), Numeric(des.batt), Numeric(des.ev),
           NEW connect, NEW silent
    PROVE  Planned(EmitCommands(des, connect, silent))
<1> DEFINE p == EmitCommands(des, connect, silent)
           solar == CASE des.solar.hi < Inf -> Most(0, des.solar.hi)
                      [] des.solar.hi = Inf /\ silent -> NaN
                      [] OTHER -> FullOutput
           batt == IF des.batt.lo = -Inf /\ des.batt.hi = Inf THEN NaN
                   ELSE ProjectSetpoint(des.batt)
           ev == IF des.ev.hi = Inf THEN NaN ELSE Most(0, des.ev.hi)
<1>1. des.solar.hi \in Int /\ Inf \in Int
  <2>1. des.solar.hi \in Int
    BY BoundsAreIntegers DEF Interval
  <2> QED BY <2>1, Ratings
<1>2. solar \in Amounts \cup {FullOutput}
  BY <1>1, Numbers DEF Amounts, Most
<1>3. batt \in Watts /\ ev \in Watts
  BY DEF Numeric, Watts, ProjectSetpoint, Upper, Lower, Most
<1>4. p = [NoPlan EXCEPT !.solar = solar, !.batt = batt, !.ev = ev, !.connect = connect]
  BY DEF EmitCommands
<1> HIDE DEF solar, batt, ev
<1> QED
  BY <1>2, <1>3, <1>4 DEF Planned, NoPlan

\* What a stack commands of an inverter keeps the caps of its constraints.
LEMMA ArbitratedHolds ==
    ASSUME NEW i, Input(i), NEW pass, Ready(pass), NEW wired, Capped(i, wired, pass),
           NEW lowest
    PROVE  LET o == Arbitrated(i, pass, wired, lowest, Resolved(pass.said))
           IN  /\ Levers(o.k) /\ Planned(o.plan)
               /\ "export" \in wired => ExpHeld(i, o.plan.solar)
               /\ "gen" \in wired => MaxHeld(i, o.plan.solar)
               /\ "gen-aus" \in wired => GenHeld(i, o.plan.solar)
<1> DEFINE des == Resolved(pass.said)
           connect == pass.said["lowest"].connect
           p == EmitCommands(des, connect, lowest = "economics")
           e == [Empty(i, pass.k) EXCEPT !.plan = p]
           t == CheckBatterySafety(i, e)
           o == Arbitrated(i, pass, wired, lowest, des)
<1>1. /\ Interval(des.solar) /\ Numeric(des.batt) /\ Numeric(des.ev)
      /\ des.solar.hi <= pass.said["export"].solar.hi
      /\ des.solar.hi <= pass.said["gen"].solar.hi
      /\ des.solar.hi <= pass.said["gen-aus"].solar.hi
  BY ResolvedHolds
<1> HIDE DEF des, connect
<1>2. Planned(p)
  BY <1>1, EmittedPlanned
<1>3. /\ "export" \in wired => ExpHeld(i, p.solar)
      /\ "gen" \in wired => MaxHeld(i, p.solar)
      /\ "gen-aus" \in wired => GenHeld(i, p.solar)
  <2>1. Nameplate \in 0..(Inf - 1)
    BY Ratings
  <2>2. /\ i.lim.max # NaN => i.lim.max \in 0..(Inf - 1)
        /\ i.lim.gen # NaN => i.lim.gen \in 0..(Inf - 1)
    BY DEF Input, Limits
  <2>3. "export" \in wired => ExpHeld(i, p.solar)
    BY <1>1, <2>1, EmittedCeiling DEF Capped, ExpHeld
  <2>4. "gen" \in wired => MaxHeld(i, p.solar)
    BY <1>1, <2>2, EmittedCeiling DEF Capped, MaxHeld
  <2>5. "gen-aus" \in wired => GenHeld(i, p.solar)
    BY <1>1, <2>2, EmittedCeiling DEF Capped, GenHeld
  <2> QED BY <2>3, <2>4, <2>5
<1> HIDE DEF p
<1>4. Levers(pass.k) /\ Typed(Empty(i, pass.k)) /\ Empty(i, pass.k).g = pass.k
  BY EmptyTyped DEF Ready
<1>5. Fields(e) /\ e.g = pass.k /\ e.plan = p
  BY <1>2, <1>4 DEF Typed, Fields, Planned
<1> HIDE DEF e
<1>6. /\ Fields(t) /\ Levers(t.g) /\ t.plan.solar = p.solar /\ t.plan.ev = p.ev
      /\ t.plan.batt \in {p.batt, 0}
  BY <1>4, <1>5, SafetyTyped
<1>7. Levers(o.k) /\ Planned(o.plan) /\ o.plan.solar = p.solar
  <2>1. CASE "battery-safety" \in wired
    <3> DEFINE last == IF t.plan.batt = NaN THEN t.g.lastBatt ELSE t.plan.batt
    <3>1. /\ o.plan = [t.plan EXCEPT !.breach = pass.breach]
          /\ o.k = [t.g EXCEPT !.lastBatt = IF t.plan.batt = NaN THEN @ ELSE t.plan.batt]
      BY <2>1 DEF e, p, connect, Arbitrated, Emitted, Judged, PostArbitrate
    <3> HIDE DEF t, o
    <3>2. o.k = [t.g EXCEPT !.lastBatt = last]
      BY <1>6, <3>1 DEF Levers, GuardFields
    <3> HIDE DEF last
    <3>3. Levers(o.k)
      BY <1>6, <3>2 DEF Levers, GuardFields
    <3>4. Planned(o.plan) /\ o.plan.solar = p.solar
      BY <1>2, <1>6, <3>1 DEF Fields, Planned, Watts
    <3> QED BY <3>3, <3>4
  <2>2. CASE "battery-safety" \notin wired
    <3>1. o.plan = [p EXCEPT !.breach = pass.breach] /\ o.k = pass.k
      BY <2>2 DEF p, connect, Arbitrated, Emitted, Judged
    <3> HIDE DEF o
    <3> QED BY <1>2, <1>4, <3>1 DEF Planned
  <2> QED BY <2>1, <2>2
<1> QED
  BY <1>3, <1>7 DEF des

LEMMA GatewayHolds ==
    ASSUME NEW i, Input(i), NEW k, Levers(k)
    PROVE  LET o == GatewayOptimize(i, k)
           IN  /\ Levers(o.k) /\ Planned(o.plan)
               /\ ExpHeld(i, o.plan.solar) /\ MaxHeld(i, o.plan.solar)
<1> DEFINE done == Complied(i, k, GatewayStack)
           said == CSIPPassthrough(i, done.k)
           pass == Heard(done, "lowest", said)
<1>1. Ready(done) /\ Capped(i, GatewayStack, done)
  BY CompliedCapped
<1> HIDE DEF done
<1>2. Levers(said.k) /\ Opines(said)
  BY <1>1, UtilityOpines DEF Ready
<1>3. GatewayOptimize(i, k)
        = Arbitrated(i, pass, GatewayStack, "csip-passthrough", Resolved(pass.said))
  BY DEF GatewayOptimize, RunStack, Finished, done
<1> HIDE DEF said
<1>4. Ready(pass) /\ \A n \in Voices \ {"lowest"} : pass.said[n] = done.said[n]
  <2>1. "lowest" \in Voices
    BY DEF Voices
  <2> QED BY <1>1, <1>2, <2>1, HeardReady
<1>5. Capped(i, GatewayStack, pass)
  <2> HIDE DEF pass
  <2> QED BY <1>1, <1>4 DEF Capped, Voices, GatewayStack
<1> HIDE DEF pass
<1>6. "export" \in GatewayStack /\ "gen" \in GatewayStack
  BY DEF GatewayStack
<1> QED
  BY <1>3, <1>4, <1>5, <1>6, ArbitratedHolds

LEMMA CandidateHolds ==
    ASSUME NEW i, Input(i), NEW k, Levers(k)
    PROVE  LET o == CandidateOptimize(i, k)
           IN  /\ Levers(o.k) /\ Planned(o.plan)
               /\ "export" \in Wired => ExpHeld(i, o.plan.solar)
               /\ "gen" \in Wired => MaxHeld(i, o.plan.solar)
               /\ "gen-aus" \in Wired => GenHeld(i, o.plan.solar)
<1> DEFINE done == Complied(i, k, Wired)
           said == EconomicsConstraint(i, done.k)
           pass == Heard(done, "lowest", said)
<1>1. Ready(done) /\ Capped(i, Wired, done)
  BY CompliedCapped
<1>2. CASE "economics" \in Wired
  <2>1. CandidateOptimize(i, k)
          = Arbitrated(i, pass, Wired, "economics", Resolved(pass.said))
    BY <1>2 DEF CandidateOptimize, RunStack, Finished
  <2> HIDE DEF done
  <2>2. Levers(said.k) /\ Opines(said)
    BY <1>1, EconomicsOpines DEF Ready
  <2> HIDE DEF said
  <2>3. Ready(pass) /\ \A n \in Voices \ {"lowest"} : pass.said[n] = done.said[n]
    <3>1. "lowest" \in Voices
      BY DEF Voices
    <3> QED BY <1>1, <2>2, <3>1, HeardReady
  <2> HIDE DEF pass
  <2>4. Capped(i, Wired, pass)
    BY <1>1, <2>3 DEF Capped, Voices
  <2> QED BY <2>1, <2>3, <2>4, ArbitratedHolds
<1>3. CASE "economics" \notin Wired
  <2>1. CandidateOptimize(i, k)
          = Arbitrated(i, done, Wired, "economics", Resolved(done.said))
    BY <1>3 DEF CandidateOptimize, RunStack, Finished
  <2> HIDE DEF done
  <2> QED
    BY <1>1, <2>1, ArbitratedHolds
<1> QED
  BY <1>2, <1>3

-----------------------------------------------------------------------------
(* The loop.                                                               *)

\* A ceiling is taken from the candidate only where any is configured; what
\* bounds it then are the constraints the candidate stack was wired with.
CapsAreWired ==
    \A on \in ActiveSets : on # {} => {"export", "gen", "gen-aus"} \subseteq Wired

Standing(d) ==
    /\ DOMAIN d = {"batt", "closed", "ceiling", "ev", "off"}
    /\ d.batt \in Int /\ d.ceiling \in Nat /\ d.ev \in Int

CapsInv ==
    /\ Levers(g) /\ Levers(cand) /\ Levers(gate)
    /\ Standing(standing) /\ Planned(plan)
    /\ env \in Environments /\ soc \in Charge /\ lastNet \in Int
    /\ active \in ActiveSets
    /\ EveryAuthorHoldsCaps

LEMMA SiteNumbers ==
    ASSUME Standing(standing), env \in Environments, soc \in Charge, lastNet \in Int
    PROVE  Input(Observed) /\ Net \in Int
<1>1. /\ env.sun \in Nat /\ env.load \in Nat /\ soc \in 0..100
      /\ env.fixed \in Int \cup {NaN}
      /\ env.target # NaN => env.target \in [batt : Int, evModelled : BOOLEAN, ev : Int]
  BY OptimizerAssumption DEF Environments
<1>2. /\ env.lim.exp \in Limits /\ env.lim.imp \in Limits /\ env.lim.max \in Limits
      /\ env.lim.gen \in Limits /\ env.lim.load \in Limits
  BY OptimizerAssumption DEF Environments, Limits
<1>3. PackPower \in Int
  BY Numbers DEF PackPower, Standing
<1>4. SolarPower \in Nat
  BY <1>1, Numbers DEF SolarPower, Standing
<1>5. EvDraw \in Int
  BY Ratings DEF EvDraw, Standing
<1>6. Net \in Int
  BY <1>1, <1>3, <1>4, <1>5 DEF Net
<1> DEFINE o == Observed
           net == CASE env.meter = "live" -> Net
                    [] env.meter = "lagging" -> lastNet
                    [] OTHER -> NaN
<1>7. net \in Watts
  BY <1>6 DEF Watts
<1>8. /\ DOMAIN o = {"net", "solar", "batt", "ev", "lim", "fixed", "cease", "peak", "target"}
      /\ o.net = net /\ o.solar.power \in {0, SolarPower} /\ o.batt.power \in {0, PackPower}
      /\ o.batt.soc = soc /\ o.ev.power = EvDraw /\ o.lim = env.lim /\ o.fixed = env.fixed
      /\ o.target = env.target
  BY DEF Observed
<1> HIDE DEF o, net
<1>9. Input(o)
  BY <1>1, <1>2, <1>3, <1>4, <1>5, <1>7, <1>8 DEF Input, Watts
<1> QED
  BY <1>6, <1>9 DEF o

LEMMA MergedStands ==
    ASSUME Standing(standing), NEW p, Planned(p)
    PROVE  Standing(Merged(p))
<1>1. p.solar # NaN /\ p.solar # FullOutput => p.solar \in Nat
  BY DEF Planned, Amounts
<1>2. p.batt # NaN => p.batt \in Int
  BY DEF Planned, Watts
<1>3. p.ev # NaN => p.ev \in Int
  BY DEF Planned, Watts
<1> QED
  BY <1>1, <1>2, <1>3, Ratings DEF Merged, Standing

\* A composed plan takes each axis from one of two plans.
LEMMA ComposedHolds ==
    ASSUME NEW legacy, NEW asked, Planned(legacy), Planned(asked), NEW by, NEW on
    PROVE  LET p == Compose(legacy, asked, by, on)
           IN  Planned(p) /\ p.solar \in {legacy.solar, asked.solar}
<1> DEFINE p == Compose(legacy, asked, by, on)
<1>1. /\ DOMAIN p = {"batt", "connect", "solar", "ev", "breach"}
      /\ p.solar \in {legacy.solar, asked.solar} /\ p.batt \in {legacy.batt, asked.batt}
      /\ p.ev \in {legacy.ev, asked.ev}
  BY DEF Compose
<1> HIDE DEF p
<1>2. Planned(p) /\ p.solar \in {legacy.solar, asked.solar}
  BY <1>1 DEF Planned
<1> QED
  BY <1>2 DEF p

LEMMA CapsStart == InitAuthors => CapsInv
<1> SUFFICES ASSUME InitAuthors PROVE CapsInv
  OBVIOUS
<1>1. Levers(InitGuards)
  BY DEF Levers, GuardFields, ExpLevers, ImpLevers, LoadLevers, InitGuards, NoExport,
         NoImport, NoAusLoad, Amounts
<1>2. Planned(NoPlan)
  BY DEF Planned, NoPlan, Watts, Amounts
<1>3. Standing(standing)
  BY Ratings DEF InitAuthors, Init, Standing
<1>4. env \in Environments /\ soc \in Charge /\ lastNet \in Int
  BY OptimizerAssumption DEF InitAuthors, Init
<1>5. EveryAuthorHoldsCaps
  BY DEF InitAuthors, Init, EveryAuthorHoldsCaps, CapsAreHeld
<1> QED
  BY <1>1, <1>2, <1>3, <1>4, <1>5 DEF InitAuthors, Init, CapsInv

LEMMA EnvironmentStays ==
    ASSUME env \in Environments, Weather \/ Breakdown \/ Control \/ Economy
    PROVE  env' \in Environments
<1>1. CASE Weather
  BY <1>1 DEF Weather, Becomes, Environments
<1>2. CASE Breakdown
  BY <1>2 DEF Breakdown, Becomes, Environments
<1>3. CASE Control
  <2> DEFINE Lims == [exp : ExpLimits, imp : ImpLimits, max : MaxLimits, gen : GenLimits,
                      load : LoadLimits]
  <2>1. env.lim \in Lims /\ \A l \in Lims : [env EXCEPT !.lim = l] \in Environments
    BY DEF Environments
  <2>2. \/ \E l \in Lims : env' = [env EXCEPT !.lim = l]
        \/ \E f \in Dispatches : env' = [env EXCEPT !.fixed = f]
        \/ env' = [env EXCEPT !.cease = ~@]
    <3>1. CASE \E l \in ExpLimits : Becomes([env EXCEPT !.lim.exp = l])
      BY <2>1, <3>1 DEF Becomes
    <3>2. CASE \E l \in ImpLimits : Becomes([env EXCEPT !.lim.imp = l])
      BY <2>1, <3>2 DEF Becomes
    <3>3. CASE \E l \in MaxLimits : Becomes([env EXCEPT !.lim.max = l])
      BY <2>1, <3>3 DEF Becomes
    <3>4. CASE \E l \in GenLimits : Becomes([env EXCEPT !.lim.gen = l])
      BY <2>1, <3>4 DEF Becomes
    <3>5. CASE \E l \in LoadLimits : Becomes([env EXCEPT !.lim.load = l])
      BY <2>1, <3>5 DEF Becomes
    <3>6. CASE \/ \E f \in Dispatches : Becomes([env EXCEPT !.fixed = f])
               \/ Becomes([env EXCEPT !.cease = ~@])
      BY <3>6 DEF Becomes
    <3> QED BY <1>3, <3>1, <3>2, <3>3, <3>4, <3>5, <3>6 DEF Control
  <2> HIDE DEF Lims
  <2>3. \A f \in Dispatches : [env EXCEPT !.fixed = f] \in Environments
    BY DEF Environments
  <2>4. [env EXCEPT !.cease = ~@] \in Environments
    BY DEF Environments
  <2> QED BY <2>1, <2>2, <2>3, <2>4
<1>4. CASE Economy
  BY <1>4 DEF Economy, Becomes, Environments
<1> QED
  BY <1>1, <1>2, <1>3, <1>4

\* What a tick of the optimizer's plan leaves.
LEMMA OptimizerHoldsCaps ==
    ASSUME CapsAreWired, CapsInv, OptimizerTick
    PROVE  CapsInv'
<1> DEFINE i == Observed
           legacy == Optimize(i, g)
           asked == CandidateOptimize(i, cand)
           composed == Compose(legacy.plan, asked.plan, asked.authors, active)
<1>1. /\ mode = "optimizer" /\ g' = legacy.g /\ gate' = gate /\ standing' = Merged(plan')
      /\ seen' = i /\ lastNet' = Net /\ UNCHANGED <<env, soc, mode, active>>
      /\ \/ plan' = legacy.plan /\ cand' = cand
         \/ /\ cand' = asked.k
            /\ plan' = IF active = {} THEN legacy.plan ELSE composed
  BY DEF OptimizerTick, Actuated
<1>2. Input(i) /\ Net \in Int
  BY SiteNumbers DEF CapsInv
<1>3. /\ Levers(legacy.g) /\ Planned(legacy.plan)
      /\ ~i.cease =>
            /\ ExpHeld(i, legacy.plan.solar) /\ MaxHeld(i, legacy.plan.solar)
            /\ GenHeld(i, legacy.plan.solar)
            /\ legacy.plan.solar = FullOutput => ~SolarCapActive(i)
  BY <1>2, CascadeHolds DEF CapsInv
<1>4. /\ Levers(asked.k) /\ Planned(asked.plan)
      /\ active # {} => /\ ExpHeld(i, asked.plan.solar) /\ MaxHeld(i, asked.plan.solar)
                        /\ GenHeld(i, asked.plan.solar)
  <2>1. /\ Levers(asked.k) /\ Planned(asked.plan)
        /\ "export" \in Wired => ExpHeld(i, asked.plan.solar)
        /\ "gen" \in Wired => MaxHeld(i, asked.plan.solar)
        /\ "gen-aus" \in Wired => GenHeld(i, asked.plan.solar)
    BY <1>2, CandidateHolds DEF CapsInv
  <2> HIDE DEF asked
  <2> QED BY <2>1 DEF CapsAreWired, CapsInv
<1> HIDE DEF i, legacy, asked
<1>5. Planned(composed) /\ composed.solar \in {legacy.plan.solar, asked.plan.solar}
  BY <1>3, <1>4, ComposedHolds
<1> HIDE DEF composed
<1>6. /\ Planned(plan')
      /\ ~i.cease => /\ ExpHeld(i, plan'.solar) /\ MaxHeld(i, plan'.solar)
                     /\ GenHeld(i, plan'.solar)
      /\ active = {} => plan' = legacy.plan
  <2>1. CASE plan' = legacy.plan
    BY <1>3, <2>1
  <2>2. CASE plan' = composed /\ active # {}
    BY <1>3, <1>4, <1>5, <2>2
  <2> QED BY <1>1, <2>1, <2>2
<1>7. Levers(g') /\ Levers(cand') /\ Levers(gate')
  BY <1>1, <1>3, <1>4 DEF CapsInv
<1>8. Standing(standing')
  BY <1>1, <1>6, MergedStands DEF CapsInv
<1>9. EveryAuthorHoldsCaps'
  <2>1. seen' # NaN /\ ~seen'.cease /\ active' = {} =>
          /\ plan'.solar = FullOutput => ~SolarCapActive(seen')
          /\ MaxHeld(seen', plan'.solar) /\ GenHeld(seen', plan'.solar)
    BY <1>1, <1>3, <1>6
  <2>2. ~seen'.cease => /\ ExpHeld(seen', plan'.solar) /\ MaxHeld(seen', plan'.solar)
                        /\ GenHeld(seen', plan'.solar)
    BY <1>1, <1>6
  <2>3. active' = {} => CapsAreHeld'
    BY <2>1 DEF CapsAreHeld, MaxHeld, GenHeld
  <2> QED BY <2>2, <2>3 DEF EveryAuthorHoldsCaps, ExpHeld, MaxHeld, GenHeld
<1> QED
  BY <1>1, <1>2, <1>6, <1>7, <1>8, <1>9 DEF CapsInv

LEMMA GatewayHoldsCaps ==
    ASSUME CapsInv, GatewayTick
    PROVE  CapsInv'
<1> DEFINE i == Observed
           o == GatewayOptimize(i, gate)
           merged == Merged(o.plan)
           off == IF i.cease THEN TRUE ELSE IF ExplicitConnect THEN FALSE ELSE standing.off
<1>1. /\ mode = "gateway" /\ g' = g /\ cand' = cand /\ gate' = o.k /\ plan' = o.plan
      /\ standing' = [merged EXCEPT !.off = off]
      /\ seen' = i /\ lastNet' = Net /\ UNCHANGED <<env, soc, mode, active>>
  BY DEF GatewayTick, Actuated
<1>2. Input(i) /\ Net \in Int
  BY SiteNumbers DEF CapsInv
<1>3. /\ Levers(o.k) /\ Planned(o.plan)
      /\ ExpHeld(i, o.plan.solar) /\ MaxHeld(i, o.plan.solar)
  BY <1>2, GatewayHolds DEF CapsInv
<1>4. Standing(merged)
  BY <1>3, MergedStands DEF CapsInv
<1> HIDE DEF i, o, merged, off
<1>5. Standing(standing')
  BY <1>1, <1>4 DEF Standing
<1>6. EveryAuthorHoldsCaps'
  <2>1. ExpHeld(seen', plan'.solar) /\ MaxHeld(seen', plan'.solar) /\ mode' = "gateway"
    BY <1>1, <1>3
  <2> QED BY <2>1 DEF EveryAuthorHoldsCaps, ExpHeld, MaxHeld
<1> QED
  BY <1>1, <1>2, <1>3, <1>5, <1>6 DEF CapsInv

LEMMA CapsStep == CapsAreWired /\ CapsInv /\ [NextAuthors]_avars => CapsInv'
<1> SUFFICES ASSUME CapsAreWired, CapsInv, [NextAuthors]_avars PROVE CapsInv'
  OBVIOUS
<1>1. CASE OptimizerTick
  BY <1>1, OptimizerHoldsCaps
<1>2. CASE GatewayTick
  BY <1>2, GatewayHoldsCaps
<1>3. CASE Flip
  <2>1. seen' = NaN /\ UNCHANGED <<g, cand, gate, standing, plan, env, soc, lastNet, active>>
    BY <1>3 DEF Flip
  <2>2. EveryAuthorHoldsCaps'
    BY <2>1 DEF EveryAuthorHoldsCaps, CapsAreHeld
  <2> QED
    BY <2>1, <2>2 DEF CapsInv
<1>4. ASSUME UNCHANGED <<seen, plan, mode, active>>
      PROVE  EveryAuthorHoldsCaps'
  BY <1>4 DEF CapsInv, EveryAuthorHoldsCaps, CapsAreHeld
<1>5. CASE FastTick /\ UNCHANGED authors
  <2>1. /\ standing' = [standing EXCEPT !.batt = 0, !.closed = FALSE]
        /\ UNCHANGED <<g, cand, gate, plan, env, soc, lastNet, seen, mode, active>>
    BY <1>5 DEF FastTick, authors
  <2>2. Standing(standing')
    BY <2>1 DEF CapsInv, Standing
  <2> QED
    BY <1>4, <2>1, <2>2 DEF CapsInv
<1>6. CASE Drift /\ UNCHANGED authors
  <2>1. /\ soc' \in Charge
        /\ UNCHANGED <<g, cand, gate, standing, plan, env, lastNet, seen, mode, active>>
    BY <1>6 DEF Drift, authors
  <2> QED
    BY <1>4, <2>1 DEF CapsInv
<1>7. CASE (Weather \/ Breakdown \/ Control \/ Economy) /\ UNCHANGED authors
  <2>1. UNCHANGED <<g, cand, gate, standing, plan, soc, lastNet, seen, mode, active>>
    BY <1>7 DEF Weather, Breakdown, Control, Economy, Becomes, authors
  <2>2. env' \in Environments
    BY <1>7, EnvironmentStays DEF CapsInv
  <2> QED
    BY <1>4, <2>1, <2>2 DEF CapsInv
<1>8. CASE UNCHANGED avars
  <2>1. UNCHANGED <<g, cand, gate, standing, plan, env, soc, lastNet, seen, mode, active>>
    BY <1>8 DEF avars, vars, authors
  <2> QED
    BY <1>4, <2>1 DEF CapsInv
<1> QED
  BY <1>1, <1>2, <1>3, <1>5, <1>6, <1>7, <1>8 DEF NextAuthors, Between

\* Whoever plans, an inverter in sight is never asked for more than the caps in
\* force allow it, and none is released to full output while the cascade alone
\* plans and a cap is in force (enforceExportLimit, enforceGenLimit,
\* enforceAusGenLimit and restore in optimizer.go, their constraints, and
\* composeShadowPlan), provided that a stack some axis is taken from was wired
\* with the three constraints on generation.
THEOREM EveryCapIsHeld == CapsAreWired => (SpecAuthors => []EveryAuthorHoldsCaps)
<1> SUFFICES ASSUME CapsAreWired PROVE SpecAuthors => []EveryAuthorHoldsCaps
  OBVIOUS
<1>1. InitAuthors => CapsInv
  BY CapsStart
<1>2. CapsInv /\ [NextAuthors]_avars => CapsInv'
  BY CapsStep
<1>3. CapsInv => EveryAuthorHoldsCaps
  BY DEF CapsInv
<1> QED
  BY <1>1, <1>2, <1>3, PTL DEF SpecAuthors
-----------------------------------------------------------------------------
(* A miss that lasts is reported: each author counts every kind of miss in *)
(* a book of its own, which is never behind what an observer of that       *)
(* author's ticks has counted.                                             *)

Kinds == {"exp", "imp", "max", "gen", "load"}
Complaints == {"export", "generation", "import", "generation-aus", "load-aus"}
Complaint(b) == b = NoBreach \/ b \in [kind : Complaints, short : Nat \ {0}]

\* The count that an author keeps of each miss, and the limit it is kept of.
Book(k) ==
    [exp  |-> [limit |-> NaN, over |-> k.expOver],
     imp  |-> [limit |-> k.imp.limit, over |-> k.imp.breach],
     max  |-> [limit |-> k.gen.limit, over |-> k.gen.over],
     gen  |-> [limit |-> k.ausGen.limit, over |-> k.ausGen.over],
     load |-> [limit |-> k.ausLoad.limit, over |-> k.ausLoad.breach]]

Cap(c) == DOMAIN c = {"limit", "over"} /\ c.over \in 0..Ticks
Tallies(k) ==
    /\ Cap(k.gen) /\ Cap(k.ausGen)
    /\ DOMAIN k.imp = {"limit", "discharge", "safe", "evSafe", "breach"}
    /\ DOMAIN k.ausLoad = {"limit", "ev", "safe", "breach"}
    /\ {k.expOver, k.zeroLever, k.imp.breach, k.ausLoad.breach} \subseteq 0..Ticks

\* A pass of the rules; a rule that keeps what was reported, and all books but
\* those of some kinds of miss.
Booked(s) == Fields(s) /\ Tallies(s.g) /\ Complaint(s.plan.breach)
Moves(ns, s, t) ==
    /\ Booked(t)
    /\ s.plan.breach # NoBreach => t.plan.breach # NoBreach
    /\ \A n \in Kinds \ ns : Book(t.g)[n] = Book(s.g)[n]

\* What an author makes of a kind of miss when it goes from one book to the next
\* with a report b.
Carried(n, i, before) == IF n = "exp" \/ before.limit = i.lim[n] THEN before.over ELSE 0
Answers(n, i, before, after, b) ==
    /\ after.over \in 0..Ticks
    /\ n # "exp" => after.limit = i.lim[n]
    /\ i.lim[n] # NaN /\ i.net = NaN /\ n \in {"exp", "imp", "load"}
          => after.over >= Carried(n, i, before)
    /\ Miss(i)[n] => /\ after.over >= Least(Ticks, 1 + Carried(n, i, before))
                     /\ after.over >= Ticks => b # NoBreach

LEMMA Leaks ==
    ASSUME NEW n \in 0..Ticks, NEW over \in BOOLEAN
    PROVE  /\ Leaky(n, over) \in 0..Ticks
           /\ over => Leaky(n, over) = Least(Ticks, 1 + n)
           /\ Leaky(n, over) >= Ticks => over
BY CascadeAssumption DEF Leaky, Least, Pos, Most

LEMMA RecordGrows ==
    ASSUME NEW s, Booked(s), NEW kind \in Complaints, NEW short \in Nat \ {0}
    PROVE  LET t == RecordBreach(s, kind, short)
           IN  Moves({}, s, t) /\ t.g = s.g /\ t.plan.breach # NoBreach
<1> DEFINE t == RecordBreach(s, kind, short)
           b == [kind |-> kind, short |-> short]
<1>1. b # NoBreach /\ Complaint(b)
  BY DEF Complaint, NoBreach
<1> HIDE DEF b
<1>2. (t = s /\ s.plan.breach # NoBreach) \/ t = [s EXCEPT !.plan.breach = b]
  BY DEF RecordBreach, b
<1>3. Fields(t)
  BY BreachLeaves DEF Leaves, Booked
<1> HIDE DEF t
<1>4. t.g = s.g /\ t.plan.breach # NoBreach /\ Complaint(t.plan.breach)
  BY <1>1, <1>2 DEF Booked, Fields
<1> QED
  BY <1>3, <1>4 DEF Moves, Booked, t

LEMMA ReportGrows ==
    ASSUME NEW s, Booked(s), NEW kind \in Complaints, NEW due \in BOOLEAN, NEW short,
           due => short \in Nat \ {0}
    PROVE  LET t == ReportOnce(s, due, kind, short)
           IN  Moves({}, s, t) /\ t.g = s.g /\ (due => t.plan.breach # NoBreach)
<1> DEFINE t == ReportOnce(s, due, kind, short)
<1>1. CASE due /\ s.plan.breach = NoBreach
  <2>1. t = RecordBreach(s, kind, short) /\ short \in Nat \ {0}
    BY <1>1 DEF ReportOnce
  <2> HIDE DEF t
  <2>2. Moves({}, s, t) /\ t.g = s.g /\ t.plan.breach # NoBreach
    BY <2>1, RecordGrows
  <2> QED BY <2>2 DEF t
<1>2. CASE ~(due /\ s.plan.breach = NoBreach)
  <2>1. t = s
    BY <1>2 DEF ReportOnce
  <2> QED BY <1>2, <2>1 DEF Moves
<1> QED BY <1>1, <1>2

\* What is counted before it is reported.
LEMMA CountMoves ==
    ASSUME NEW s, Booked(s), NEW n \in 0..Ticks
    PROVE  /\ LET t == [s EXCEPT !.g.expOver = n]
              IN  /\ Moves({"exp"}, s, t) /\ t.plan = s.plan
                  /\ Book(t.g)["exp"] = [limit |-> NaN, over |-> n]
           /\ LET t == [s EXCEPT !.g.imp.breach = n]
              IN  /\ Moves({"imp"}, s, t) /\ t.plan = s.plan
                  /\ Book(t.g)["imp"] = [limit |-> s.g.imp.limit, over |-> n]
           /\ LET t == [s EXCEPT !.g.ausLoad.breach = n]
              IN  /\ Moves({"load"}, s, t) /\ t.plan = s.plan
                  /\ Book(t.g)["load"] = [limit |-> s.g.ausLoad.limit, over |-> n]
<1>1. ASSUME NEW t, t = [s EXCEPT !.g.expOver = n]
      PROVE  /\ Moves({"exp"}, s, t) /\ t.plan = s.plan
             /\ Book(t.g)["exp"] = [limit |-> NaN, over |-> n]
  BY <1>1 DEF Booked, Fields, GuardFields, Tallies, Moves, Book, Kinds
<1>2. ASSUME NEW t, t = [s EXCEPT !.g.imp.breach = n]
      PROVE  /\ Moves({"imp"}, s, t) /\ t.plan = s.plan
             /\ Book(t.g)["imp"] = [limit |-> s.g.imp.limit, over |-> n]
  BY <1>2 DEF Booked, Fields, GuardFields, Tallies, Moves, Book, Kinds
<1>3. ASSUME NEW t, t = [s EXCEPT !.g.ausLoad.breach = n]
      PROVE  /\ Moves({"load"}, s, t) /\ t.plan = s.plan
             /\ Book(t.g)["load"] = [limit |-> s.g.ausLoad.limit, over |-> n]
  BY <1>3 DEF Booked, Fields, GuardFields, Tallies, Moves, Book, Kinds
<1> QED BY <1>1, <1>2, <1>3

\* A cap's session as it is in the book.
Reads(n, k, limit, over) == Book(k)[n].limit = limit /\ Book(k)[n].over = over

LEMMA CapMoves ==
    ASSUME NEW s, Booked(s), NEW c, Cap(c), NEW t
    PROVE  /\ t = [s EXCEPT !.g.gen = c] =>
              /\ Moves({"max"}, s, t) /\ t.plan = s.plan
              /\ Reads("max", t.g, c.limit, c.over)
           /\ t = [s EXCEPT !.g.ausGen = c] =>
              /\ Moves({"gen"}, s, t) /\ t.plan = s.plan
              /\ Reads("gen", t.g, c.limit, c.over)
<1>1. CASE t = [s EXCEPT !.g.gen = c]
  BY <1>1 DEF Reads, Cap, Booked, Fields, GuardFields, Tallies, Moves, Book, Kinds
<1>2. CASE t = [s EXCEPT !.g.ausGen = c]
  BY <1>2 DEF Reads, Cap, Booked, Fields, GuardFields, Tallies, Moves, Book, Kinds
<1> QED BY <1>1, <1>2

LEMMA MovesOn ==
    ASSUME NEW s, NEW t, NEW u, NEW ns, NEW ms, Moves(ns, s, t), Moves(ms, t, u)
    PROVE  Moves(ns \cup ms, s, u)
BY DEF Moves

LEMMA Misses ==
    ASSUME NEW i
    PROVE  /\ Miss(i)["exp"] => i.lim.exp # NaN /\ i.net # NaN /\ -i.net > i.lim.exp
           /\ Miss(i)["imp"] => i.lim.imp # NaN /\ i.net # NaN /\ i.net > i.lim.imp
           /\ Miss(i)["max"] => i.lim.max # NaN /\ i.solar.power > i.lim.max
           /\ Miss(i)["gen"] => /\ i.lim.gen # NaN
                                /\ i.solar.power + Pos(i.batt.power) > i.lim.gen
           /\ Miss(i)["load"] => i.lim.load # NaN /\ i.net # NaN /\ GrossLoad(i) > i.lim.load
BY DEF Miss

\* A miss that is counted, and reported when it has lasted.
LEMMA CountAnswers ==
    ASSUME NEW i, NEW n \in Kinds, NEW s, Booked(s), NEW over \in BOOLEAN,
           NEW before \in 0..Ticks, before = Carried(n, i, Book(s.g)[n]),
           NEW c, Moves({n}, s, c), Book(c.g)[n].over = Leaky(before, over),
           n # "exp" => Book(c.g)[n].limit = i.lim[n],
           NEW t, Moves({}, c, t), t.g = c.g,
           Leaky(before, over) >= Ticks => t.plan.breach # NoBreach,
           Miss(i)[n] => over, i.net # NaN \/ n \in {"max", "gen"}
    PROVE  /\ Moves({n}, s, t)
           /\ Answers(n, i, Book(s.g)[n], Book(t.g)[n], t.plan.breach)
<1> DEFINE m == Leaky(before, over)
<1>1. m \in 0..Ticks /\ (over => m = Least(Ticks, 1 + before)) /\ Ticks \in Nat \ {0}
  BY Leaks, CascadeAssumption
<1>2. {n} \cup {} = {n}
  OBVIOUS
<1>3. Moves({n}, s, t)
  BY <1>2, MovesOn
<1> HIDE DEF m
<1>4. Book(t.g)[n].over = m /\ (m >= Ticks => t.plan.breach # NoBreach)
      /\ (n # "exp" => Book(t.g)[n].limit = i.lim[n])
  BY DEF m
<1>5. Answers(n, i, Book(s.g)[n], Book(t.g)[n], t.plan.breach)
  BY <1>1, <1>4 DEF Answers, Least
<1> QED BY <1>3, <1>5

LEMMA CheckExportAnswers ==
    ASSUME NEW i, Input(i), NEW s, Booked(s)
    PROVE  LET t == CheckExport(i, s)
           IN  /\ Moves({"exp"}, s, t)
               /\ Answers("exp", i, Book(s.g)["exp"], Book(t.g)["exp"], t.plan.breach)
<1>0. /\ Ticks \in Nat \ {0} /\ s.g.expOver \in 0..Ticks
      /\ Book(s.g)["exp"] = [limit |-> NaN, over |-> s.g.expOver]
  BY CascadeAssumption DEF Booked, Tallies, Book, Cap, Reads
<1> DEFINE t == CheckExport(i, s)
<1>1. CASE i.lim.exp = NaN
  <2>1. t = [s EXCEPT !.g.expOver = 0] /\ 0 \in 0..Ticks
    BY <1>0, <1>1 DEF CheckExport
  <2> HIDE DEF t
  <2>2. Moves({"exp"}, s, t) /\ Book(t.g)["exp"] = [limit |-> NaN, over |-> 0]
    BY <2>1, CountMoves
  <2> QED BY <1>0, <1>1, <2>2, Misses DEF Answers, Reads, t
<1>2. CASE i.lim.exp # NaN /\ i.net = NaN
  <2>1. t = s
    BY <1>2 DEF CheckExport
  <2> HIDE DEF t
  <2> QED BY <1>0, <1>2, <2>1, Misses DEF Moves, Answers, Carried, t
<1>3. CASE i.lim.exp # NaN /\ i.net # NaN
  <2> DEFINE over == Pos(-i.net) > i.lim.exp
             n == Leaky(s.g.expOver, over)
             c == [s EXCEPT !.g.expOver = n]
             due == n >= Ticks
             short == Pos(-i.net) - i.lim.exp
  <2>1. i.net \in Int /\ i.lim.exp \in Nat
    BY <1>3 DEF Input, Watts, Limits
  <2>2. Pos(-i.net) \in Nat /\ Pos(-i.net) >= -i.net
    BY <2>1 DEF Pos, Most
  <2>3. over \in BOOLEAN /\ due \in BOOLEAN /\ (due <=> n >= Ticks)
    OBVIOUS
  <2>4. t = ReportOnce(c, due, "export", short)
    BY <1>3 DEF CheckExport
  <2>5. (Miss(i)["exp"] => over) /\ (over => short \in Nat \ {0})
    BY <2>1, <2>2, Misses
  <2> HIDE DEF over, short, t
  <2>6. n \in 0..Ticks /\ (n >= Ticks => over)
    BY <1>0, <2>3, Leaks
  <2> HIDE DEF due
  <2>7. Moves({"exp"}, s, c) /\ Book(c.g)["exp"] = [limit |-> NaN, over |-> n]
    BY <2>6, CountMoves
  <2> HIDE DEF c
  <2>8. Booked(c) /\ "export" \in Complaints /\ (due => short \in Nat \ {0})
    BY <2>3, <2>5, <2>6, <2>7 DEF Moves, Complaints
  <2>9. Moves({}, c, t) /\ t.g = c.g /\ (due => t.plan.breach # NoBreach)
    BY <2>3, <2>4, <2>8, ReportGrows
  <2>10. /\ "exp" \in Kinds /\ Carried("exp", i, Book(s.g)["exp"]) = s.g.expOver
         /\ Book(c.g)["exp"].over = n /\ (n >= Ticks => t.plan.breach # NoBreach)
    BY <1>0, <2>3, <2>7, <2>9 DEF Kinds, Carried
  <2> QED
    BY <1>0, <1>3, <2>3, <2>5, <2>7, <2>9, <2>10, CountAnswers DEF t
<1> QED BY <1>1, <1>2, <1>3

LEMMA CheckGenAnswers ==
    ASSUME NEW i, Input(i), NEW s, Booked(s)
    PROVE  LET t == CheckGen(i, s)
           IN  /\ Moves({"max"}, s, t)
               /\ Answers("max", i, Book(s.g)["max"], Book(t.g)["max"], t.plan.breach)
<1>0. /\ Ticks \in Nat \ {0} /\ s.g.gen.over \in 0..Ticks /\ Cap(s.g.gen)
      /\ Reads("max", s.g, s.g.gen.limit, s.g.gen.over)
  BY CascadeAssumption DEF Booked, Tallies, Book, Cap, Reads
<1> DEFINE t == CheckGen(i, s)
<1>1. CASE i.lim.max = NaN
  <2>1. /\ t = [s EXCEPT !.g.gen = NoCap] /\ 0 \in 0..Ticks
        /\ Cap(NoCap) /\ NoCap.limit = NaN /\ NoCap.over = 0
    BY <1>0, <1>1 DEF CheckGen, NoCap, Cap
  <2> HIDE DEF t
  <2>2. Moves({"max"}, s, t) /\ Reads("max", t.g, NaN, 0)
    BY <2>1, CapMoves
  <2> QED BY <1>0, <1>1, <2>2, Misses DEF Answers, Reads, t
<1>2. CASE i.lim.max # NaN
  <2> DEFINE floor == IF i.net = NaN THEN 0 ELSE Pos(-i.net) - Pos(i.batt.power)
             measured == Most(i.solar.power, floor)
             over == measured > i.lim.max
             cap == SameSession(s.g.gen, i.lim.max)
             n == Leaky(cap.over, over)
             counted == [cap EXCEPT !.over = n]
             c == [s EXCEPT !.g.gen = counted]
             short == measured - i.lim.max
  <2>1. i.solar.power \in Nat /\ i.lim.max \in Nat /\ floor \in Int
    BY <1>2, Numbers DEF Input, Watts, Limits
  <2> HIDE DEF floor
  <2>2. measured \in Int /\ measured >= i.solar.power
    BY <2>1 DEF Most
  <2> HIDE DEF measured
  <2>3. over \in BOOLEAN
    OBVIOUS
  <2>4. (Miss(i)["max"] => over) /\ (over => short \in Nat \ {0})
    BY <2>1, <2>2, Misses
  <2>5. cap.limit = i.lim.max /\ Cap(cap) /\ cap.over \in 0..Ticks
        /\ cap.over = Carried("max", i, Book(s.g)["max"])
    BY <1>0 DEF SameSession, NoCap, Carried, Cap, Reads
  <2>6. t = IF n >= Ticks THEN RecordBreach(c, "generation", short) ELSE c
    BY <1>2 DEF CheckGen, floor, measured
  <2> HIDE DEF over, short, t, cap
  <2>7. n \in 0..Ticks /\ (n >= Ticks => over)
    BY <2>3, <2>5, Leaks
  <2> HIDE DEF counted
  <2>9. /\ Moves({"max"}, s, c) /\ Reads("max", c.g, i.lim.max, n)
    <3>1. Cap(counted) /\ counted.limit = i.lim.max /\ counted.over = n
      BY <2>5, <2>7 DEF counted, Cap
    <3>2. c = [s EXCEPT !.g.gen = counted]
      OBVIOUS
    <3> HIDE DEF c
    <3> QED BY <3>1, <3>2, CapMoves
  <2> HIDE DEF c
  <2>10. /\ Booked(c) /\ Moves({}, c, c) /\ "generation" \in Complaints /\ "max" \in Kinds
         /\ (n >= Ticks => short \in Nat \ {0})
    BY <2>4, <2>7, <2>9 DEF Moves, Complaints, Kinds
  <2>11. Moves({}, c, t) /\ t.g = c.g /\ (n >= Ticks => t.plan.breach # NoBreach)
    <3>1. CASE n >= Ticks
      BY <2>6, <2>10, <3>1, RecordGrows
    <3>2. CASE ~(n >= Ticks)
      BY <2>6, <2>10, <3>2
    <3> QED BY <3>1, <3>2
  <2>12. Book(c.g)["max"].over = n /\ Book(c.g)["max"].limit = i.lim["max"]
    BY <2>9 DEF Reads
  <2> QED
    BY <2>3, <2>4, <2>5, <2>9, <2>10, <2>11, <2>12, CountAnswers DEF t
<1> QED BY <1>1, <1>2

LEMMA CheckAusGenAnswers ==
    ASSUME NEW i, Input(i), NEW s, Booked(s)
    PROVE  LET t == CheckAusGen(i, s)
           IN  /\ Moves({"gen"}, s, t)
               /\ Answers("gen", i, Book(s.g)["gen"], Book(t.g)["gen"], t.plan.breach)
<1>0. /\ Ticks \in Nat \ {0} /\ s.g.ausGen.over \in 0..Ticks /\ Cap(s.g.ausGen)
      /\ Reads("gen", s.g, s.g.ausGen.limit, s.g.ausGen.over)
  BY CascadeAssumption DEF Booked, Tallies, Book, Cap, Reads
<1> DEFINE t == CheckAusGen(i, s)
<1>1. CASE i.lim.gen = NaN
  <2>1. /\ t = [s EXCEPT !.g.ausGen = NoCap] /\ 0 \in 0..Ticks
        /\ Cap(NoCap) /\ NoCap.limit = NaN /\ NoCap.over = 0
    BY <1>0, <1>1 DEF CheckAusGen, NoCap, Cap
  <2> HIDE DEF t
  <2>2. Moves({"gen"}, s, t) /\ Reads("gen", t.g, NaN, 0)
    BY <2>1, CapMoves
  <2> QED BY <1>0, <1>1, <2>2, Misses DEF Answers, Reads, t
<1>2. CASE i.lim.gen # NaN
  <2> DEFINE reported == i.solar.power + Pos(i.batt.power)
             gross == IF i.net = NaN THEN reported ELSE Most(reported, -i.net)
             over == gross > i.lim.gen
             cap == SameSession(s.g.ausGen, i.lim.gen)
             n == Leaky(cap.over, over)
             counted == [cap EXCEPT !.over = n]
             c == [s EXCEPT !.g.ausGen = counted]
             short == gross - i.lim.gen
  <2>1. i.lim.gen \in Nat /\ reported \in Int /\ (i.net # NaN => -i.net \in Int)
    BY <1>2, Numbers DEF Input, Watts, Limits
  <2>2. gross \in Int /\ gross >= reported
    BY <2>1 DEF Most
  <2>0. Miss(i)["gen"] => reported > i.lim.gen
    BY Misses
  <2> HIDE DEF gross, reported
  <2>3. over \in BOOLEAN
    OBVIOUS
  <2>4. (Miss(i)["gen"] => over) /\ (over => short \in Nat \ {0})
    BY <2>0, <2>1, <2>2, Misses
  <2>5. cap.limit = i.lim.gen /\ Cap(cap) /\ cap.over \in 0..Ticks
        /\ cap.over = Carried("gen", i, Book(s.g)["gen"])
    BY <1>0 DEF SameSession, NoCap, Carried, Cap, Reads
  <2>6. t = IF n >= Ticks THEN RecordBreach(c, "generation-aus", short) ELSE c
    BY <1>2 DEF CheckAusGen, gross, reported
  <2> HIDE DEF over, short, t, cap
  <2>7. n \in 0..Ticks /\ (n >= Ticks => over)
    BY <2>3, <2>5, Leaks
  <2> HIDE DEF counted
  <2>9. /\ Moves({"gen"}, s, c) /\ Reads("gen", c.g, i.lim.gen, n)
    <3>1. Cap(counted) /\ counted.limit = i.lim.gen /\ counted.over = n
      BY <2>5, <2>7 DEF counted, Cap
    <3>2. c = [s EXCEPT !.g.ausGen = counted]
      OBVIOUS
    <3> HIDE DEF c
    <3> QED BY <3>1, <3>2, CapMoves
  <2> HIDE DEF c
  <2>10. /\ Booked(c) /\ Moves({}, c, c) /\ "generation-aus" \in Complaints /\ "gen" \in Kinds
         /\ (n >= Ticks => short \in Nat \ {0})
    BY <2>4, <2>7, <2>9 DEF Moves, Complaints, Kinds
  <2>11. Moves({}, c, t) /\ t.g = c.g /\ (n >= Ticks => t.plan.breach # NoBreach)
    <3>1. CASE n >= Ticks
      BY <2>6, <2>10, <3>1, RecordGrows
    <3>2. CASE ~(n >= Ticks)
      BY <2>6, <2>10, <3>2
    <3> QED BY <3>1, <3>2
  <2>12. Book(c.g)["gen"].over = n /\ Book(c.g)["gen"].limit = i.lim["gen"]
    BY <2>9 DEF Reads
  <2> QED
    BY <2>3, <2>4, <2>5, <2>9, <2>10, <2>11, <2>12, CountAnswers DEF t
<1> QED BY <1>1, <1>2

-----------------------------------------------------------------------------
\* Rules that only plan.
LEMMA PlanMoves ==
    ASSUME NEW s, Booked(s), NEW t, Fields(t), t.g = s.g, t.plan.breach = s.plan.breach
    PROVE  Moves({}, s, t)
BY DEF Booked, Moves

LEMMA PlanningMoves ==
    ASSUME NEW i, NEW s, Booked(s)
    PROVE  /\ Moves({}, s, FixedDispatch(i, s)) /\ Moves({}, s, FollowPlan(i, s))
           /\ Moves({}, s, GenLimit(i, s)) /\ Moves({}, s, AusGenLimit(i, s))
           /\ Moves({}, s, SelfConsumption(i, s)) /\ Moves({}, s, PeakDischarge(i, s))
           /\ Moves({}, s, EvCharging(i, s)) /\ Moves({}, s, Restore(i, s))
<1>0. Fields(s)
  BY DEF Booked
<1>1. ASSUME NEW w
      PROVE  Fields(Commanded(s, w)) /\ Commanded(s, w).g = s.g
             /\ Commanded(s, w).plan.breach = s.plan.breach
  BY <1>0 DEF Fields, Commanded
<1>2. Moves({}, s, FixedDispatch(i, s))
  BY <1>0, <1>1, PlanMoves, DispatchLeaves DEF FixedDispatch, Leaves
<1>3. Moves({}, s, FollowPlan(i, s))
  <2>1. FollowPlan(i, s).g = s.g /\ FollowPlan(i, s).plan.breach = s.plan.breach
    BY <1>0, <1>1 DEF FollowPlan, Fields
  <2> QED BY <1>0, <2>1, PlanMoves, DispatchLeaves DEF Leaves
<1>4. Moves({}, s, GenLimit(i, s))
  <2>1. GenLimit(i, s).g = s.g /\ GenLimit(i, s).plan.breach = s.plan.breach
    BY <1>0 DEF GenLimit, Fields
  <2> QED BY <1>0, <2>1, PlanMoves, GenLimitLeaves DEF Leaves
<1>5. Moves({}, s, AusGenLimit(i, s))
  <2>1. AusGenLimit(i, s).g = s.g /\ AusGenLimit(i, s).plan.breach = s.plan.breach
    BY <1>0, <1>1 DEF AusGenLimit, Fields
  <2> QED BY <1>0, <2>1, PlanMoves, AusGenLimitLeaves DEF Leaves
<1>6. Moves({}, s, SelfConsumption(i, s))
  <2>1. SelfConsumption(i, s).g = s.g /\ SelfConsumption(i, s).plan.breach = s.plan.breach
    BY <1>0, <1>1 DEF SelfConsumption, Fields
  <2> QED BY <1>0, <2>1, PlanMoves, EconomiseLeaves DEF Leaves
<1>7. Moves({}, s, PeakDischarge(i, s))
  <2>1. PeakDischarge(i, s).g = s.g /\ PeakDischarge(i, s).plan.breach = s.plan.breach
    BY <1>0, <1>1 DEF PeakDischarge, Fields
  <2> QED BY <1>0, <2>1, PlanMoves, EconomiseLeaves DEF Leaves
<1>8. Moves({}, s, EvCharging(i, s))
  <2>1. EvCharging(i, s).g = s.g /\ EvCharging(i, s).plan.breach = s.plan.breach
    BY <1>0 DEF EvCharging, Fields
  <2> QED BY <1>0, <2>1, PlanMoves, EconomiseLeaves DEF Leaves
<1>9. Moves({}, s, Restore(i, s))
  <2>1. /\ Fields(Restore(i, s)) /\ Restore(i, s).g = s.g
        /\ Restore(i, s).plan.breach = s.plan.breach
    BY <1>0 DEF Restore, Fields
  <2> QED BY <2>1, PlanMoves
<1> QED
  BY <1>2, <1>3, <1>4, <1>5, <1>6, <1>7, <1>8, <1>9

\* The export rule counts a lever that is exhausted and reports it.
LEMMA ExportLimitMoves ==
    ASSUME NEW i, Input(i), NEW s, Booked(s), s.power \in Int
    PROVE  Moves({}, s, ExportLimit(i, s))
<1>0. Fields(s) /\ s.g.zeroLever \in 0..Ticks /\ Ticks \in Nat \ {0}
  BY CascadeAssumption DEF Booked, Tallies
<1>1. ASSUME NEW absorb, NEW ev, NEW capped, NEW c, c = ExportCommands(i, s, absorb, ev, capped)
      PROVE  Fields(c) /\ c.g = s.g /\ c.plan.breach = s.plan.breach
  BY <1>0, <1>1 DEF Fields, ExportCommands
<1>2. ASSUME NEW t, Fields(t), t.plan.breach = s.plan.breach,
             t.g.gen = s.g.gen, t.g.ausGen = s.g.ausGen, t.g.imp = s.g.imp,
             t.g.ausLoad = s.g.ausLoad, t.g.expOver = s.g.expOver, t.g.zeroLever \in 0..Ticks
      PROVE  Moves({}, s, t)
  <2> DEFINE k == t.g
  <2>1. /\ k.gen = s.g.gen /\ k.ausGen = s.g.ausGen /\ k.imp = s.g.imp
        /\ k.ausLoad = s.g.ausLoad /\ k.expOver = s.g.expOver /\ k.zeroLever \in 0..Ticks
    BY <1>2
  <2> HIDE DEF k
  <2>2. Tallies(k) /\ \A n \in Kinds : Book(k)[n] = Book(s.g)[n]
    BY <2>1 DEF Booked, Tallies, Kinds, Book
  <2> QED BY <1>2, <2>2 DEF Booked, Moves, k
<1>3. ASSUME i.lim.exp # NaN, NEW e, NEW absorb, NEW target, NEW ev, NEW ceiling
      PROVE  Moves({}, s, ExportDefence(i, s, e, absorb, target, ev, ceiling))
  <2> DEFINE capped == Least(ceiling, Nameplate)
             c == ExportCommands(i, s, absorb, ev, capped)
             session == ExportSession(i, s, e, absorb, target, ev, capped)
             over == ActualExport(i, s) > i.lim.exp /\ ceiling = 0
             zero == Leaky(s.g.zeroLever, over)
             done == [c EXCEPT !.g.zeroLever = zero, !.g.exp = session]
             short == ActualExport(i, s) - i.lim.exp
             t == ExportDefence(i, s, e, absorb, target, ev, ceiling)
  <2>1. t = IF zero >= Ticks THEN RecordBreach(done, "export", short) ELSE done
    BY DEF ExportDefence
  <2>2. over => short \in Nat \ {0}
    <3>1. i.lim.exp \in Nat /\ i.solar.power \in Nat /\ i.ev.power \in Int
          /\ (i.net # NaN => -i.net \in Int)
      BY <1>3 DEF Input, Watts, Limits
    <3>2. Pos(s.power) \in Nat
      BY Numbers
    <3>3. ActualExport(i, s) \in Nat
      BY <3>1, <3>2, Numbers DEF ActualExport, SignedExport
    <3> QED BY <3>1, <3>3
  <2>3. over \in BOOLEAN
    OBVIOUS
  <2> HIDE DEF t, over, short, session
  <2>4. zero \in 0..Ticks /\ (zero >= Ticks => over)
    BY <1>0, <2>3, Leaks
  <2> HIDE DEF zero
  <2>5. Fields(c) /\ c.g = s.g /\ c.plan.breach = s.plan.breach
    BY <1>1
  <2> HIDE DEF c
  <2>6. Moves({}, s, done)
    <3>1. /\ Fields(done) /\ done.plan = c.plan
          /\ done.g = [s.g EXCEPT !.zeroLever = zero, !.exp = session]
      BY <2>5 DEF Fields
    <3> HIDE DEF done
    <3> DEFINE k == done.g
    <3>2. /\ k.gen = s.g.gen /\ k.ausGen = s.g.ausGen /\ k.imp = s.g.imp
          /\ k.ausLoad = s.g.ausLoad /\ k.expOver = s.g.expOver /\ k.zeroLever = zero
      BY <1>0, <3>1 DEF Fields
    <3> QED BY <1>2, <2>4, <2>5, <3>1, <3>2
  <2> HIDE DEF done
  <2>7. CASE zero >= Ticks
    <3>1. Booked(done) /\ "export" \in Complaints /\ short \in Nat \ {0}
      BY <2>2, <2>4, <2>6, <2>7 DEF Moves, Complaints
    <3>2. Moves({}, done, t)
      BY <2>1, <2>7, <3>1, RecordGrows
    <3>3. {} \cup {} = {}
      OBVIOUS
    <3> QED BY <2>6, <3>2, <3>3, MovesOn DEF t
  <2>8. CASE ~(zero >= Ticks)
    BY <2>1, <2>6, <2>8 DEF t
  <2> QED BY <2>7, <2>8
<1>4. CASE i.lim.exp = NaN
  <2> DEFINE t == ExportLimit(i, s)
  <2>1. t = [s EXCEPT !.g.exp = NoExport, !.g.zeroLever = 0]
    BY <1>4 DEF ExportLimit
  <2> HIDE DEF t
  <2>2. /\ Fields(t) /\ t.plan = s.plan /\ t.g = [s.g EXCEPT !.exp = NoExport, !.zeroLever = 0]
    BY <1>0, <2>1 DEF Fields
  <2>3. /\ t.g.gen = s.g.gen /\ t.g.ausGen = s.g.ausGen /\ t.g.imp = s.g.imp
        /\ t.g.ausLoad = s.g.ausLoad /\ t.g.expOver = s.g.expOver /\ t.g.zeroLever \in 0..Ticks
    BY <1>0, <2>2 DEF Fields
  <2>4. Fields(t) /\ t.plan.breach = s.plan.breach
    BY <2>2
  <2>5. Moves({}, s, t)
    BY <1>2, <2>3, <2>4
  <2> QED BY <2>5 DEF t
<1>5. CASE i.lim.exp # NaN
  BY <1>3, <1>5 DEF ExportLimit
<1> QED BY <1>4, <1>5

-----------------------------------------------------------------------------
\* The rules that keep a count with a lever.

\* The book goes on from what is carried into the tick.
LEMMA Renewed ==
    ASSUME NEW n, NEW i, NEW before, NEW mid, NEW after, NEW b,
           n # "exp", mid.limit = i.lim[n], mid.over = Carried(n, i, before),
           Answers(n, i, mid, after, b)
    PROVE  Answers(n, i, before, after, b)
BY DEF Answers, Carried

\* The sessions of the import rule and of the cap on gross load.
ImpBook(m, limit, over) ==
    /\ DOMAIN m = {"limit", "discharge", "safe", "evSafe", "breach"}
    /\ m.limit = limit /\ m.breach = over
LoadBook(a, limit, over) ==
    /\ DOMAIN a = {"limit", "ev", "safe", "breach"}
    /\ a.limit = limit /\ a.breach = over

LEMMA SessionMoves ==
    ASSUME NEW s, NEW c, Booked(s), Fields(c), c.g = s.g, c.plan.breach = s.plan.breach,
           NEW limit, NEW over \in 0..Ticks, NEW m
    PROVE  /\ ImpBook(m, limit, over) =>
                 LET t == [c EXCEPT !.g.imp = m]
                 IN  /\ Moves({"imp"}, s, t) /\ t.plan = c.plan
                     /\ Reads("imp", t.g, limit, over)
           /\ LoadBook(m, limit, over) =>
                 LET t == [c EXCEPT !.g.ausLoad = m]
                 IN  /\ Moves({"load"}, s, t) /\ t.plan = c.plan
                     /\ Reads("load", t.g, limit, over)
<1>1. ASSUME NEW t, ImpBook(m, limit, over), t = [c EXCEPT !.g.imp = m]
      PROVE  /\ Moves({"imp"}, s, t) /\ t.plan = c.plan /\ Reads("imp", t.g, limit, over)
  <2> DEFINE k == t.g
  <2>1. /\ k.gen = s.g.gen /\ k.ausGen = s.g.ausGen /\ k.imp = m /\ k.zeroLever = s.g.zeroLever
        /\ k.ausLoad = s.g.ausLoad /\ k.expOver = s.g.expOver
    BY <1>1 DEF Fields
  <2>2. Fields(t) /\ t.plan = c.plan
    BY <1>1 DEF Fields
  <2> HIDE DEF k
  <2>3. /\ Tallies(k) /\ Reads("imp", k, limit, over)
        /\ \A n \in Kinds \ {"imp"} : Book(k)[n] = Book(s.g)[n]
    BY <1>1, <2>1 DEF Booked, Tallies, Kinds, Book, Reads, ImpBook
  <2> QED BY <2>2, <2>3 DEF Booked, Moves, k
<1>2. ASSUME NEW t, LoadBook(m, limit, over), t = [c EXCEPT !.g.ausLoad = m]
      PROVE  /\ Moves({"load"}, s, t) /\ t.plan = c.plan /\ Reads("load", t.g, limit, over)
  <2> DEFINE k == t.g
  <2>1. /\ k.gen = s.g.gen /\ k.ausGen = s.g.ausGen /\ k.imp = s.g.imp
        /\ k.zeroLever = s.g.zeroLever
        /\ k.ausLoad = m /\ k.expOver = s.g.expOver
    BY <1>2 DEF Fields
  <2>2. Fields(t) /\ t.plan = c.plan
    BY <1>2 DEF Fields
  <2> HIDE DEF k
  <2>3. /\ Tallies(k) /\ Reads("load", k, limit, over)
        /\ \A n \in Kinds \ {"load"} : Book(k)[n] = Book(s.g)[n]
    BY <1>2, <2>1 DEF Booked, Tallies, Kinds, Book, Reads, LoadBook
  <2> QED BY <2>2, <2>3 DEF Booked, Moves, k
<1> QED BY <1>1, <1>2

LEMMA ImportSampleCarries ==
    ASSUME NEW i, NEW s, Booked(s)
    PROVE  LET over == Carried("imp", i, Book(s.g)["imp"])
           IN  /\ over \in 0..Ticks
               /\ ImpBook(ImportSample(i, s), i.lim.imp, over)
<1> DEFINE over == Carried("imp", i, Book(s.g)["imp"])
           base == IF s.g.imp.limit = i.lim.imp THEN s.g.imp
                   ELSE [NoImport EXCEPT !.limit = i.lim.imp,
                                         !.evSafe = IF ImportSafe(i) THEN Cooldown ELSE 0]
           safe == IF Import(i) <= i.lim.imp THEN Least(base.safe + 1, RelaxCycles) ELSE 0
           evSafe == IF ImportSafe(i) THEN Least(base.evSafe + 1, Cooldown) ELSE 0
<1>1. over = IF s.g.imp.limit = i.lim.imp THEN s.g.imp.breach ELSE 0
  BY DEF Carried, Book
<1>2. over \in 0..Ticks
  BY <1>1, CascadeAssumption DEF Booked, Tallies
<1>3. ImpBook(base, i.lim.imp, over)
  BY <1>1 DEF Booked, Tallies, ImpBook, NoImport
<1>4. ImportSample(i, s) = [base EXCEPT !.safe = safe, !.evSafe = evSafe]
  BY <1>3 DEF ImportSample, ImpBook
<1> HIDE DEF base, safe, evSafe, over
<1>5. ImpBook(ImportSample(i, s), i.lim.imp, over)
  BY <1>3, <1>4 DEF ImpBook
<1> QED BY <1>2, <1>5 DEF over

LEMMA ImportLimitMoves ==
    ASSUME NEW i, Input(i), NEW s, Booked(s)
    PROVE  LET t == ImportLimit(i, s)
           IN  /\ Moves({"imp"}, s, t)
               /\ i.lim.imp # NaN =>
                     Reads("imp", t.g, i.lim.imp, Carried("imp", i, Book(s.g)["imp"]))
               /\ i.lim.imp = NaN => Reads("imp", t.g, NaN, 0)
<1> DEFINE over == Carried("imp", i, Book(s.g)["imp"])
           t == ImportLimit(i, s)
<1>0. Fields(s) /\ Ticks \in Nat \ {0}
  BY CascadeAssumption DEF Booked
<1>1. CASE i.lim.imp = NaN
  <2>1. ImpBook(NoImport, NaN, 0) /\ 0 \in 0..Ticks
    BY <1>0 DEF ImpBook, NoImport
  <2>2. t = [s EXCEPT !.g.imp = NoImport]
    BY <1>1 DEF ImportLimit
  <2> HIDE DEF t
  <2>3. Moves({"imp"}, s, t) /\ Reads("imp", t.g, NaN, 0)
    BY <1>0, <2>1, <2>2, SessionMoves
  <2> QED BY <1>1, <2>3 DEF t
<1>2. CASE i.lim.imp # NaN
  <2> DEFINE m      == ImportSample(i, s)
             target == ImportTarget(i, s)
             wanted == ImportWanted(m, target)
             eased  == [m EXCEPT !.safe = IF Relaxes(m, target) THEN 0 ELSE @]
             idle   == [eased EXCEPT !.discharge = NaN]
  <2>1. over \in 0..Ticks /\ ImpBook(m, i.lim.imp, over)
    BY ImportSampleCarries
  <2>2. t = IF wanted = 0 THEN [s EXCEPT !.g.imp = idle] ELSE ImportDefence(i, s, eased, wanted)
    BY <1>2 DEF ImportLimit
  <2> HIDE DEF over, m, wanted, t
  <2>3. ImpBook(eased, i.lim.imp, over)
    BY <2>1 DEF ImpBook
  <2> HIDE DEF eased
  <2>4. ImpBook(idle, i.lim.imp, over)
    BY <2>3 DEF ImpBook
  <2> HIDE DEF idle
  <2>5. CASE wanted = 0
    <3>1. Moves({"imp"}, s, t) /\ Reads("imp", t.g, i.lim.imp, over)
      BY <1>0, <2>1, <2>2, <2>4, <2>5, SessionMoves
    <3> QED BY <1>2, <3>1 DEF t, over
  <2>6. CASE wanted # 0
    <3> DEFINE halted  == Halted(s)
               missing == Pos(wanted - Committed(halted))
               add     == Added(i, halted, missing)
               total   == Committed(halted) + add
               c       == Raised(halted, add)
               kept    == [eased EXCEPT !.discharge = IF total > 0 THEN total ELSE NaN]
               done    == [c EXCEPT !.g.imp = kept]
               short   == Import(i) - i.lim.imp
    <3>1. t = IF Import(i) > i.lim.imp /\ missing > add
              THEN RecordBreach(done, "import", short) ELSE done
      BY <2>2, <2>6 DEF ImportDefence
    <3>2. /\ Fields(halted) /\ halted.g = s.g /\ halted.plan.breach = s.plan.breach
      BY <1>0 DEF Halted, Commanded, Fields
    <3>3. Import(i) > i.lim.imp => short \in Nat \ {0}
      <4>1. Import(i) \in Nat /\ i.lim.imp \in Nat
        BY <1>2, Numbers DEF Import, Input, Watts, Limits
      <4> QED BY <4>1
    <3> HIDE DEF halted, missing, short
    <3>4. Fields(c) /\ c.g = s.g /\ c.plan.breach = s.plan.breach
      BY <3>2 DEF Raised, Commanded, Fields
    <3>5. ImpBook(kept, i.lim.imp, over)
      BY <2>3 DEF ImpBook
    <3> HIDE DEF c, kept, add
    <3>6. Moves({"imp"}, s, done) /\ Reads("imp", done.g, i.lim.imp, over)
      BY <2>1, <3>4, <3>5, SessionMoves
    <3> HIDE DEF done
    <3>7. CASE Import(i) > i.lim.imp /\ missing > add
      <4>1. Booked(done) /\ "import" \in Complaints /\ short \in Nat \ {0}
        BY <3>3, <3>6, <3>7 DEF Moves, Complaints
      <4>2. Moves({}, done, t) /\ t.g = done.g
        BY <3>1, <3>7, <4>1, RecordGrows
      <4>3. {"imp"} \cup {} = {"imp"}
        OBVIOUS
      <4>4. Moves({"imp"}, s, t)
        BY <3>6, <4>2, <4>3, MovesOn
      <4> QED BY <1>2, <3>6, <4>2, <4>4 DEF t, over
    <3>8. CASE ~(Import(i) > i.lim.imp /\ missing > add)
      BY <1>2, <3>1, <3>6, <3>8 DEF t, over
    <3> QED BY <3>7, <3>8
  <2> QED BY <2>5, <2>6
<1> QED BY <1>1, <1>2

\* CheckImport after ImportLimit.
LEMMA ImportAnswers ==
    ASSUME NEW i, Input(i), NEW s, Booked(s)
    PROVE  LET t == CheckImport(i, ImportLimit(i, s))
           IN  /\ Moves({"imp"}, s, t)
               /\ Answers("imp", i, Book(s.g)["imp"], Book(t.g)["imp"], t.plan.breach)
<1> DEFINE before == Carried("imp", i, Book(s.g)["imp"])
           u == ImportLimit(i, s)
           t == CheckImport(i, u)
<1>0. Ticks \in Nat \ {0} /\ before \in 0..Ticks /\ {"imp"} \cup {"imp"} = {"imp"}
      /\ {"imp"} \cup {} = {"imp"} /\ "imp" \in Kinds
  BY ImportSampleCarries, CascadeAssumption DEF Kinds
<1>1. /\ Moves({"imp"}, s, u)
      /\ i.lim.imp # NaN => Reads("imp", u.g, i.lim.imp, before)
      /\ i.lim.imp = NaN => Reads("imp", u.g, NaN, 0)
  BY ImportLimitMoves
<1> HIDE DEF u
<1>2. Booked(u) /\ Fields(u) /\ u.g.imp.limit = i.lim.imp
      /\ u.g.imp.breach = (IF i.lim.imp = NaN THEN 0 ELSE before)
      /\ Book(u.g)["imp"] = [limit |-> u.g.imp.limit, over |-> u.g.imp.breach]
  BY <1>1 DEF Moves, Booked, Reads, Book
<1>3. CASE i.lim.imp = NaN
  <2>1. t = [u EXCEPT !.g.imp.breach = 0] /\ 0 \in 0..Ticks
    BY <1>0, <1>3 DEF CheckImport
  <2> HIDE DEF t, before
  <2>2. Moves({"imp"}, u, t) /\ Book(t.g)["imp"] = [limit |-> u.g.imp.limit, over |-> 0]
    BY <1>2, <2>1, CountMoves
  <2>3. Moves({"imp"}, s, t)
    BY <1>0, <1>1, <2>2, MovesOn
  <2> QED BY <1>0, <1>2, <1>3, <2>2, <2>3, Misses DEF Answers, Reads, t, u
<1>4. CASE i.lim.imp # NaN /\ i.net = NaN
  <2>1. t = u
    BY <1>4 DEF CheckImport
  <2> HIDE DEF t
  <2> QED BY <1>0, <1>1, <1>2, <1>4, <2>1, Misses DEF Answers, before, t, u
<1>5. CASE i.lim.imp # NaN /\ i.net # NaN
  <2> DEFINE over == Pos(i.net) > i.lim.imp
             n == Leaky(before, over)
             c == [u EXCEPT !.g.imp.breach = n]
             due == n >= Ticks
             short == Pos(i.net) - i.lim.imp
  <2>1. i.net \in Int /\ i.lim.imp \in Nat
    BY <1>5 DEF Input, Watts, Limits
  <2>2. Pos(i.net) \in Nat /\ Pos(i.net) >= i.net
    BY <2>1 DEF Pos, Most
  <2>3. over \in BOOLEAN /\ due \in BOOLEAN /\ (due <=> n >= Ticks)
    OBVIOUS
  <2>4. t = ReportOnce(c, due, "import", short)
    BY <1>2, <1>5 DEF CheckImport
  <2>5. (Miss(i)["imp"] => over) /\ (over => short \in Nat \ {0})
    BY <2>1, <2>2, Misses
  <2> HIDE DEF over, short, t, before
  <2>6. n \in 0..Ticks /\ (n >= Ticks => over)
    BY <1>0, <2>3, Leaks
  <2> HIDE DEF due
  <2>7. Moves({"imp"}, u, c) /\ Book(c.g)["imp"] = [limit |-> u.g.imp.limit, over |-> n]
    BY <1>2, <2>6, CountMoves
  <2> HIDE DEF c
  <2>8. Booked(c) /\ "import" \in Complaints /\ (due => short \in Nat \ {0})
    BY <2>3, <2>5, <2>6, <2>7 DEF Moves, Complaints
  <2>9. Moves({}, c, t) /\ t.g = c.g /\ (due => t.plan.breach # NoBreach)
    BY <2>3, <2>4, <2>8, ReportGrows
  <2>10. /\ before = Carried("imp", i, Book(u.g)["imp"]) /\ i.lim["imp"] = i.lim.imp
         /\ Book(c.g)["imp"].over = n /\ (n >= Ticks => t.plan.breach # NoBreach)
         /\ Book(c.g)["imp"].limit = i.lim["imp"]
    BY <1>2, <1>5, <2>3, <2>7, <2>9 DEF Carried
  <2>11. /\ Moves({"imp"}, u, t)
         /\ Answers("imp", i, Book(u.g)["imp"], Book(t.g)["imp"], t.plan.breach)
    BY <1>0, <1>2, <1>5, <2>3, <2>5, <2>7, <2>9, <2>10, CountAnswers
  <2>12. Book(u.g)["imp"].limit = i.lim["imp"] /\ Book(u.g)["imp"].over = before
    BY <1>2, <1>5, <2>10
  <2>13. Answers("imp", i, Book(s.g)["imp"], Book(t.g)["imp"], t.plan.breach)
    BY <2>11, <2>12, Renewed DEF before
  <2>14. Moves({"imp"}, s, t)
    BY <1>0, <1>1, <2>11, MovesOn
  <2> QED BY <2>13, <2>14 DEF t, u
<1> QED BY <1>3, <1>4, <1>5

LEMMA LoadSampleCarries ==
    ASSUME NEW i, NEW s, Booked(s)
    PROVE  LET over == Carried("load", i, Book(s.g)["load"])
           IN  /\ over \in 0..Ticks
               /\ LoadBook(AusLoadSample(i, s), i.lim.load, over)
               /\ \A ev, safe : LoadBook([AusLoadSample(i, s) EXCEPT !.ev = ev, !.safe = safe],
                                         i.lim.load, over)
<1> DEFINE over == Carried("load", i, Book(s.g)["load"])
           a == IF s.g.ausLoad.limit = i.lim.load THEN s.g.ausLoad
                ELSE [NoAusLoad EXCEPT !.limit = i.lim.load]
           n == IF GrossLoad(i) <= i.lim.load THEN Least(a.safe + 1, RelaxCycles) ELSE 0
<1>1. over = IF s.g.ausLoad.limit = i.lim.load THEN s.g.ausLoad.breach ELSE 0
  BY DEF Carried, Book
<1>2. over \in 0..Ticks
  BY <1>1, CascadeAssumption DEF Booked, Tallies
<1>3. LoadBook(a, i.lim.load, over)
  BY <1>1 DEF Booked, Tallies, LoadBook, NoAusLoad
<1>4. AusLoadSample(i, s) = IF i.net = NaN THEN a ELSE [a EXCEPT !.safe = n]
  BY <1>3 DEF AusLoadSample, LoadBook
<1> HIDE DEF a, n, over
<1>5. LoadBook(AusLoadSample(i, s), i.lim.load, over)
  BY <1>3, <1>4 DEF LoadBook
<1>6. ASSUME NEW ev, NEW safe
      PROVE  LoadBook([AusLoadSample(i, s) EXCEPT !.ev = ev, !.safe = safe], i.lim.load, over)
  BY <1>5 DEF LoadBook
<1> QED BY <1>2, <1>5, <1>6 DEF over

\* CheckAusLoad after a rule that took over the session of the cap.
LEMMA CheckAusLoadAnswers ==
    ASSUME NEW i, Input(i), NEW s, Booked(s), NEW u, Moves({"load"}, s, u),
           i.lim.load # NaN =>
               Reads("load", u.g, i.lim.load, Carried("load", i, Book(s.g)["load"])),
           i.lim.load = NaN => Reads("load", u.g, NaN, 0)
    PROVE  LET t == CheckAusLoad(i, u)
           IN  /\ Moves({"load"}, s, t)
               /\ Answers("load", i, Book(s.g)["load"], Book(t.g)["load"], t.plan.breach)
<1> DEFINE before == Carried("load", i, Book(s.g)["load"])
           t == CheckAusLoad(i, u)
<1>0. Ticks \in Nat \ {0} /\ before \in 0..Ticks /\ {"load"} \cup {"load"} = {"load"}
      /\ {"load"} \cup {} = {"load"} /\ "load" \in Kinds
  BY LoadSampleCarries, CascadeAssumption DEF Kinds
<1>2. Booked(u) /\ Fields(u) /\ u.g.ausLoad.limit = i.lim.load
      /\ u.g.ausLoad.breach = (IF i.lim.load = NaN THEN 0 ELSE before)
      /\ Book(u.g)["load"] = [limit |-> u.g.ausLoad.limit, over |-> u.g.ausLoad.breach]
  BY DEF Moves, Booked, Reads, Book
<1>3. CASE i.lim.load = NaN
  <2>1. t = u
    BY <1>3 DEF CheckAusLoad
  <2> HIDE DEF t, before
  <2> QED BY <1>0, <1>2, <1>3, <2>1, Misses DEF Answers, t
<1>4. CASE i.lim.load # NaN /\ i.net = NaN
  <2>1. t = u
    BY <1>4 DEF CheckAusLoad
  <2> HIDE DEF t
  <2> QED BY <1>0, <1>2, <1>4, <2>1, Misses DEF Answers, before, t
<1>5. CASE i.lim.load # NaN /\ i.net # NaN
  <2> DEFINE over == GrossLoad(i) > i.lim.load
             n == Leaky(before, over)
             c == [u EXCEPT !.g.ausLoad.breach = n]
             due == n >= Ticks
             short == GrossLoad(i) - i.lim.load
  <2>1. GrossLoad(i) \in Nat /\ i.lim.load \in Nat
    BY <1>5, GrossIsNumber DEF Input, Limits
  <2>3. over \in BOOLEAN /\ due \in BOOLEAN /\ (due <=> n >= Ticks)
    OBVIOUS
  <2>4. t = ReportOnce(c, due, "load-aus", short)
    BY <1>2, <1>5 DEF CheckAusLoad
  <2>5. (Miss(i)["load"] => over) /\ (over => short \in Nat \ {0})
    BY <2>1, Misses
  <2> HIDE DEF over, short, t, before
  <2>6. n \in 0..Ticks /\ (n >= Ticks => over)
    BY <1>0, <2>3, Leaks
  <2> HIDE DEF due
  <2>7. Moves({"load"}, u, c) /\ Book(c.g)["load"] = [limit |-> u.g.ausLoad.limit, over |-> n]
    BY <1>2, <2>6, CountMoves
  <2> HIDE DEF c
  <2>8. Booked(c) /\ "load-aus" \in Complaints /\ (due => short \in Nat \ {0})
    BY <2>3, <2>5, <2>6, <2>7 DEF Moves, Complaints
  <2>9. Moves({}, c, t) /\ t.g = c.g /\ (due => t.plan.breach # NoBreach)
    BY <2>3, <2>4, <2>8, ReportGrows
  <2>10. /\ before = Carried("load", i, Book(u.g)["load"]) /\ i.lim["load"] = i.lim.load
         /\ Book(c.g)["load"].over = n /\ (n >= Ticks => t.plan.breach # NoBreach)
         /\ Book(c.g)["load"].limit = i.lim["load"]
    BY <1>2, <1>5, <2>3, <2>7, <2>9 DEF Carried
  <2>11. /\ Moves({"load"}, u, t)
         /\ Answers("load", i, Book(u.g)["load"], Book(t.g)["load"], t.plan.breach)
    BY <1>0, <1>2, <1>5, <2>3, <2>5, <2>7, <2>9, <2>10, CountAnswers
  <2>12. Book(u.g)["load"].limit = i.lim["load"] /\ Book(u.g)["load"].over = before
    BY <1>2, <1>5, <2>10
  <2>13. Answers("load", i, Book(s.g)["load"], Book(t.g)["load"], t.plan.breach)
    BY <2>11, <2>12, Renewed DEF before
  <2>14. Moves({"load"}, s, t)
    BY <1>0, <2>11, MovesOn
  <2> QED BY <2>13, <2>14 DEF t
<1> QED BY <1>3, <1>4, <1>5

LEMMA AusLoadLimitMoves ==
    ASSUME NEW i, NEW s, Booked(s)
    PROVE  LET t == AusLoadLimit(i, s)
           IN  /\ Moves({"load"}, s, t)
               /\ i.lim.load # NaN =>
                     Reads("load", t.g, i.lim.load, Carried("load", i, Book(s.g)["load"]))
               /\ i.lim.load = NaN => Reads("load", t.g, NaN, 0)
<1> DEFINE over == Carried("load", i, Book(s.g)["load"])
           t == AusLoadLimit(i, s)
<1>0. Fields(s) /\ Ticks \in Nat \ {0}
  BY CascadeAssumption DEF Booked
<1>1. CASE i.lim.load = NaN
  <2>1. LoadBook(NoAusLoad, NaN, 0) /\ 0 \in 0..Ticks
    BY <1>0 DEF LoadBook, NoAusLoad
  <2>2. t = [s EXCEPT !.g.ausLoad = NoAusLoad]
    BY <1>1 DEF AusLoadLimit
  <2> HIDE DEF t
  <2>3. Moves({"load"}, s, t) /\ Reads("load", t.g, NaN, 0)
    BY <1>0, <2>1, <2>2, SessionMoves
  <2> QED BY <1>1, <2>3 DEF t
<1>2. CASE i.lim.load # NaN
  <2> DEFINE a       == AusLoadSample(i, s)
             others  == Pos(GrossLoad(i) - Pos(-i.batt.power))
             room    == Pos(Conservative(i.lim.load) - others)
             charges == s.plan.batt # NaN /\ s.plan.batt < 0
             halts   == charges /\ -s.plan.batt > room
             shed    == IF halts THEN [s EXCEPT !.plan.batt = 0] ELSE s
             charge  == IF charges /\ ~halts THEN -s.plan.batt ELSE 0
             limit   == AusEvLimit(i, a, others, charge)
             relaxes == a.ev # NaN /\ limit > a.ev
             eased   == [a EXCEPT !.ev = limit, !.safe = IF relaxes THEN 0 ELSE @]
             idle    == [a EXCEPT !.ev = NaN]
             Clean(c) == Fields(c) /\ c.g = s.g /\ c.plan.breach = s.plan.breach
  <2>1. over \in 0..Ticks /\ LoadBook(a, i.lim.load, over)
    BY LoadSampleCarries
  <2> HIDE DEF a, over
  <2>2. LoadBook(idle, i.lim.load, over) /\ LoadBook(eased, i.lim.load, over)
    <3> DEFINE n == IF relaxes THEN 0 ELSE a.safe
    <3> HIDE DEF n, limit
    <3>1. eased = [a EXCEPT !.ev = limit, !.safe = n]
      BY DEF n
    <3> HIDE DEF eased
    <3> QED BY <2>1, <3>1 DEF LoadBook
  <2>3. Clean(s) /\ Clean(shed)
    BY <1>0 DEF Fields
  <2>4. ASSUME NEW c, Clean(c), NEW w PROVE Clean(MergeEvLimit(i, c, w))
    BY <2>4 DEF MergeEvLimit, Fields
  <2>5. \E c, m : /\ Clean(c) /\ LoadBook(m, i.lim.load, over)
                  /\ t = [c EXCEPT !.g.ausLoad = m]
    <3>1. t \in {[s EXCEPT !.g.ausLoad = a], [MergeEvLimit(i, s, a.ev) EXCEPT !.g.ausLoad = a],
                 [shed EXCEPT !.g.ausLoad = a], [shed EXCEPT !.g.ausLoad = idle],
                 [MergeEvLimit(i, shed, limit) EXCEPT !.g.ausLoad = eased]}
      BY <1>2 DEF AusLoadLimit, a
    <3> HIDE DEF t, shed, idle, limit, eased, Clean
    <3> QED BY <2>1, <2>2, <2>3, <2>4, <3>1
  <2> HIDE DEF t
  <2>6. Moves({"load"}, s, t) /\ Reads("load", t.g, i.lim.load, over)
    <3> PICK c, m : /\ Clean(c) /\ LoadBook(m, i.lim.load, over)
                    /\ t = [c EXCEPT !.g.ausLoad = m]
      BY <2>5
    <3> QED BY <2>1, SessionMoves
  <2> QED BY <1>2, <2>6 DEF t, over
<1> QED BY <1>1, <1>2

LEMMA LoadAnswers ==
    ASSUME NEW i, Input(i), NEW s, Booked(s)
    PROVE  LET t == CheckAusLoad(i, AusLoadLimit(i, s))
           IN  /\ Moves({"load"}, s, t)
               /\ Answers("load", i, Book(s.g)["load"], Book(t.g)["load"], t.plan.breach)
<1> DEFINE u == AusLoadLimit(i, s)
<1>1. /\ Moves({"load"}, s, u)
      /\ i.lim.load # NaN =>
            Reads("load", u.g, i.lim.load, Carried("load", i, Book(s.g)["load"]))
      /\ i.lim.load = NaN => Reads("load", u.g, NaN, 0)
  BY AusLoadLimitMoves
<1> HIDE DEF u
<1>2. LET t == CheckAusLoad(i, u)
      IN  /\ Moves({"load"}, s, t)
          /\ Answers("load", i, Book(s.g)["load"], Book(t.g)["load"], t.plan.breach)
  BY <1>1, CheckAusLoadAnswers
<1> QED BY <1>2 DEF u

\* Battery safety has its own counts.
LEMMA SafetyMoves ==
    ASSUME NEW i, NEW s, Booked(s)
    PROVE  Moves({}, s, CheckBatterySafety(i, s))
<1> DEFINE Tally(d, w) == [s EXCEPT !.g.drain = d, !.g.wrong = w]
           Cut(t) == [t EXCEPT !.plan.batt = 0, !.plan.connect = FALSE]
           b        == i.batt
           charge   == ChargeCommanded(s.plan.batt, s.g.lastBatt)
           atRest   == s.g.hold \/ b.soc <= Reserve
           drain    == IF b.power > 0 /\ atRest THEN Least(s.g.drain + 1, Ticks) ELSE 0
           wrong    == IF b.power > 0 /\ charge THEN Least(s.g.wrong + 1, Ticks) ELSE 0
<1>1. ASSUME NEW d, NEW w, NEW t, t = Tally(d, w)
      PROVE  Moves({}, s, t) /\ Fields(t)
  <2> DEFINE k == t.g
  <2>1. /\ k.gen = s.g.gen /\ k.ausGen = s.g.ausGen /\ k.imp = s.g.imp
        /\ k.zeroLever = s.g.zeroLever
        /\ k.ausLoad = s.g.ausLoad /\ k.expOver = s.g.expOver
    BY <1>1 DEF Booked, Fields
  <2>2. Fields(t) /\ t.plan = s.plan
    BY <1>1 DEF Booked, Fields
  <2> HIDE DEF k
  <2>3. Tallies(k) /\ \A n \in Kinds : Book(k)[n] = Book(s.g)[n]
    BY <2>1 DEF Booked, Tallies, Kinds, Book
  <2> QED BY <2>2, <2>3 DEF Booked, Moves, k
<1>2. ASSUME NEW t, Moves({}, s, t)
      PROVE  Moves({}, s, Cut(t))
  <2>1. Fields(Cut(t)) /\ Cut(t).g = t.g /\ Cut(t).plan.breach = t.plan.breach
    BY <1>2 DEF Moves, Booked, Fields
  <2> HIDE DEF Cut
  <2> QED BY <1>2, <2>1 DEF Moves, Booked
<1>3. CheckBatterySafety(i, s) \in {Tally(0, 0), Tally(drain, wrong), Cut(Tally(drain, wrong))}
  BY DEF CheckBatterySafety
<1> HIDE DEF drain, wrong, Tally, Cut
<1> QED BY <1>1, <1>2, <1>3

-----------------------------------------------------------------------------
\* An author goes from one book to the next and gives all reports that are due.
Reports(ns, i, k, after, b) ==
    /\ Tallies(after) /\ Complaint(b)
    /\ \A n \in ns : Answers(n, i, Book(k)[n], Book(after)[n], b)

LEMMA HoldsKeepBooks ==
    ASSUME NEW b, NEW k, GuardFields(k), Tallies(k)
    PROVE  LET h == UpdateReserveHolds(b, k)
           IN  GuardFields(h) /\ Tallies(h) /\ Book(h) = Book(k)
<1> DEFINE h == UpdateReserveHolds(b, k)
<1>1. /\ h.gen = k.gen /\ h.ausGen = k.ausGen /\ h.imp = k.imp /\ h.zeroLever = k.zeroLever
      /\ h.ausLoad = k.ausLoad /\ h.expOver = k.expOver
  BY DEF GuardFields, UpdateReserveHolds
<1>2. GuardFields(h)
  BY HoldsLeave
<1> HIDE DEF h
<1> QED BY <1>1, <1>2 DEF Tallies, Book, h

\* Rules that answer some kinds of miss; a later rule takes no answer back.
Progress(ns, i, s, t) ==
    /\ Moves(ns, s, t)
    /\ \A n \in ns : Answers(n, i, Book(s.g)[n], Book(t.g)[n], t.plan.breach)

LEMMA ProgressOn ==
    ASSUME NEW i, NEW ns \in SUBSET Kinds, NEW s, NEW t, NEW u, Progress(ns, i, s, t)
    PROVE  /\ Moves({}, t, u) => Progress(ns, i, s, u)
           /\ \A n \in Kinds \ ns : Progress({n}, i, t, u) => Progress(ns \cup {n}, i, s, u)
<1>1. ASSUME Moves({}, t, u) PROVE Progress(ns, i, s, u)
  BY <1>1 DEF Progress, Moves, Answers
<1>2. ASSUME NEW n \in Kinds \ ns, Progress({n}, i, t, u) PROVE Progress(ns \cup {n}, i, s, u)
  <2>1. Moves(ns \cup {n}, s, u)
    BY <1>2, MovesOn DEF Progress
  <2>2. ASSUME NEW m \in ns \cup {n}
        PROVE  Answers(m, i, Book(s.g)[m], Book(u.g)[m], u.plan.breach)
    <3>1. CASE m = n
      BY <1>2, <3>1 DEF Progress, Moves
    <3>2. CASE m \in ns
      BY <1>2, <3>2 DEF Progress, Moves, Answers
    <3> QED BY <2>2, <3>1, <3>2
  <2> QED BY <2>1, <2>2 DEF Progress
<1> QED BY <1>1, <1>2

LEMMA ComplyAnswers ==
    ASSUME NEW i, Input(i), NEW s, Booked(s), s.power \in Int
    PROVE  Progress({"exp", "max", "imp", "gen"}, i, s, Comply(i, s))
<1> DEFINE a == ExportLimit(i, s)
           b == CheckExport(i, a)
           c == GenLimit(i, b)
           d == CheckGen(i, c)
           e == CheckImport(i, ImportLimit(i, d))
           f == AusGenLimit(i, e)
           h == CheckAusGen(i, f)
<1>1. Progress({}, i, s, a)
  BY ExportLimitMoves DEF Progress
<1> HIDE DEF a
<1>2. Progress({"exp"}, i, s, b)
  <2>1. Progress({"exp"}, i, a, b)
    BY <1>1, CheckExportAnswers DEF Progress, Moves
  <2>2. {} \cup {"exp"} = {"exp"} /\ "exp" \in Kinds \ {}
    BY DEF Kinds
  <2> HIDE DEF b
  <2> QED BY <1>1, <2>1, <2>2, ProgressOn
<1> HIDE DEF b
<1>3. Progress({"exp"}, i, s, c)
  <2>1. Moves({}, b, c) /\ {"exp"} \in SUBSET Kinds
    BY <1>2, PlanningMoves DEF Progress, Moves, Kinds
  <2> HIDE DEF c
  <2> QED BY <1>2, <2>1, ProgressOn
<1> HIDE DEF c
<1>4. Progress({"exp", "max"}, i, s, d)
  <2>1. Progress({"max"}, i, c, d)
    BY <1>3, CheckGenAnswers DEF Progress, Moves
  <2>2. /\ {"exp"} \cup {"max"} = {"exp", "max"} /\ "max" \in Kinds \ {"exp"}
        /\ {"exp"} \in SUBSET Kinds
    BY DEF Kinds
  <2> HIDE DEF d
  <2> QED BY <1>3, <2>1, <2>2, ProgressOn
<1> HIDE DEF d
<1>5. Progress({"exp", "max", "imp"}, i, s, e)
  <2>1. Progress({"imp"}, i, d, e)
    BY <1>4, ImportAnswers DEF Progress, Moves
  <2>2. /\ {"exp", "max"} \cup {"imp"} = {"exp", "max", "imp"}
        /\ "imp" \in Kinds \ {"exp", "max"} /\ {"exp", "max"} \in SUBSET Kinds
    BY DEF Kinds
  <2> HIDE DEF e
  <2> QED BY <1>4, <2>1, <2>2, ProgressOn
<1> HIDE DEF e
<1>6. Progress({"exp", "max", "imp"}, i, s, f)
  <2>1. Moves({}, e, f) /\ {"exp", "max", "imp"} \in SUBSET Kinds
    BY <1>5, PlanningMoves DEF Progress, Moves, Kinds
  <2> HIDE DEF f
  <2> QED BY <1>5, <2>1, ProgressOn
<1> HIDE DEF f
<1>7. Progress({"exp", "max", "imp", "gen"}, i, s, h)
  <2>1. Progress({"gen"}, i, f, h)
    BY <1>6, CheckAusGenAnswers DEF Progress, Moves
  <2>2. /\ {"exp", "max", "imp"} \cup {"gen"} = {"exp", "max", "imp", "gen"}
        /\ "gen" \in Kinds \ {"exp", "max", "imp"} /\ {"exp", "max", "imp"} \in SUBSET Kinds
    BY DEF Kinds
  <2> HIDE DEF h
  <2> QED BY <1>6, <2>1, <2>2, ProgressOn
<1>8. Comply(i, s) = h
  BY DEF Comply, a, b, c, d, e, f
<1> QED BY <1>7, <1>8

\* The cascade answers every kind of miss.
LEMMA CascadeAnswers ==
    ASSUME NEW i, Input(i), NEW k, Levers(k), Tallies(k)
    PROVE  LET o == Optimize(i, k)
           IN  /\ Tallies(o.g)
               /\ ~i.cease => Reports(Kinds, i, k, o.g, o.plan.breach)
<1>1. CASE i.cease
  BY <1>1 DEF Optimize
<1>2. CASE ~i.cease
  <2> DEFINE z == Start(i, k)
             d == Dispatch(i, k)
             c == Comply(i, d)
             f == Economise(i, c)
             w == CheckAusLoad(i, AusLoadLimit(i, f))
             v == Restore(i, w)
             s == CheckBatterySafety(i, v)
             last == IF s.plan.batt = NaN THEN s.g.lastBatt ELSE s.plan.batt
  <2>1. Booked(z) /\ Book(z.g) = Book(k)
    <3>1. LET h == UpdateReserveHolds(i.batt, k)
          IN  GuardFields(h) /\ Tallies(h) /\ Book(h) = Book(k)
      BY HoldsKeepBooks DEF Levers
    <3>2. Fields(z) /\ z.g = UpdateReserveHolds(i.batt, k) /\ z.plan.breach = NoBreach
      BY <3>1 DEF Fields, GuardFields, Start, NoPlan
    <3> HIDE DEF z
    <3> QED BY <3>1, <3>2 DEF Booked, Complaint
  <2>2. d.power \in Int
    <3>1. Keeps(z, FixedDispatch(i, z))
      BY StartTyped, DispatchKeeps
    <3>2. Typed(d)
      BY <3>1, StartTyped, FollowKeeps DEF Dispatch, Keeps
    <3> QED BY <3>2 DEF Typed
  <2> HIDE DEF z
  <2>3. Progress({}, i, z, d)
    <3>1. Moves({}, z, FixedDispatch(i, z))
      BY <2>1, PlanningMoves
    <3>2. Moves({}, FixedDispatch(i, z), d)
      BY <3>1, PlanningMoves DEF Dispatch, z, Moves
    <3>3. {} \cup {} = {}
      OBVIOUS
    <3> HIDE DEF d
    <3>4. Moves({}, z, d)
      BY <3>1, <3>2, <3>3, MovesOn
    <3> QED BY <3>4 DEF Progress
  <2> HIDE DEF d
  <2>4. Progress({"exp", "max", "imp", "gen"}, i, z, c)
    <3>1. Progress({"exp", "max", "imp", "gen"}, i, d, c)
      BY <2>2, <2>3, ComplyAnswers DEF Progress, Moves
    <3> HIDE DEF c
    <3>2. {} \cup {"exp", "max", "imp", "gen"} = {"exp", "max", "imp", "gen"}
      OBVIOUS
    <3>3. Moves({"exp", "max", "imp", "gen"}, z, c)
      BY <2>3, <3>1, <3>2, MovesOn DEF Progress
    <3>4. \A n \in Kinds : Book(d.g)[n] = Book(z.g)[n]
      BY <2>3 DEF Progress, Moves
    <3>5. {"exp", "max", "imp", "gen"} \subseteq Kinds
      BY DEF Kinds
    <3> QED BY <3>1, <3>3, <3>4, <3>5 DEF Progress
  <2> HIDE DEF c
  <2>5. Progress({"exp", "max", "imp", "gen"}, i, z, f)
    <3> DEFINE x == SelfConsumption(i, c)
               y == PeakDischarge(i, x)
    <3>0. {"exp", "max", "imp", "gen"} \in SUBSET Kinds
      BY DEF Kinds
    <3>1. Moves({}, c, x)
      BY <2>4, PlanningMoves DEF Progress, Moves
    <3> HIDE DEF x
    <3>2. Moves({}, x, y)
      BY <3>1, PlanningMoves DEF Moves
    <3> HIDE DEF y
    <3>3. Moves({}, y, EvCharging(i, y))
      BY <3>2, PlanningMoves DEF Moves
    <3>4. f = EvCharging(i, y)
      BY DEF Economise, x, y
    <3> HIDE DEF f
    <3>5. Progress({"exp", "max", "imp", "gen"}, i, z, x)
      BY <2>4, <3>0, <3>1, ProgressOn
    <3>6. Progress({"exp", "max", "imp", "gen"}, i, z, y)
      BY <3>0, <3>2, <3>5, ProgressOn
    <3> QED BY <3>0, <3>3, <3>4, <3>6, ProgressOn
  <2> HIDE DEF f
  <2>6. Progress({"exp", "max", "imp", "gen", "load"}, i, z, w)
    <3>1. Progress({"load"}, i, f, w)
      BY <2>5, LoadAnswers DEF Progress, Moves
    <3>2. /\ {"exp", "max", "imp", "gen"} \cup {"load"} = {"exp", "max", "imp", "gen", "load"}
          /\ "load" \in Kinds \ {"exp", "max", "imp", "gen"}
          /\ {"exp", "max", "imp", "gen"} \in SUBSET Kinds
      BY DEF Kinds
    <3> HIDE DEF w
    <3> QED BY <2>5, <3>1, <3>2, ProgressOn
  <2> HIDE DEF w
  <2>7. Progress(Kinds, i, z, w)
    <3>1. {"exp", "max", "imp", "gen", "load"} = Kinds
      BY DEF Kinds
    <3> QED BY <2>6, <3>1
  <2>8. Progress(Kinds, i, z, v)
    <3>1. Moves({}, w, v) /\ Kinds \in SUBSET Kinds
      BY <2>7, PlanningMoves DEF Progress, Moves
    <3> HIDE DEF v
    <3> QED BY <2>7, <3>1, ProgressOn
  <2> HIDE DEF v
  <2>9. Progress(Kinds, i, z, s)
    <3>1. Moves({}, v, s) /\ Kinds \in SUBSET Kinds
      BY <2>8, SafetyMoves DEF Progress, Moves
    <3> HIDE DEF s
    <3> QED BY <2>8, <3>1, ProgressOn
  <2> HIDE DEF s
  <2>10. Booked(s)
    BY <2>9 DEF Progress, Moves
  <2>11. Optimize(i, k) = [plan |-> s.plan, g |-> [s.g EXCEPT !.lastBatt = last]]
    BY <1>2, <2>10 DEF Optimize, Backstop, Booked, Fields, s, v, w, f, c, d
  <2> HIDE DEF last
  <2> DEFINE after == [s.g EXCEPT !.lastBatt = last]
  <2>12. Tallies(after) /\ Book(after) = Book(s.g)
    <3>1. /\ after.gen = s.g.gen /\ after.ausGen = s.g.ausGen /\ after.imp = s.g.imp
          /\ after.zeroLever = s.g.zeroLever
          /\ after.ausLoad = s.g.ausLoad /\ after.expOver = s.g.expOver
      BY <2>10 DEF Booked, Fields
    <3> HIDE DEF after
    <3> QED BY <2>10, <3>1 DEF Booked, Tallies, Book
  <2> HIDE DEF after
  <2>13. Reports(Kinds, i, k, after, s.plan.breach)
    BY <2>1, <2>9, <2>10, <2>12 DEF Reports, Progress, Booked
  <2> QED BY <1>2, <2>11, <2>12, <2>13 DEF after
<1> QED BY <1>1, <1>2

-----------------------------------------------------------------------------
\* A constraint answers its kind of miss, as its rule does.
Hears(n, i, k, o) ==
    /\ GuardFields(o.k) /\ Tallies(o.k) /\ Complaint(o.breach)
    /\ Answers(n, i, Book(k)[n], Book(o.k)[n], o.breach)
    /\ \A m \in Kinds \ {n} : Book(o.k)[m] = Book(k)[m]

LEMMA EmptyBooked ==
    ASSUME NEW i, NEW k, GuardFields(k), Tallies(k)
    PROVE  Booked(Empty(i, k)) /\ Empty(i, k).g = k /\ Empty(i, k).power = i.batt.power
<1>1. Fields(Empty(i, k)) /\ Empty(i, k).g = k
  BY EmptyHasFields
<1>2. Empty(i, k).plan.breach = NoBreach /\ Empty(i, k).power = i.batt.power
  BY DEF Empty, NoPlan
<1> QED BY <1>1, <1>2 DEF Booked, Complaint

LEMMA HeardOfRule ==
    ASSUME NEW n \in Kinds, NEW i, NEW k, NEW s, NEW t, NEW o, s.g = k, Progress({n}, i, s, t),
           o.k = t.g, o.breach = t.plan.breach
    PROVE  Hears(n, i, k, o)
<1>1. GuardFields(t.g)
  BY DEF Progress, Moves, Booked, Fields, GuardFields
<1> QED BY <1>1 DEF Progress, Moves, Booked, Hears

LEMMA ComplianceHears ==
    ASSUME NEW i, Input(i), NEW k, GuardFields(k), Tallies(k)
    PROVE  /\ Hears("exp", i, k, ExportConstraint(i, k))
           /\ Hears("max", i, k, GenLimitConstraint(i, k))
           /\ Hears("imp", i, k, ImportLimitConstraint(i, k))
           /\ Hears("gen", i, k, AusGenLimitConstraint(i, k))
<1> DEFINE e == Empty(i, k)
<1>1. Booked(e) /\ e.g = k /\ e.power \in Int
  BY EmptyBooked DEF Input
<1>0. \A t : Progress({}, i, e, t) <=> Moves({}, e, t)
  BY DEF Progress
<1> HIDE DEF e
<1>2. \A n \in Kinds : {} \cup {n} = {n} /\ n \in Kinds \ {} /\ {} \in SUBSET Kinds
  OBVIOUS
<1>3. "exp" \in Kinds /\ "max" \in Kinds /\ "imp" \in Kinds /\ "gen" \in Kinds
  BY DEF Kinds
<1>4. Hears("exp", i, k, ExportConstraint(i, k))
  <2> DEFINE a == ExportLimit(i, e)
             t == CheckExport(i, a)
             o == ExportDemands(t)
  <2>1. Moves({}, e, a)
    BY <1>1, ExportLimitMoves
  <2> HIDE DEF a
  <2>2. Progress({"exp"}, i, a, t)
    BY <2>1, CheckExportAnswers DEF Progress, Moves
  <2> HIDE DEF t
  <2>3. Progress({"exp"}, i, e, t)
    BY <1>0, <1>2, <1>3, <2>1, <2>2, ProgressOn
  <2>4. o.k = t.g /\ o.breach = t.plan.breach
    BY DEF ExportDemands, Opinion
  <2> HIDE DEF o
  <2>5. Hears("exp", i, k, o)
    BY <1>1, <1>3, <2>3, <2>4, HeardOfRule
  <2> QED BY <2>5 DEF o, t, a, e, ExportConstraint, ExportControl
<1>5. Hears("max", i, k, GenLimitConstraint(i, k))
  <2> DEFINE a == GenLimit(i, e)
             t == CheckGen(i, a)
             o == GenDemands(t)
  <2>1. Moves({}, e, a)
    BY <1>1, PlanningMoves
  <2> HIDE DEF a
  <2>2. Progress({"max"}, i, a, t)
    BY <2>1, CheckGenAnswers DEF Progress, Moves
  <2> HIDE DEF t
  <2>3. Progress({"max"}, i, e, t)
    BY <1>0, <1>2, <1>3, <2>1, <2>2, ProgressOn
  <2>4. o.k = t.g /\ o.breach = t.plan.breach
    BY DEF GenDemands, Opinion
  <2> HIDE DEF o
  <2>5. Hears("max", i, k, o)
    BY <1>1, <1>3, <2>3, <2>4, HeardOfRule
  <2> QED BY <2>5 DEF o, t, a, e, GenLimitConstraint
<1>6. Hears("imp", i, k, ImportLimitConstraint(i, k))
  <2> DEFINE t == CheckImport(i, ImportLimit(i, e))
             o == ImportDemands(t)
  <2>1. Progress({"imp"}, i, e, t)
    BY <1>1, ImportAnswers DEF Progress
  <2> HIDE DEF t
  <2>2. o.k = t.g /\ o.breach = t.plan.breach
    BY DEF ImportDemands, Opinion
  <2> HIDE DEF o
  <2>3. Hears("imp", i, k, o)
    BY <1>1, <1>3, <2>1, <2>2, HeardOfRule
  <2> QED BY <2>3 DEF o, t, e, ImportLimitConstraint, ImportControl
<1>7. Hears("gen", i, k, AusGenLimitConstraint(i, k))
  <2> DEFINE t == CheckAusGen(i, e)
             o == AusGenDemands(i, t)
  <2>1. Progress({"gen"}, i, e, t)
    BY <1>1, CheckAusGenAnswers DEF Progress
  <2> HIDE DEF t
  <2>2. o.k = t.g /\ o.breach = t.plan.breach
    BY DEF AusGenDemands, Opinion
  <2> HIDE DEF o
  <2>3. Hears("gen", i, k, o)
    BY <1>1, <1>3, <2>1, <2>2, HeardOfRule
  <2> QED BY <2>3 DEF o, t, e, AusGenLimitConstraint
<1> QED BY <1>4, <1>5, <1>6, <1>7

LEMMA AusLoadHears ==
    ASSUME NEW i, Input(i), NEW k, GuardFields(k), Tallies(k)
    PROVE  Hears("load", i, k, AusLoadLimitConstraint(i, k))
<1> DEFINE e == Empty(i, k)
           o == AusLoadLimitConstraint(i, k)
<1>1. Booked(e) /\ e.g = k /\ Fields(e) /\ "load" \in Kinds
  BY EmptyBooked DEF Booked, Kinds
<1> HIDE DEF e
<1>0. Ticks \in Nat \ {0}
  BY CascadeAssumption
<1>2. CASE i.lim.load = NaN
  <2> DEFINE h == [k EXCEPT !.ausLoad = NoAusLoad]
  <2>1. o.k = h /\ o.breach = NoBreach
    BY <1>2 DEF AusLoadLimitConstraint, Opinion
  <2>2. /\ GuardFields(h) /\ h.gen = k.gen /\ h.ausGen = k.ausGen /\ h.imp = k.imp
        /\ h.zeroLever = k.zeroLever /\ h.expOver = k.expOver /\ h.ausLoad = NoAusLoad
    BY DEF GuardFields
  <2> HIDE DEF h, o
  <2>3. DOMAIN NoAusLoad = {"limit", "ev", "safe", "breach"}
        /\ NoAusLoad.limit = NaN /\ NoAusLoad.breach = 0
    BY DEF NoAusLoad
  <2>4. Tallies(h) /\ \A m \in Kinds \ {"load"} : Book(h)[m] = Book(k)[m]
    BY <1>0, <2>2, <2>3 DEF Tallies, Book, Kinds
  <2>5. Book(h)["load"] = [limit |-> NaN, over |-> 0]
    BY <2>2, <2>3 DEF Book
  <2>6. Answers("load", i, Book(k)["load"], Book(h)["load"], NoBreach)
    BY <1>0, <1>2, <2>5, Misses DEF Answers
  <2> QED BY <2>1, <2>2, <2>4, <2>6 DEF Hears, Complaint, o
<1>3. CASE i.lim.load # NaN
  <2> DEFINE over == Carried("load", i, Book(k)["load"])
             a == AusLoadSample(i, e)
             m == AusLoadControl(i, a)
             u == [e EXCEPT !.g.ausLoad = m]
             t == CheckAusLoad(i, u)
  <2>1. /\ over \in 0..Ticks /\ LoadBook(a, i.lim.load, over)
        /\ \A ev, safe : LoadBook([a EXCEPT !.ev = ev, !.safe = safe], i.lim.load, over)
    BY <1>1, LoadSampleCarries
  <2> HIDE DEF a, over
  <2>2. LoadBook(m, i.lim.load, over)
    <3> DEFINE charging == Pos(-i.batt.power)
               others   == Pos(GrossLoad(i) - charging)
               left     == IF charging > AusLoadRoom(i) THEN 0 ELSE charging
               limit    == AusEvLimit(i, a, others, left)
               safe == IF a.ev # NaN /\ limit > a.ev THEN 0 ELSE a.safe
               idle == [a EXCEPT !.ev = NaN]
               eased == [a EXCEPT !.ev = limit, !.safe = safe]
    <3>1. m \in {a, idle, eased}
      BY <2>1 DEF AusLoadControl, LoadBook
    <3> HIDE DEF m, limit, safe
    <3>2. LoadBook(idle, i.lim.load, over) /\ LoadBook(eased, i.lim.load, over)
      BY <2>1 DEF LoadBook
    <3> HIDE DEF idle, eased
    <3> QED BY <2>1, <3>1, <3>2
  <2> HIDE DEF m
  <2>3. Moves({"load"}, e, u) /\ Reads("load", u.g, i.lim.load, over)
    BY <1>1, <2>1, <2>2, SessionMoves
  <2> HIDE DEF u
  <2>4. Progress({"load"}, i, e, t)
    BY <1>1, <1>3, <2>3, CheckAusLoadAnswers DEF Progress, over
  <2>5. o = AusLoadDemands(i, t)
    BY <1>3 DEF AusLoadLimitConstraint, t, u, m, a, e
  <2> HIDE DEF t, o
  <2>6. o.k = t.g /\ o.breach = t.plan.breach
    BY <2>5 DEF AusLoadDemands, Opinion
  <2> QED BY <1>1, <2>4, <2>6, HeardOfRule DEF o
<1> QED BY <1>2, <1>3

-----------------------------------------------------------------------------
\* A pass of a stack over guards k that has asked for some kinds of miss.
Listened(ns, i, k, pass) ==
    /\ DOMAIN pass = {"k", "breach", "said"}
    /\ GuardFields(pass.k) /\ Reports(ns, i, k, pass.k, pass.breach)
    /\ \A m \in Kinds \ ns : Book(pass.k)[m] = Book(k)[m]

LEMMA WorseStays ==
    ASSUME NEW a, NEW b, Complaint(a), Complaint(b)
    PROVE  /\ Complaint(Worse(a, b))
           /\ a # NoBreach \/ b # NoBreach => Worse(a, b) # NoBreach
<1>1. ASSUME NEW c, Complaint(c) PROVE c # NoBreach <=> c.short > 0
  BY <1>1 DEF Complaint, NoBreach
<1>2. a.short \in Nat /\ b.short \in Nat
  BY DEF Complaint, NoBreach
<1> QED BY <1>1, <1>2 DEF Worse

LEMMA HeardListens ==
    ASSUME NEW i, NEW k, NEW ns \in SUBSET Kinds, NEW pass, Listened(ns, i, k, pass),
           NEW name, NEW o
    PROVE  /\ \A n \in Kinds \ ns : Hears(n, i, pass.k, o) =>
                 Listened(ns \cup {n}, i, k, Heard(pass, name, o))
           /\ o.k = pass.k /\ o.breach = NoBreach => Listened(ns, i, k, Heard(pass, name, o))
<1> DEFINE h == Heard(pass, name, o)
<1>1. /\ DOMAIN h = {"k", "breach", "said"} /\ h.k = o.k
      /\ h.breach = Worse(pass.breach, o.breach)
  BY DEF Listened, Heard
<1> HIDE DEF h
<1>2. ASSUME NEW n \in Kinds \ ns, Hears(n, i, pass.k, o)
      PROVE  Listened(ns \cup {n}, i, k, h)
  <2>1. /\ Complaint(h.breach)
        /\ pass.breach # NoBreach \/ o.breach # NoBreach => h.breach # NoBreach
    BY <1>1, <1>2, WorseStays DEF Hears, Listened, Reports
  <2>2. ASSUME NEW m \in ns \cup {n}
        PROVE  Answers(m, i, Book(k)[m], Book(h.k)[m], h.breach)
    <3>1. CASE m = n
      BY <1>1, <1>2, <2>1, <3>1 DEF Hears, Listened, Answers
    <3>2. CASE m \in ns
      <4>1. Book(h.k)[m] = Book(pass.k)[m]
        BY <1>1, <1>2, <3>2 DEF Hears
      <4> QED BY <2>1, <3>2, <4>1 DEF Listened, Reports, Answers
    <3> QED BY <2>2, <3>1, <3>2
  <2> QED BY <1>1, <1>2, <2>1, <2>2 DEF Hears, Listened, Reports
<1>3. ASSUME o.k = pass.k, o.breach = NoBreach PROVE Listened(ns, i, k, h)
  <2>1. /\ Complaint(h.breach) /\ (pass.breach # NoBreach => h.breach # NoBreach)
    BY <1>1, <1>3, WorseStays DEF Listened, Reports, Complaint
  <2> QED BY <1>1, <1>3, <2>1 DEF Listened, Reports, Answers
<1> QED BY <1>2, <1>3 DEF h

LEMMA CompliedListens ==
    ASSUME NEW i, Input(i), NEW k, GuardFields(k), Tallies(k), NEW wired,
           {"export", "gen", "import"} \subseteq wired
    PROVE  LET pass == Complied(i, k, wired)
           IN  \E ns \in SUBSET Kinds :
                  /\ Listened(ns, i, k, pass) /\ {"exp", "max", "imp"} \subseteq ns
                  /\ "gen-aus" \in wired => "gen" \in ns
                  /\ "load-aus" \in wired => "load" \in ns
<1> DEFINE h == UpdateReserveHolds(i.batt, k)
           start == NoPass(h)
           a == Turn(i, start, "export", ExportConstraint, wired)
           b == Turn(i, a, "gen", GenLimitConstraint, wired)
           c == Turn(i, b, "import", ImportLimitConstraint, wired)
           d == Turn(i, c, "gen-aus", AusGenLimitConstraint, wired)
           e == Turn(i, d, "load-aus", AusLoadLimitConstraint, wired)
<1>0. /\ {"exp"} \in SUBSET Kinds /\ {"exp", "max"} \in SUBSET Kinds
      /\ {"exp", "max", "imp"} \in SUBSET Kinds /\ {} \in SUBSET Kinds
      /\ "exp" \in Kinds \ {} /\ "max" \in Kinds \ {"exp"} /\ "imp" \in Kinds \ {"exp", "max"}
      /\ "gen" \in Kinds /\ "load" \in Kinds /\ "gen" # "load"
      /\ "gen" \notin {"exp", "max", "imp"} /\ "load" \notin {"exp", "max", "imp"}
      /\ {} \cup {"exp"} = {"exp"} /\ {"exp"} \cup {"max"} = {"exp", "max"}
      /\ {"exp", "max"} \cup {"imp"} = {"exp", "max", "imp"}
  BY DEF Kinds
<1>1. Listened({}, i, k, start)
  <2>1. GuardFields(h) /\ Tallies(h) /\ Book(h) = Book(k)
    BY HoldsKeepBooks
  <2> HIDE DEF h
  <2>2. DOMAIN start = {"k", "breach", "said"} /\ start.k = h /\ start.breach = NoBreach
    BY DEF NoPass
  <2> HIDE DEF start
  <2> QED BY <2>1, <2>2 DEF Listened, Reports, Complaint
<1> HIDE DEF start
<1>2. Listened({"exp"}, i, k, a)
  <2>1. Hears("exp", i, start.k, ExportConstraint(i, start.k))
    BY <1>1, ComplianceHears DEF Listened, Reports
  <2>2. a = Heard(start, "export", ExportConstraint(i, start.k))
    BY DEF Turn
  <2> HIDE DEF a
  <2> QED BY <1>0, <1>1, <2>1, <2>2, HeardListens
<1> HIDE DEF a
<1>3. Listened({"exp", "max"}, i, k, b)
  <2>1. Hears("max", i, a.k, GenLimitConstraint(i, a.k))
    BY <1>2, ComplianceHears DEF Listened, Reports
  <2>2. b = Heard(a, "gen", GenLimitConstraint(i, a.k))
    BY DEF Turn
  <2> HIDE DEF b
  <2> QED BY <1>0, <1>2, <2>1, <2>2, HeardListens
<1> HIDE DEF b
<1>4. Listened({"exp", "max", "imp"}, i, k, c)
  <2>1. Hears("imp", i, b.k, ImportLimitConstraint(i, b.k))
    BY <1>3, ComplianceHears DEF Listened, Reports
  <2>2. c = Heard(b, "import", ImportLimitConstraint(i, b.k))
    BY DEF Turn
  <2> HIDE DEF c
  <2> QED BY <1>0, <1>3, <2>1, <2>2, HeardListens
<1> HIDE DEF c
<1>5. \E ns \in SUBSET Kinds :
         /\ Listened(ns, i, k, d) /\ {"exp", "max", "imp"} \subseteq ns /\ "load" \notin ns
         /\ "gen-aus" \in wired => "gen" \in ns
  <2>1. CASE "gen-aus" \in wired
    <3>1. Hears("gen", i, c.k, AusGenLimitConstraint(i, c.k))
      BY <1>4, ComplianceHears DEF Listened, Reports
    <3>2. d = Heard(c, "gen-aus", AusGenLimitConstraint(i, c.k))
      BY <2>1 DEF Turn
    <3> HIDE DEF d
    <3>3. Listened({"exp", "max", "imp"} \cup {"gen"}, i, k, d)
      BY <1>0, <1>4, <3>1, <3>2, HeardListens
    <3> DEFINE ns == {"exp", "max", "imp"} \cup {"gen"}
    <3>4. /\ ns \in SUBSET Kinds /\ {"exp", "max", "imp"} \subseteq ns /\ "load" \notin ns
          /\ "gen" \in ns
      BY <1>0
    <3> HIDE DEF ns
    <3> QED BY <3>3, <3>4 DEF ns
  <2>2. CASE "gen-aus" \notin wired
    <3>1. d = c
      BY <2>2 DEF Turn
    <3> HIDE DEF d
    <3> QED BY <1>0, <1>4, <2>2, <3>1
  <2> QED BY <2>1, <2>2
<1> HIDE DEF d
<1>6. \E ns \in SUBSET Kinds :
         /\ Listened(ns, i, k, e) /\ {"exp", "max", "imp"} \subseteq ns
         /\ "gen-aus" \in wired => "gen" \in ns
         /\ "load-aus" \in wired => "load" \in ns
  <2> PICK ns \in SUBSET Kinds :
             /\ Listened(ns, i, k, d) /\ {"exp", "max", "imp"} \subseteq ns /\ "load" \notin ns
             /\ "gen-aus" \in wired => "gen" \in ns
    BY <1>5
  <2>1. CASE "load-aus" \in wired
    <3>1. Hears("load", i, d.k, AusLoadLimitConstraint(i, d.k))
      BY AusLoadHears DEF Listened, Reports
    <3>2. e = Heard(d, "load-aus", AusLoadLimitConstraint(i, d.k))
      BY <2>1 DEF Turn
    <3> HIDE DEF e
    <3>3. Listened(ns \cup {"load"}, i, k, e)
      BY <1>0, <3>1, <3>2, HeardListens
    <3> DEFINE ms == ns \cup {"load"}
    <3>4. /\ ms \in SUBSET Kinds /\ {"exp", "max", "imp"} \subseteq ms /\ "load" \in ms
          /\ "gen-aus" \in wired => "gen" \in ms
      BY <1>0
    <3> HIDE DEF ms
    <3> QED BY <3>3, <3>4 DEF ms
  <2>2. CASE "load-aus" \notin wired
    <3>1. e = d
      BY <2>2 DEF Turn
    <3> HIDE DEF e
    <3> QED BY <2>2, <3>1
  <2> QED BY <2>1, <2>2
<1>7. Complied(i, k, wired) = e
  BY DEF Complied, start, h, a, b, c, d
<1> HIDE DEF e
<1> QED BY <1>6, <1>7

\* What a pass has heard is what the stack reports.
LEMMA ArbitratedReports ==
    ASSUME NEW i, NEW k, NEW ns \in SUBSET Kinds, NEW pass, Listened(ns, i, k, pass),
           NEW wired, NEW lowest, NEW des
    PROVE  LET o == Arbitrated(i, pass, wired, lowest, des)
           IN  Reports(ns, i, k, o.k, o.plan.breach)
<1> DEFINE connect == pass.said["lowest"].connect
           p == EmitCommands(des, connect, lowest = "economics")
           e == [Empty(i, pass.k) EXCEPT !.plan = p]
           t == CheckBatterySafety(i, e)
           o == Arbitrated(i, pass, wired, lowest, des)
<1>1. DOMAIN p = {"batt", "connect", "solar", "ev", "breach"} /\ p.breach = NoBreach
  BY DEF EmitCommands, NoPlan
<1>2. GuardFields(pass.k) /\ Tallies(pass.k) /\ Reports(ns, i, k, pass.k, pass.breach)
  BY DEF Listened, Reports
<1> HIDE DEF connect, p
<1>3. CASE "battery-safety" \in wired
  <2> DEFINE last == IF t.plan.batt = NaN THEN t.g.lastBatt ELSE t.plan.batt
  <2>1. Fields(e) /\ e.g = pass.k /\ e.plan = p
    BY <1>1, <1>2, EmptyHasFields DEF Fields
  <2>2. /\ o.plan = [t.plan EXCEPT !.breach = pass.breach]
        /\ o.k = [t.g EXCEPT !.lastBatt = IF t.plan.batt = NaN THEN @ ELSE t.plan.batt]
    BY <1>3 DEF p, connect, Arbitrated, Emitted, Judged, PostArbitrate
  <2> HIDE DEF e
  <2>3. Booked(e)
    BY <1>1, <1>2, <2>1 DEF Booked, Complaint
  <2>4. Moves({}, e, t)
    BY <2>3, SafetyMoves
  <2> HIDE DEF t, o
  <2>5. Fields(t) /\ Tallies(t.g) /\ \A n \in Kinds : Book(t.g)[n] = Book(pass.k)[n]
    BY <2>1, <2>4 DEF Moves, Booked
  <2>6. o.plan.breach = pass.breach
    BY <2>2, <2>5 DEF Fields
  <2>7. o.k = [t.g EXCEPT !.lastBatt = last]
    BY <2>2, <2>5 DEF Fields
  <2> HIDE DEF last
  <2> DEFINE after == o.k
  <2>8. /\ after.gen = t.g.gen /\ after.ausGen = t.g.ausGen /\ after.imp = t.g.imp
        /\ after.zeroLever = t.g.zeroLever
        /\ after.ausLoad = t.g.ausLoad /\ after.expOver = t.g.expOver
    BY <2>5, <2>7 DEF Fields
  <2> HIDE DEF after
  <2>9. Tallies(after) /\ Book(after) = Book(t.g)
    BY <2>5, <2>8 DEF Tallies, Book
  <2> QED BY <1>2, <2>5, <2>6, <2>9 DEF Reports, after, o
<1>4. CASE "battery-safety" \notin wired
  <2>1. o.plan = [p EXCEPT !.breach = pass.breach] /\ o.k = pass.k
    BY <1>4 DEF p, connect, Arbitrated, Emitted, Judged
  <2>2. o.plan.breach = pass.breach
    BY <1>1, <2>1
  <2> QED BY <1>2, <2>1, <2>2
<1> QED BY <1>3, <1>4

LEMMA GatewayAnswers ==
    ASSUME NEW i, Input(i), NEW k, Levers(k), Tallies(k)
    PROVE  LET o == GatewayOptimize(i, k)
           IN  Reports({"exp", "imp", "max"}, i, k, o.k, o.plan.breach)
<1> DEFINE done == Complied(i, k, GatewayStack)
           said == CSIPPassthrough(i, done.k)
           pass == Heard(done, "lowest", said)
<1>1. PICK ns \in SUBSET Kinds : Listened(ns, i, k, done) /\ {"exp", "max", "imp"} \subseteq ns
  BY CompliedListens DEF Levers, GatewayStack
<1>2. GatewayOptimize(i, k)
        = Arbitrated(i, pass, GatewayStack, "csip-passthrough", Resolved(pass.said))
  BY DEF GatewayOptimize, RunStack, Finished
<1> HIDE DEF done
<1>3. said.k = done.k /\ said.breach = NoBreach
  BY DEF CSIPPassthrough, Opinion
<1> HIDE DEF said
<1>4. Listened(ns, i, k, pass)
  BY <1>1, <1>3, HeardListens
<1> HIDE DEF pass
<1>5. LET o == GatewayOptimize(i, k) IN Reports(ns, i, k, o.k, o.plan.breach)
  BY <1>2, <1>4, ArbitratedReports
<1> QED BY <1>1, <1>5 DEF Reports

LEMMA CandidateAnswers ==
    ASSUME NEW i, Input(i), NEW k, Levers(k), Tallies(k),
           {"export", "gen", "import", "gen-aus", "load-aus"} \subseteq Wired
    PROVE  LET o == CandidateOptimize(i, k)
           IN  Reports(Kinds, i, k, o.k, o.plan.breach)
<1> DEFINE done == Complied(i, k, Wired)
           said == EconomicsConstraint(i, done.k)
           pass == Heard(done, "lowest", said)
<1>1. PICK ns \in SUBSET Kinds :
         /\ Listened(ns, i, k, done) /\ {"exp", "max", "imp"} \subseteq ns
         /\ "gen" \in ns /\ "load" \in ns
  BY CompliedListens DEF Levers
<1>2. CASE "economics" \in Wired
  <2>1. CandidateOptimize(i, k)
          = Arbitrated(i, pass, Wired, "economics", Resolved(pass.said))
    BY <1>2 DEF CandidateOptimize, RunStack, Finished
  <2> HIDE DEF done
  <2>2. said.k = done.k /\ said.breach = NoBreach
    BY DEF EconomicsConstraint, EconomicDemands, Opinion
  <2> HIDE DEF said
  <2>3. Listened(ns, i, k, pass)
    BY <1>1, <2>2, HeardListens
  <2> HIDE DEF pass
  <2>4. LET o == CandidateOptimize(i, k) IN Reports(ns, i, k, o.k, o.plan.breach)
    BY <2>1, <2>3, ArbitratedReports
  <2> QED BY <1>1, <2>4 DEF Reports, Kinds
<1>3. CASE "economics" \notin Wired
  <2>1. CandidateOptimize(i, k)
          = Arbitrated(i, done, Wired, "economics", Resolved(done.said))
    BY <1>3 DEF CandidateOptimize, RunStack, Finished
  <2> HIDE DEF done
  <2>2. LET o == CandidateOptimize(i, k) IN Reports(ns, i, k, o.k, o.plan.breach)
    BY <1>1, <2>1, ArbitratedReports
  <2> QED BY <1>1, <2>2 DEF Reports, Kinds
<1> QED BY <1>2, <1>3

-----------------------------------------------------------------------------
\* A stack that takes over any axis takes over the report of every kind.
ReportsAreWired ==
    \A on \in ActiveSets :
        on # {} => {"export", "gen", "import", "gen-aus", "load-aus"} \subseteq on

\* An author with guards k has counted at least what an observer has, who saw i
\* last, of the same limits.
Ahead(k, ns, i, count) ==
    \A n \in ns : count[n] > 0 =>
        /\ i.lim[n] # NaN
        /\ n # "exp" => Book(k)[n].limit = i.lim[n]
        /\ count[n] <= Book(k)[n].over
Observing(count) ==
    /\ DOMAIN count = {"exp", "imp", "max", "gen", "load", "drain"}
    /\ \A n \in Kinds : count[n] \in 0..Ticks

ReportInv ==
    /\ Tallies(g) /\ Tallies(gate) /\ (active # {} => Tallies(cand))
    /\ mode \in {"optimizer", "gateway"} /\ Observing(streak)
    /\ mode = "optimizer" => Ahead(g, Kinds, seen, streak)
    /\ mode = "optimizer" /\ active # {} /\ ~latched => Ahead(cand, Kinds, seen, streak)
    /\ mode = "gateway" => Ahead(gate, {"exp", "imp", "max"}, seen, streak)
    /\ EveryAuthorReports

LEMMA NothingObserved ==
    /\ Observing(NoStreak) /\ Ticks \in Nat \ {0}
    /\ \A k, i : \A ns \in SUBSET Kinds : Ahead(k, ns, i, NoStreak)
<1>1. Ticks \in Nat \ {0}
  BY CascadeAssumption
<1>2. \A n \in Kinds : NoStreak[n] = 0
  BY DEF NoStreak, Kinds
<1> QED BY <1>1, <1>2 DEF Observing, Ahead, NoStreak

LEMMA StreakOf ==
    ASSUME NEW i, Observing(streak), NEW n \in Kinds
    PROVE  LET same == n = "exp" \/ (seen # NaN /\ seen.lim[n] = i.lim[n])
               hidden == n \in {"exp", "imp", "load"} /\ i.net = NaN
               go == hidden /\ same /\ (n = "exp" => i.lim.exp # NaN)
           IN  /\ go => Streak(i)[n] = streak[n]
               /\ ~go /\ ~hidden /\ Miss(i)[n] =>
                     Streak(i)[n] = Least(Ticks, 1 + (IF same THEN streak[n] ELSE 0))
               /\ ~go /\ ~(~hidden /\ Miss(i)[n]) => Streak(i)[n] = 0
<1>1. n \in DOMAIN streak /\ n # "drain"
  BY DEF Observing, Kinds
<1> QED BY <1>1 DEF Streak

LEMMA StreakObserves ==
    ASSUME NEW i, Observing(streak)
    PROVE  Observing(Streak(i))
<1>1. DOMAIN Streak(i) = DOMAIN streak
  BY DEF Streak
<1>2. ASSUME NEW n \in Kinds PROVE Streak(i)[n] \in 0..Ticks
  <2>1. streak[n] \in 0..Ticks /\ Ticks \in Nat \ {0}
    BY CascadeAssumption DEF Observing
  <2> DEFINE same == n = "exp" \/ (seen # NaN /\ seen.lim[n] = i.lim[n])
             m == IF same THEN streak[n] ELSE 0
  <2>2. Least(Ticks, 1 + m) \in 0..Ticks
    <3>1. m \in 0..Ticks
      BY <2>1
    <3> HIDE DEF m
    <3> QED BY <2>1, <3>1 DEF Least
  <2>3. Streak(i)[n] \in {streak[n], Least(Ticks, 1 + m), 0}
    BY StreakOf
  <2> HIDE DEF m
  <2> QED BY <2>1, <2>2, <2>3
<1> QED BY <1>1, <1>2 DEF Observing

\* An author that answers stays ahead, and reports what the observer finds due.
LEMMA StaysAhead ==
    ASSUME NEW i, Observing(streak), NEW ns \in SUBSET Kinds, NEW k, Tallies(k),
           Ahead(k, ns, seen, streak), NEW after, NEW b, Reports(ns, i, k, after, b)
    PROVE  /\ Ahead(after, ns, i, Streak(i))
           /\ \A n \in ns : Streak(i)[n] >= Ticks /\ Miss(i)[n] => b # NoBreach
<1> SUFFICES ASSUME NEW n \in ns, Streak(i)[n] > 0
             PROVE  /\ i.lim[n] # NaN /\ (n # "exp" => Book(after)[n].limit = i.lim[n])
                    /\ Streak(i)[n] <= Book(after)[n].over
                    /\ Streak(i)[n] >= Ticks /\ Miss(i)[n] => b # NoBreach
  <2>1. Ticks \in Nat \ {0}
    BY CascadeAssumption
  <2>2. \A n \in ns : Streak(i)[n] \in 0..Ticks
    BY StreakObserves DEF Observing
  <2> QED BY <2>1, <2>2 DEF Ahead
<1> DEFINE same == n = "exp" \/ (seen # NaN /\ seen.lim[n] = i.lim[n])
           hidden == n \in {"exp", "imp", "load"} /\ i.net = NaN
           go == hidden /\ same /\ (n = "exp" => i.lim.exp # NaN)
           before == Book(k)[n]
           past == Book(after)[n]
           carried == Carried(n, i, before)
<1>1. /\ Ticks \in Nat \ {0} /\ streak[n] \in 0..Ticks /\ n \in Kinds
      /\ Answers(n, i, before, past, b)
  BY CascadeAssumption DEF Observing, Reports
<1>2. /\ go => Streak(i)[n] = streak[n]
      /\ ~go => ~hidden /\ Miss(i)[n]
                /\ Streak(i)[n] = Least(Ticks, 1 + (IF same THEN streak[n] ELSE 0))
  BY <1>1, StreakOf
<1>3. before.over \in 0..Ticks /\ carried \in 0..Ticks
  <2>1. before.over \in 0..Ticks
    BY <1>1 DEF Tallies, Cap, Book, Kinds
  <2> QED BY <1>1, <2>1 DEF Carried
<1>4. same /\ streak[n] > 0 => carried >= streak[n]
  <2> SUFFICES ASSUME same, streak[n] > 0 PROVE carried >= streak[n]
    OBVIOUS
  <2>1. streak[n] <= before.over /\ (n # "exp" => before.limit = seen.lim[n])
    BY DEF Ahead
  <2>2. carried = before.over
    BY <2>1 DEF Carried
  <2> QED BY <2>1, <2>2
<1>5. i.lim[n] # NaN
  <2>1. CASE go /\ n = "exp"
    BY <2>1
  <2>2. CASE go /\ n # "exp"
    BY <1>2, <2>2 DEF Ahead
  <2>3. CASE ~go
    BY <1>1, <1>2, <2>3, Misses DEF Kinds
  <2> QED BY <2>1, <2>2, <2>3
<1>6. CASE go
  <2>1. past.over >= carried /\ past.over \in 0..Ticks
    BY <1>1, <1>5, <1>6 DEF Answers
  <2>2. streak[n] <= past.over
    <3> HIDE DEF past, carried
    <3> QED BY <1>1, <1>2, <1>3, <1>4, <1>6, <2>1
  <2>3. ~Miss(i)[n]
    BY <1>6, Misses
  <2>4. n # "exp" => past.limit = i.lim[n]
    BY <1>1 DEF Answers
  <2> QED BY <1>2, <1>5, <1>6, <2>2, <2>3, <2>4
<1>7. CASE ~go
  <2> DEFINE m == IF same THEN streak[n] ELSE 0
  <2>1. m \in 0..Ticks /\ m <= carried
    BY <1>1, <1>3, <1>4
  <2>2. /\ past.over >= Least(Ticks, 1 + carried) /\ past.over \in 0..Ticks
        /\ past.over >= Ticks => b # NoBreach
    BY <1>1, <1>2, <1>7 DEF Answers
  <2>3. Streak(i)[n] = Least(Ticks, 1 + m)
    BY <1>2, <1>7
  <2> HIDE DEF m, past, carried
  <2>4. /\ Streak(i)[n] <= past.over
        /\ Streak(i)[n] >= Ticks => b # NoBreach
    BY <1>1, <1>3, <2>1, <2>2, <2>3 DEF Least
  <2>5. n # "exp" => past.limit = i.lim[n]
    BY <1>1 DEF Answers, past
  <2> QED BY <1>5, <2>4, <2>5 DEF past
<1> QED BY <1>6, <1>7

\* An active stack's report is the report.
LEMMA ComposedReports ==
    ASSUME ReportsAreWired, NEW on \in ActiveSets, on # {}, NEW legacy, NEW asked, NEW by,
           Complaint(legacy.breach), Complaint(asked.breach)
    PROVE  Compose(legacy, asked, by, on).breach = asked.breach
<1>1. ASSUME NEW b, Complaint(b), b # NoBreach PROVE BreachOwner(b.kind) \in on
  <2>1. b.kind \in Complaints
    BY <1>1 DEF Complaint
  <2>2. {"export", "gen", "import", "gen-aus", "load-aus"} \subseteq on
    BY DEF ReportsAreWired
  <2> QED BY <2>1, <2>2 DEF Complaints, BreachOwner
<1>2. NoBreach.short = 0
  BY DEF NoBreach
<1>3. asked.breach.short \in Nat
  BY DEF Complaint, NoBreach
<1>4. ComposeBreach(legacy.breach, asked.breach, on) = asked.breach
  BY <1>1, <1>2, <1>3 DEF ComposeBreach
<1> QED BY <1>4 DEF Compose

LEMMA WiredCaps == ReportsAreWired => CapsAreWired
BY AuthorsAssumption DEF ReportsAreWired, CapsAreWired

LEMMA ReportsStart == InitAuthors => ReportInv
<1> SUFFICES ASSUME InitAuthors PROVE ReportInv
  OBVIOUS
<1>1. /\ g = InitGuards /\ cand = InitGuards /\ gate = InitGuards /\ streak = NoStreak
      /\ mode \in {"optimizer", "gateway"} /\ seen = NaN
  BY DEF InitAuthors, Init
<1>2. Tallies(InitGuards)
  BY NothingObserved DEF Tallies, InitGuards, NoCap, NoImport, NoAusLoad, Cap
<1>3. {"exp", "imp", "max"} \in SUBSET Kinds /\ Kinds \in SUBSET Kinds
  BY DEF Kinds
<1>4. EveryAuthorReports
  BY <1>1 DEF EveryAuthorReports
<1> QED BY <1>1, <1>2, <1>3, <1>4, NothingObserved DEF ReportInv

\* A tick in which an author went from guards k to guards after and reported b.
LEMMA TickReports ==
    ASSUME ReportInv, NEW i, NEW ns \in SUBSET Kinds, NEW k, Tallies(k),
           Ahead(k, ns, seen, streak), NEW after, NEW b,
           seen' = i, streak' = (IF i.cease THEN NoStreak ELSE Streak(i)),
           ~i.cease => Reports(ns, i, k, after, b)
    PROVE  /\ Observing(streak') /\ Ahead(after, ns, seen', streak')
           /\ \A n \in ns : streak'[n] >= Ticks /\ Miss(seen')[n] => b # NoBreach
<1>0. Observing(streak)
  BY DEF ReportInv
<1>1. CASE i.cease
  <2>1. \A n \in ns : ~(NoStreak[n] >= Ticks)
    <3>1. \A n \in ns : NoStreak[n] = 0
      BY DEF NoStreak, Kinds
    <3> QED BY <3>1, NothingObserved
  <2> QED BY <1>1, <2>1, NothingObserved
<1>2. CASE ~i.cease
  BY <1>0, <1>2, StreakObserves, StaysAhead
<1> QED BY <1>1, <1>2

LEMMA OptimizerReports ==
    ASSUME ReportsAreWired, CapsInv, ReportInv, OptimizerTick
    PROVE  ReportInv'
<1> DEFINE i == Observed
           legacy == Optimize(i, g)
           asked == CandidateOptimize(i, cand)
           composed == Compose(legacy.plan, asked.plan, asked.authors, active)
<1>1. /\ mode = "optimizer" /\ g' = legacy.g /\ gate' = gate
      /\ seen' = i /\ UNCHANGED <<mode, active>>
      /\ streak' = (IF i.cease THEN NoStreak ELSE Streak(i))
      /\ \/ plan' = legacy.plan /\ cand' = cand /\ latched'
         \/ /\ cand' = asked.k /\ ~latched
            /\ plan' = IF active = {} THEN legacy.plan ELSE composed
  BY DEF OptimizerTick, Actuated
<1>2. Input(i) /\ Levers(g) /\ Levers(cand) /\ active \in ActiveSets
  BY SiteNumbers DEF CapsInv
<1>3. Tallies(legacy.g) /\ (~i.cease => Reports(Kinds, i, g, legacy.g, legacy.plan.breach))
  BY <1>2, CascadeAnswers DEF ReportInv
<1>4. active # {} => Reports(Kinds, i, cand, asked.k, asked.plan.breach)
  <2> SUFFICES ASSUME active # {} PROVE Reports(Kinds, i, cand, asked.k, asked.plan.breach)
    OBVIOUS
  <2>1. {"export", "gen", "import", "gen-aus", "load-aus"} \subseteq Wired
    BY <1>2, AuthorsAssumption DEF ReportsAreWired
  <2>2. Tallies(cand)
    BY DEF ReportInv
  <2> QED BY <1>2, <2>1, <2>2, CandidateAnswers
<1> HIDE DEF i, legacy, asked
<1>5. /\ Observing(streak') /\ Ahead(g', Kinds, seen', streak')
      /\ \A n \in Kinds : streak'[n] >= Ticks /\ Miss(seen')[n] => legacy.plan.breach # NoBreach
  BY <1>1, <1>3, TickReports DEF ReportInv
<1>6. active # {} /\ ~latched =>
        /\ Ahead(asked.k, Kinds, seen', streak')
        /\ \A n \in Kinds : streak'[n] >= Ticks /\ Miss(seen')[n] => asked.plan.breach # NoBreach
  BY <1>1, <1>4, TickReports DEF ReportInv
<1>7. active # {} /\ ~i.cease => composed.breach = asked.plan.breach
  <2> SUFFICES ASSUME active # {}, ~i.cease PROVE composed.breach = asked.plan.breach
    OBVIOUS
  <2>1. Complaint(legacy.plan.breach) /\ Complaint(asked.plan.breach)
    BY <1>3, <1>4 DEF Reports
  <2> QED BY <1>2, <2>1, ComposedReports
<1> HIDE DEF composed
<1>8. \A n \in Kinds : streak'[n] >= Ticks /\ Miss(seen')[n] => plan'.breach # NoBreach
  <2>1. CASE plan' = legacy.plan
    BY <1>5, <2>1
  <2>2. CASE plan' = composed /\ active # {} /\ ~latched /\ ~i.cease
    BY <1>6, <1>7, <2>2
  <2>3. CASE i.cease
    <3>1. \A n \in Kinds : streak'[n] = 0
      BY <1>1, <2>3 DEF NoStreak, Kinds
    <3> QED BY <3>1, NothingObserved
  <2> QED BY <1>1, <2>1, <2>2, <2>3
<1>9. EveryAuthorReports'
  BY <1>1, <1>8 DEF EveryAuthorReports, LastingMissIsReported, Reported, Kinds
<1>10. active' # {} => Tallies(cand')
  BY <1>1, <1>4 DEF ReportInv, Reports
<1>11. active' # {} /\ ~latched' => Ahead(cand', Kinds, seen', streak')
  BY <1>1, <1>6
<1> QED BY <1>1, <1>3, <1>5, <1>9, <1>10, <1>11 DEF ReportInv

LEMMA GatewayReports ==
    ASSUME CapsInv, ReportInv, GatewayTick
    PROVE  ReportInv'
<1> DEFINE i == Observed
           o == GatewayOptimize(i, gate)
           ns == {"exp", "imp", "max"}
<1>1. /\ mode = "gateway" /\ g' = g /\ cand' = cand /\ gate' = o.k /\ plan' = o.plan
      /\ seen' = i /\ UNCHANGED <<mode, active, latched>>
      /\ streak' = (IF i.cease THEN NoStreak ELSE Streak(i))
  BY DEF GatewayTick, Actuated
<1>2. Input(i) /\ Levers(gate)
  BY SiteNumbers DEF CapsInv
<1>3. Reports(ns, i, gate, o.k, o.plan.breach)
  BY <1>2, GatewayAnswers DEF ReportInv
<1>4. ns \in SUBSET Kinds
  BY DEF Kinds
<1> HIDE DEF i, o, ns
<1>5. /\ Observing(streak') /\ Ahead(gate', ns, seen', streak')
      /\ \A n \in ns : streak'[n] >= Ticks /\ Miss(seen')[n] => o.plan.breach # NoBreach
  <2>1. Tallies(gate) /\ Ahead(gate, ns, seen, streak)
    BY <1>1 DEF ReportInv, ns
  <2> QED BY <1>1, <1>3, <1>4, <2>1, TickReports
<1>6. EveryAuthorReports'
  BY <1>1, <1>5 DEF EveryAuthorReports, Reported, ns
<1> QED BY <1>1, <1>3, <1>5, <1>6 DEF ReportInv, Reports, ns

LEMMA ReportsStep ==
    ReportsAreWired /\ CapsInv /\ ReportInv /\ [NextAuthors]_avars => ReportInv'
<1> SUFFICES ASSUME ReportsAreWired, CapsInv, ReportInv, [NextAuthors]_avars PROVE ReportInv'
  OBVIOUS
<1>1. CASE OptimizerTick
  BY <1>1, OptimizerReports
<1>2. CASE GatewayTick
  BY <1>2, GatewayReports
<1>3. CASE Flip
  <2>1. /\ seen' = NaN /\ streak' = NoStreak /\ mode' \in {"optimizer", "gateway"}
        /\ UNCHANGED <<g, cand, gate, active>>
    BY <1>3 DEF Flip
  <2>2. {"exp", "imp", "max"} \in SUBSET Kinds /\ Kinds \in SUBSET Kinds
    BY DEF Kinds
  <2>3. EveryAuthorReports'
    BY <2>1 DEF EveryAuthorReports
  <2> QED
    BY <2>1, <2>2, <2>3, NothingObserved DEF ReportInv
<1>4. CASE UNCHANGED <<g, cand, gate, plan, seen, streak, mode, active, latched>>
  <2>1. EveryAuthorReports'
    BY <1>4 DEF ReportInv, EveryAuthorReports, LastingMissIsReported, Reported
  <2> QED BY <1>4, <2>1 DEF ReportInv
<1>5. Between /\ UNCHANGED authors =>
        UNCHANGED <<g, cand, gate, plan, seen, streak, mode, active, latched>>
  BY DEF Between, FastTick, Drift, Weather, Breakdown, Control, Economy, Becomes, authors
<1>6. UNCHANGED avars => UNCHANGED <<g, cand, gate, plan, seen, streak, mode, active, latched>>
  BY DEF avars, vars, authors
<1> QED
  BY <1>1, <1>2, <1>3, <1>4, <1>5, <1>6 DEF NextAuthors

\* A limit that has been missed in Ticks observations in a row is reported by
\* the author in charge on every tick that still sees the miss, whoever that is
\* and however limits, devices and meter change meanwhile: the counts of the
\* cascade's checks, of the constraints and of the gateway's stack lag behind no
\* observer's (checkExportCompliance to checkAusLoadCompliance, the constraints'
\* evaluations and composeShadowPlan's breach), provided that a stack that is
\* active at all has all five limits.
THEOREM LastingMissesAreReported == ReportsAreWired => (SpecAuthors => []EveryAuthorReports)
<1> SUFFICES ASSUME ReportsAreWired PROVE SpecAuthors => []EveryAuthorReports
  OBVIOUS
<1>1. InitAuthors => CapsInv /\ ReportInv
  BY CapsStart, ReportsStart
<1>2. CapsInv /\ ReportInv /\ [NextAuthors]_avars => CapsInv' /\ ReportInv'
  BY CapsStep, WiredCaps, ReportsStep
<1>3. ReportInv => EveryAuthorReports
  BY DEF ReportInv
<1> QED
  BY <1>1, <1>2, <1>3, PTL DEF SpecAuthors
-----------------------------------------------------------------------------
(* Those who ask from outside: commands of the cloud and requests of the   *)
(* app, for any kinds of intents, allowances, requests and failures.       *)

States == {"new", "publishing", "sent", "waiting", "answered", "failed", "pending"}
Open == {"publishing", "sent", "waiting"}
Brim == Burst * RefillEvery
Buckets == [level : Nat, last : Nat]

\* What is left in a bucket and what was taken from it since any admission fit
\* in a full one and what has dripped in since; so do the admissions between
\* any two.
Spending(times, b) ==
    \A i \in 1..Len(times) :
        /\ times[i] <= b.last
        /\ b.level + (Len(times) - i + 1) * RefillEvery <= Brim + (b.last - times[i])

Spaced(times) ==
    \A i, j \in 1..Len(times) : i <= j =>
        /\ times[i] <= times[j]
        /\ (j - i + 1) * RefillEvery <= Brim + (times[j] - times[i])

Sound(times, b, t) ==
    /\ times \in Seq(Nat) /\ b \in Buckets
    /\ b.level <= Brim /\ b.last <= t
    /\ Spending(times, b) /\ Spaced(times)

AllowanceInv ==
    /\ now \in Nat
    /\ DOMAIN bucket = Intents /\ DOMAIN admitted = Intents
    /\ bucket = [k \in Intents |-> bucket[k]]
    /\ admitted = [k \in Intents |-> admitted[k]]
    /\ \A k \in Intents : Sound(admitted[k], bucket[k], now)

\* All that is on record, if only as a failed or lost line; what each loss of the
\* buffer may take of the lines whose Append went well.
OnRecord(r) == r.synced \cup OnLines(r.waiting) \cup r.refused \cup r.dropped
PerCut == SyncEvery - 1
RecordFits(r) ==
    /\ \E S : r.waiting \in Seq(S)
    /\ IsFiniteSet(r.dropped) /\ r.cuts \in Nat
    /\ Cardinality(OnLines(r.waiting) \ r.refused) < SyncEvery
    /\ Cardinality(r.dropped \ r.refused) <= r.cuts * PerCut

Recorded(r) ==
    \E a, w, k, f, d, n : r = [synced |-> a, waiting |-> w, stuck |-> k,
                              refused |-> f, dropped |-> d, cuts |-> n]
RecordInv(r) == Recorded(r) /\ RecordFits(r)

\* Whatever is on its way to the hub is on record, or an app's.
AuditInv ==
    /\ RecordInv(record)
    /\ bus \in Seq(Requests \cup OnRecord(record))
    /\ heard \subseteq Requests \cup OnRecord(record)
    /\ handling.kind \in Intents => handling.id \in OnRecord(record)

\* A request is expected or its result is there, not both, for as long as its
\* caller waits.
RepliesInv ==
    /\ req \in [Requests -> States]
    /\ \A q \in Requests :
          /\ q \in pending => q \notin box /\ req[q] \in Open
          /\ req[q] \in Open => q \in pending \cup box
          /\ req[q] = "new" => q \notin box

DownlinkInv == scene \in Scenes /\ AllowanceInv /\ AuditInv /\ RepliesInv
-----------------------------------------------------------------------------
(* The allowance.                                                          *)

LEMMA FullIsNat == RefillEvery \in Nat \ {0} /\ Burst \in Nat /\ Brim \in Nat
  BY DownlinkAssumption DEF Brim

LEMMA OneMore ==
  ASSUME NEW R \in Nat, NEW m \in Int
  PROVE  m * R \in Int /\ (m + 1) * R = m * R + R
  OBVIOUS

LEMMA NewBucket ==
  ASSUME now \in Nat
  PROVE  Sound(<<>>, FullBucket, now)
  <1>1. FullBucket \in Buckets /\ FullBucket.level = Brim /\ FullBucket.last = now
    BY FullIsNat DEF FullBucket, Buckets, Brim
  <1>2. <<>> \in Seq(Nat) /\ Len(<<>>) = 0
    OBVIOUS
  <1> QED
    BY <1>1, <1>2, FullIsNat DEF Sound, Spending, Spaced

LEMMA RefillStaysSound ==
  ASSUME now \in Nat, NEW times, NEW b, Sound(times, b, now)
  PROVE  Sound(times, Refilled(b), now) /\ Refilled(b).last = now
  <1> DEFINE R == RefillEvery
             full == b.level + (now - b.last)
  <1>1. b.level \in Nat /\ b.last \in Nat /\ b.last <= now /\ full \in Nat
    BY DEF Sound, Buckets
  <1>2. Refilled(b) = [level |-> IF full > Brim THEN Brim ELSE full, last |-> now]
    BY DEF Refilled, Brim
  <1>3. /\ Refilled(b) \in Buckets /\ Refilled(b).last = now
        /\ Refilled(b).level <= Brim /\ Refilled(b).level <= full
    BY <1>1, <1>2, FullIsNat DEF Buckets
  <1>4. Spending(times, Refilled(b))
    <2> SUFFICES ASSUME NEW i \in 1..Len(times)
                 PROVE  /\ times[i] <= now
                        /\ Refilled(b).level + (Len(times) - i + 1) * R
                              <= Brim + (now - times[i])
      BY <1>3 DEF Spending
    <2>1. /\ times[i] \in Nat /\ Len(times) \in Nat /\ times[i] <= b.last
          /\ b.level + (Len(times) - i + 1) * R <= Brim + (b.last - times[i])
      BY DEF Sound, Spending
    <2>2. (Len(times) - i + 1) * R \in Int
      BY <2>1, FullIsNat
    <2>3. Refilled(b).level \in Nat
      BY <1>3 DEF Buckets
    <2> DEFINE taken == (Len(times) - i + 1) * R
               level == Refilled(b).level
               t == times[i]
    <2>4. /\ taken \in Int /\ level \in Nat /\ t \in Nat /\ t <= b.last
          /\ b.level + taken <= Brim + (b.last - t)
          /\ level <= b.level + (now - b.last)
      BY <1>3, <2>1, <2>2, <2>3
    <2> HIDE DEF R, taken, level, t, full
    <2>5. t <= now
      BY <1>1, <2>4
    <2>6. level + taken <= Brim + (now - t)
      <3>1. Brim \in Int /\ b.level \in Int /\ b.last \in Int
        BY <1>1, FullIsNat
      <3>2. level + taken <= (b.level + taken) + (now - b.last)
        BY <1>1, <2>4
      <3> QED
        BY <2>4, <3>1, <3>2
    <2> QED
      BY <2>5, <2>6 DEF taken, level, t
  <1> QED
    BY <1>3, <1>4 DEF Sound

LEMMA SpendStaysSound ==
  ASSUME now \in Nat, NEW times, NEW b, Sound(times, b, now), Allowed(b)
  PROVE  Sound(Append(times, now), Spent(b), now)
  <1> DEFINE R == RefillEvery
             n == Len(times)
             c == Refilled(b)
             d == Spent(b)
             more == Append(times, now)
  <1>1. Sound(times, c, now) /\ c.last = now
    BY RefillStaysSound
  <1>2. c \in Buckets /\ c.level \in Nat /\ c.level >= R /\ times \in Seq(Nat) /\ n \in Nat
    BY <1>1 DEF Sound, Buckets, Allowed
  <1>3. d = [level |-> c.level - R, last |-> now]
    BY <1>1, <1>2 DEF Spent, Buckets
  <1>4. d \in Buckets /\ d.level = c.level - R /\ d.last = now /\ d.level <= Brim
    BY <1>1, <1>2, <1>3, FullIsNat DEF Sound, Buckets
  <1>5. /\ more \in Seq(Nat) /\ Len(more) = n + 1
        /\ \A i \in 1..n : more[i] = times[i]
        /\ more[n + 1] = now
    BY <1>2
  <1> HIDE DEF c, d, more
  <1>6. \A i \in 1..n : /\ times[i] \in Nat /\ times[i] <= now
                        /\ c.level + (n - i + 1) * R <= Brim + (now - times[i])
    BY <1>1 DEF Sound, Spending
  <1>7. Spending(more, d)
    <2> SUFFICES ASSUME NEW i \in 1..(n + 1)
                 PROVE  /\ more[i] <= now
                        /\ d.level + ((n + 1) - i + 1) * R <= Brim + (now - more[i])
      BY <1>4, <1>5 DEF Spending
    <2>1. CASE i = n + 1
      <3>1. ((n + 1) - i + 1) * R = R
        BY <1>2, <2>1, FullIsNat
      <3>2. c.level <= Brim
        BY <1>1 DEF Sound
      <3> QED
        BY <1>2, <1>4, <1>5, <2>1, <3>1, <3>2, FullIsNat
    <2>2. CASE i \in 1..n
      <3>1. ((n + 1) - i + 1) * R = (n - i + 1) * R + R /\ (n - i + 1) * R \in Int
        <4> DEFINE m == n - i + 1
        <4>1. m \in Int /\ (n + 1) - i + 1 = m + 1
          BY <1>2, <2>2
        <4> HIDE DEF m
        <4>2. (m + 1) * R = m * R + R /\ m * R \in Int
          BY <4>1, FullIsNat, OneMore
        <4> QED
          BY <4>1, <4>2 DEF m
      <3> DEFINE taken == (n - i + 1) * R
                 most == ((n + 1) - i + 1) * R
                 level == c.level
                 left == d.level
                 t == times[i]
      <3>2. /\ taken \in Int /\ most = taken + R /\ level \in Nat /\ left = level - R
            /\ t \in Nat /\ t <= now /\ more[i] = t
            /\ level + taken <= Brim + (now - t)
        BY <1>2, <1>4, <1>5, <1>6, <2>2, <3>1
      <3> HIDE DEF R, taken, most, level, left, t
      <3>3. t <= now /\ left + most <= Brim + (now - t)
        <4>1. R \in Nat
          BY FullIsNat DEF R
        <4> QED
          BY <3>2, <4>1, FullIsNat
      <3> QED
        BY <3>2, <3>3 DEF most, left
    <2> QED
      BY <1>2, <2>1, <2>2
  <1>8. Spaced(more)
    <2> SUFFICES ASSUME NEW i \in 1..(n + 1), NEW j \in 1..(n + 1), i <= j
                 PROVE  /\ more[i] <= more[j]
                        /\ (j - i + 1) * R <= Brim + (more[j] - more[i])
      BY <1>5 DEF Spaced
    <2>1. CASE j \in 1..n
      <3>1. i \in 1..n
        BY <1>2, <2>1
      <3> QED
        BY <1>1, <1>5, <2>1, <3>1 DEF Sound, Spaced
    <2>2. CASE j = n + 1
      <3>1. d.level + ((n + 1) - i + 1) * R <= Brim + (now - more[i]) /\ more[i] <= now
        BY <1>4, <1>5, <1>7 DEF Spending
      <3>2. ((n + 1) - i + 1) * R \in Int /\ more[i] \in Nat /\ d.level \in Nat
        BY <1>2, <1>4, <1>5, FullIsNat DEF Buckets
      <3> DEFINE taken == ((n + 1) - i + 1) * R
                 left == d.level
                 t == more[i]
      <3>3. /\ taken \in Int /\ left \in Nat /\ t \in Nat
            /\ left + taken <= Brim + (now - t) /\ t <= now
        BY <3>1, <3>2
      <3> HIDE DEF taken, left, t
      <3>4. taken <= Brim + (now - t)
        BY <3>3, FullIsNat
      <3> QED
        BY <1>5, <2>2, <3>3, <3>4 DEF taken, t
    <2> QED
      BY <1>2, <2>1, <2>2
  <1>9. now <= now
    OBVIOUS
  <1>10. Len(more) = n + 1 /\ more \in Seq(Nat) /\ d \in Buckets /\ d.level <= Brim /\ d.last <= now
    BY <1>4, <1>5, <1>9
  <1>11. Sound(more, d, now)
    BY <1>7, <1>8, <1>10 DEF Sound
  <1> QED
    BY <1>11 DEF more, d

\* As the code counts it, in tokens.
LEMMA DivBounds ==
  ASSUME NEW R \in Nat \ {0}, NEW m \in Int, NEW d \in Nat, m * R <= d
  PROVE  m <= d \div R
  <1> DEFINE q == d \div R
  <1>1. q \in Int /\ d < (q + 1) * R
    OBVIOUS
  <1>2. m * R < (q + 1) * R
    BY <1>1
  <1> HIDE DEF q
  <1>3. ~(m >= q + 1)
    <2> SUFFICES ASSUME m >= q + 1 PROVE FALSE
      OBVIOUS
    <2>1. m * R >= (q + 1) * R
      BY <1>1
    <2> QED
      BY <1>1, <1>2, <2>1
  <1>4. m <= q
    BY <1>1, <1>3
  <1> QED
    BY <1>4 DEF q

LEMMA AllowanceHolds == AllowanceInv => AllowanceKept
  <1> SUFFICES ASSUME AllowanceInv, NEW k \in Intents,
                      NEW i \in DOMAIN admitted[k], NEW j \in DOMAIN admitted[k], i <= j
               PROVE  (j - i + 1) <= Burst
                         + (admitted[k][j] - admitted[k][i]) \div RefillEvery
    BY DEF AllowanceKept
  <1> DEFINE times == admitted[k]
             d == times[j] - times[i]
             m == j - i + 1 - Burst
  <1>1. times \in Seq(Nat) /\ Spaced(times)
    BY DEF AllowanceInv, Sound
  <1>2. /\ i \in 1..Len(times) /\ j \in 1..Len(times) /\ Len(times) \in Nat
        /\ times[i] \in Nat /\ times[j] \in Nat
    BY <1>1
  <1>3. i \in Nat /\ j \in Nat /\ Burst \in Nat
    BY <1>2, FullIsNat
  <1>4. times[i] <= times[j] /\ (j - i + 1) * RefillEvery <= Brim + d
    BY <1>1, <1>2 DEF Spaced
  <1>5. d \in Nat /\ m \in Int /\ d \in Int
    BY <1>2, <1>3, <1>4
  <1>6. m * RefillEvery <= d
    <2> DEFINE l == j - i + 1
               left == m * RefillEvery
               taken == l * RefillEvery
    <2>1. l \in Int /\ m = l - Burst
      BY <1>3
    <2> HIDE DEF l, m
    <2>2. left = taken - Brim /\ taken \in Int /\ left \in Int
      BY <2>1, FullIsNat DEF Brim
    <2>3. taken <= Brim + d
      BY <1>4 DEF l
    <2> HIDE DEF left, taken, d
    <2> QED
      BY <1>5, <2>2, <2>3, FullIsNat DEF left
  <1> HIDE DEF d, m
  <1>7. m <= d \div RefillEvery
    BY <1>5, <1>6, FullIsNat, DivBounds
  <1>8. d \div RefillEvery \in Int
    BY <1>5, FullIsNat
  <1> QED
    BY <1>3, <1>7, <1>8 DEF m, d

\* The handler spends a token of a kind, looks at a bucket that has none, or
\* touches none.
LEMMA HandleKeepsAllowance ==
  ASSUME AllowanceInv, now' = now, NEW cmd, Reject(cmd) \/ Accept(cmd) \/ StartDiag(cmd)
  PROVE  AllowanceInv'
  <1>1. now \in Nat /\ DOMAIN bucket = Intents /\ DOMAIN admitted = Intents
    BY DEF AllowanceInv
  <1>2. ASSUME NEW k \in Intents PROVE Sound(admitted[k], bucket[k], now)
    BY <1>2 DEF AllowanceInv
  <1>3. CASE UNCHANGED <<bucket, admitted>>
    BY <1>3 DEF AllowanceInv
  <1>4. CASE /\ cmd.kind \in Intents /\ admitted' = admitted
             /\ bucket' = [bucket EXCEPT ![cmd.kind] = Refilled(@)]
    <2> DEFINE b == Refilled(bucket[cmd.kind])
    <2>1. Sound(admitted[cmd.kind], b, now)
      BY <1>1, <1>2, <1>4, RefillStaysSound
    <2> HIDE DEF b
    <2>2. bucket' = [k \in Intents |-> IF k = cmd.kind THEN b ELSE bucket[k]]
      BY <1>1, <1>4 DEF b
    <2>3. ASSUME NEW k \in Intents PROVE Sound(admitted'[k], bucket'[k], now)
      BY <1>2, <1>4, <2>1, <2>2
    <2>4. DOMAIN bucket' = Intents /\ bucket' = [k \in Intents |-> bucket'[k]]
      BY <2>2
    <2> QED
      BY <1>4, <2>3, <2>4 DEF AllowanceInv
  <1>5. CASE Accept(cmd)
    <2> DEFINE b == Spent(bucket[cmd.kind])
               more == Append(admitted[cmd.kind], now)
    <2>1. /\ cmd.kind \in Intents /\ Allowed(bucket[cmd.kind])
          /\ bucket' = [bucket EXCEPT ![cmd.kind] = b]
          /\ admitted' = [admitted EXCEPT ![cmd.kind] = more]
      BY <1>5 DEF Accept
    <2>2. Sound(more, b, now)
      BY <1>1, <1>2, <2>1, SpendStaysSound
    <2> HIDE DEF b, more
    <2>3. /\ bucket' = [k \in Intents |-> IF k = cmd.kind THEN b ELSE bucket[k]]
          /\ admitted' = [k \in Intents |-> IF k = cmd.kind THEN more ELSE admitted[k]]
      BY <1>1, <2>1
    <2>4. ASSUME NEW k \in Intents PROVE Sound(admitted'[k], bucket'[k], now)
      BY <1>2, <2>2, <2>3
    <2>5. /\ DOMAIN bucket' = Intents /\ bucket' = [k \in Intents |-> bucket'[k]]
          /\ DOMAIN admitted' = Intents /\ admitted' = [k \in Intents |-> admitted'[k]]
      BY <2>3
    <2> QED
      BY <1>1, <2>4, <2>5 DEF AllowanceInv
  <1> QED
    BY <1>3, <1>4, <1>5 DEF Reject, StartDiag

\* A process starts with full buckets and nothing admitted.
LEMMA RestartKeepsAllowance ==
  ASSUME now \in Nat, now' = now,
         bucket' = [k \in Intents |-> FullBucket], admitted' = [k \in Intents |-> <<>>]
  PROVE  AllowanceInv'
  <1>1. Sound(<<>>, FullBucket, now)
    BY NewBucket
  <1> QED
    BY <1>1 DEF AllowanceInv

LEMMA AllowanceStarts == InitDownlink => AllowanceInv
  <1> SUFFICES ASSUME InitDownlink PROVE AllowanceInv
    OBVIOUS
  <1>1. now \in Nat /\ Sound(<<>>, FullBucket, now)
    BY NewBucket DEF InitDownlink
  <1> QED
    BY <1>1 DEF AllowanceInv, InitDownlink

LEMMA StepKeepsAllowance ==
  ASSUME AllowanceInv, DownlinkStep
  PROVE  AllowanceInv'
  <1>1. CASE Tick
    <2>1. now' \in Nat /\ now' >= now /\ UNCHANGED <<bucket, admitted>>
      BY <1>1 DEF Tick, cloudSide, AllowanceInv
    <2>2. ASSUME NEW k \in Intents PROVE Sound(admitted[k], bucket[k], now')
      <3>1. Sound(admitted[k], bucket[k], now) /\ now \in Nat
        BY DEF AllowanceInv
      <3>2. bucket[k].last \in Nat /\ bucket[k].last <= now
        BY <3>1 DEF Sound, Buckets
      <3>3. bucket[k].last <= now'
        BY <2>1, <3>1, <3>2
      <3> QED
        BY <3>1, <3>3 DEF Sound
    <2> QED
      BY <2>1, <2>2 DEF AllowanceInv
  <1>2. CASE Handle
    <2>1. PICK cmd : Reject(cmd) \/ Accept(cmd) \/ StartDiag(cmd)
      BY <1>2 DEF Handle
    <2> QED
      BY <1>2, <2>1, HandleKeepsAllowance DEF Handle
  <1>3. CASE RestartCloudlink
    BY <1>3, RestartKeepsAllowance DEF RestartCloudlink, AllowanceInv
  <1>4. CASE UNCHANGED <<now, bucket, admitted>>
    BY <1>4 DEF AllowanceInv
  <1>5. RunDownlink \/ SessionDrops \/ SessionReturns \/ CloudSends =>
           UNCHANGED <<now, bucket, admitted>>
    BY DEF RunDownlink, SessionDrops, SessionReturns, CloudSends
  <1>6. Forward \/ EndDiag \/ HubHandles => UNCHANGED <<now, bucket, admitted>>
    BY DEF Forward, EndDiag, HubHandles, ElsewhereUnchanged, cloudSide
  <1>7. ASSUME NEW q \in scene.requests, ApiStep(q) PROVE UNCHANGED <<now, bucket, admitted>>
    BY <1>7 DEF ApiStep, Post, BrokerHas, Published, ResultArrives, Answer, Pending,
                ElsewhereUnchanged, cloudSide
  <1> QED
    BY <1>1, <1>2, <1>3, <1>4, <1>5, <1>6, <1>7 DEF DownlinkStep
-----------------------------------------------------------------------------
(* The record, and the replies.                                            *)

LEMMA SeqOfMore ==
  ASSUME NEW S, NEW T, S \subseteq T, NEW s \in Seq(S)
  PROVE  s \in Seq(T)
  <1>1. Len(s) \in Nat /\ s = [i \in 1..Len(s) |-> s[i]]
    OBVIOUS
  <1>2. \A i \in 1..Len(s) : s[i] \in T
    BY ElementOfSeq
  <1> QED
    BY <1>1, <1>2, IsASeq

LEMMA RequestsOfScene ==
  ASSUME scene \in Scenes
  PROVE  scene.requests \subseteq Requests
  BY DownlinkAssumption

LEMMA BatchIsNat == SyncEvery \in Nat \ {0} /\ PerCut \in Nat
  BY DownlinkAssumption DEF PerCut

LEMMA LinesAreFinite ==
  ASSUME NEW S, NEW s \in Seq(S)
  PROVE  IsFiniteSet(OnLines(s)) /\ Cardinality(OnLines(s)) <= Len(s)
  <1> DEFINE f == [i \in 1..Len(s) |-> s[i].id]
  <1>1. Len(s) \in Nat /\ DOMAIN s = 1..Len(s)
    OBVIOUS
  <1>2. IsFiniteSet(1..Len(s)) /\ Cardinality(1..Len(s)) = Len(s)
    BY <1>1, FS_Interval
  <1>3. f \in Surjection(1..Len(s), OnLines(s))
    BY <1>1 DEF Surjection, OnLines
  <1>4. IsFiniteSet(OnLines(s)) /\ Cardinality(OnLines(s)) <= Cardinality(1..Len(s))
    BY <1>2, <1>3, FS_Surjection
  <1> QED
    BY <1>2, <1>4

LEMMA LinesOfCut ==
  ASSUME NEW S, NEW s \in Seq(S), NEW k \in 0..Len(s)
  PROVE  OnLines(SubSeq(s, 1, k)) \cup OnLines(SubSeq(s, k + 1, Len(s))) = OnLines(s)
  <1> DEFINE t == SubSeq(s, k + 1, Len(s))
  <1>1. /\ Len(s) \in Nat /\ k \in Nat /\ DOMAIN s = 1..Len(s)
        /\ SubSeq(s, 1, k) = [i \in 1..k |-> s[i]]
    OBVIOUS
  <1>a. DOMAIN t = 1..(Len(s) - k) /\ \A i \in 1..(Len(s) - k) : t[i] = s[i + k]
    <2>1. /\ t \in Seq(S) /\ Len(t) = Len(s) - k
          /\ \A i \in 1..(Len(s) - k) : t[i] = s[(k + 1) + i - 1]
      <3>1. k + 1 \in 1..(Len(s) + 1) /\ Len(s) \in (k + 1) - 1..Len(s)
        BY <1>1
      <3>2. /\ Len(t) = (IF k + 1 <= Len(s) THEN Len(s) - (k + 1) + 1 ELSE 0)
            /\ \A i \in 1..(Len(s) - (k + 1) + 1) : t[i] = s[(k + 1) + i - 1]
            /\ t \in Seq(S)
        BY <3>1, SubSeqProperties
      <3> HIDE DEF t
      <3>3. Len(s) - (k + 1) + 1 = Len(s) - k
        BY <1>1
      <3>4. (IF k + 1 <= Len(s) THEN Len(s) - (k + 1) + 1 ELSE 0) = Len(s) - k
        <4>1. k <= Len(s)
          OBVIOUS
        <4>2. CASE k + 1 <= Len(s)
          BY <3>3, <4>2
        <4>3. CASE k = Len(s)
          BY <1>1, <4>3
        <4> DEFINE n == Len(s)
        <4>5. k \in Nat /\ n \in Nat /\ k <= n
          BY <4>1
        <4> HIDE DEF n
        <4>6. k + 1 <= n \/ k = n
          BY <4>5
        <4>4. k + 1 <= Len(s) \/ k = Len(s)
          BY <4>6 DEF n
        <4> QED
          BY <4>2, <4>3, <4>4
      <3> QED
        BY <3>2, <3>3, <3>4
    <2>2. \A i \in 1..(Len(s) - k) : (k + 1) + i - 1 = i + k
      BY <1>1
    <2>3. DOMAIN t = 1..Len(t)
      BY <2>1
    <2> QED
      BY <2>1, <2>2, <2>3
  <1> HIDE DEF t
  <1>2. OnLines(SubSeq(s, 1, k)) = {s[i].id : i \in 1..k}
    BY <1>1 DEF OnLines
  <1>3. OnLines(t) = {s[i + k].id : i \in 1..(Len(s) - k)}
    BY <1>a DEF OnLines
  <1>4. \A i \in 1..(Len(s) - k) : i + k \in 1..Len(s)
    BY <1>1
  <1>5. \A i \in 1..Len(s) : i \in 1..k \/ (i - k \in 1..(Len(s) - k) /\ (i - k) + k = i)
    BY <1>1
  <1>6. \A i \in 1..k : i \in 1..Len(s)
    BY <1>1
  <1>7. OnLines(s) = {s[i].id : i \in 1..Len(s)}
    BY <1>1 DEF OnLines
  <1>8. ASSUME NEW x \in OnLines(s)
        PROVE  x \in {s[i].id : i \in 1..k} \cup {s[i + k].id : i \in 1..(Len(s) - k)}
    <2>1. PICK i \in 1..Len(s) : x = s[i].id
      BY <1>7
    <2>2. CASE i \in 1..k
      BY <2>1, <2>2
    <2>3. CASE i - k \in 1..(Len(s) - k) /\ (i - k) + k = i
      <3>1. x = s[(i - k) + k].id
        BY <2>1, <2>3
      <3> QED
        BY <2>3, <3>1
    <2> QED
      BY <1>5, <2>2, <2>3
  <1> QED
    BY <1>2, <1>3, <1>4, <1>6, <1>7, <1>8 DEF t

LEMMA LineMore ==
  ASSUME NEW S, NEW s \in Seq(S), NEW e
  PROVE  /\ Append(s, e) \in Seq(S \cup {e}) /\ Len(Append(s, e)) = Len(s) + 1
         /\ OnLines(Append(s, e)) = OnLines(s) \cup {e.id}
  <1>1. s \in Seq(S \cup {e}) /\ e \in S \cup {e}
    BY SeqOfMore
  <1>2. /\ Append(s, e) \in Seq(S \cup {e}) /\ Len(Append(s, e)) = Len(s) + 1
        /\ Len(s) \in Nat /\ DOMAIN s = 1..Len(s)
        /\ DOMAIN Append(s, e) = 1..(Len(s) + 1)
        /\ \A i \in 1..Len(s) : Append(s, e)[i] = s[i]
        /\ Append(s, e)[Len(s) + 1] = e
    BY <1>1
  <1>3. \A i \in 1..(Len(s) + 1) : i \in 1..Len(s) \/ i = Len(s) + 1
    BY <1>2
  <1>4. \A i \in 1..Len(s) : i \in 1..(Len(s) + 1)
    BY <1>2
  <1>5. Len(s) + 1 \in 1..(Len(s) + 1)
    BY <1>2
  <1>6. OnLines(Append(s, e)) = {Append(s, e)[i].id : i \in 1..(Len(s) + 1)}
    BY <1>2 DEF OnLines
  <1>7. OnLines(s) = {s[i].id : i \in 1..Len(s)}
    BY <1>2 DEF OnLines
  <1> QED
    BY <1>2, <1>3, <1>4, <1>5, <1>6, <1>7

LEMMA NoLinesOn == OnLines(<<>>) = {} /\ Cardinality({}) = 0 /\ IsFiniteSet({}) /\ <<>> \in Seq({})
  BY FS_EmptySet DEF OnLines

LEMMA WaitingIs ==
  ASSUME NEW r, Recorded(r), NEW w
  PROVE  [r EXCEPT !.waiting = w]
              = [synced |-> r.synced, waiting |-> w, stuck |-> r.stuck,
                 refused |-> r.refused, dropped |-> r.dropped, cuts |-> r.cuts]
  <1>1. PICK b, l, k, f, c, m : r = [synced |-> b, waiting |-> l, stuck |-> k,
                                     refused |-> f, dropped |-> c, cuts |-> m]
    BY DEF Recorded
  <1> QED
    BY <1>1

LEMMA SyncedIs ==
  ASSUME NEW r, Recorded(r), NEW a
  PROVE  [r EXCEPT !.synced = a]
              = [synced |-> a, waiting |-> r.waiting, stuck |-> r.stuck,
                 refused |-> r.refused, dropped |-> r.dropped, cuts |-> r.cuts]
  <1>1. PICK b, l, k, f, c, m : r = [synced |-> b, waiting |-> l, stuck |-> k,
                                     refused |-> f, dropped |-> c, cuts |-> m]
    BY DEF Recorded
  <1> QED
    BY <1>1

LEMMA DroppedIs ==
  ASSUME NEW r, Recorded(r), NEW d
  PROVE  [r EXCEPT !.dropped = d]
              = [synced |-> r.synced, waiting |-> r.waiting, stuck |-> r.stuck,
                 refused |-> r.refused, dropped |-> d, cuts |-> r.cuts]
  <1>1. PICK b, l, k, f, c, m : r = [synced |-> b, waiting |-> l, stuck |-> k,
                                     refused |-> f, dropped |-> c, cuts |-> m]
    BY DEF Recorded
  <1> QED
    BY <1>1

LEMMA CutsAre ==
  ASSUME NEW r, Recorded(r), NEW n
  PROVE  [r EXCEPT !.cuts = n]
              = [synced |-> r.synced, waiting |-> r.waiting, stuck |-> r.stuck,
                 refused |-> r.refused, dropped |-> r.dropped, cuts |-> n]
  <1>1. PICK b, l, k, f, c, m : r = [synced |-> b, waiting |-> l, stuck |-> k,
                                     refused |-> f, dropped |-> c, cuts |-> m]
    BY DEF Recorded
  <1> QED
    BY <1>1

\* The buffer goes: part of it reaches the disk, the others are dropped.
LEMMA CutFits ==
  ASSUME NEW r, RecordInv(r), NEW k \in 0..Len(r.waiting)
  PROVE  RecordInv(CutAfter(r, k)) /\ OnRecord(CutAfter(r, k)) = OnRecord(r)
         /\ CutAfter(r, k).waiting = <<>>
  <1> DEFINE c == CutAfter(r, k)
             head == OnLines(SubSeq(r.waiting, 1, k))
             tail == OnLines(SubSeq(r.waiting, k + 1, Len(r.waiting)))
             all == OnLines(r.waiting)
             D == r.dropped \ r.refused
             W == all \ r.refused
  <1>1. c = [synced |-> r.synced \cup head, waiting |-> <<>>, stuck |-> r.stuck,
             refused |-> r.refused, dropped |-> r.dropped \cup tail, cuts |-> r.cuts + 1]
    <2> DEFINE r1 == [r EXCEPT !.synced = r.synced \cup head]
               r2 == [r1 EXCEPT !.waiting = <<>>]
               r3 == [r2 EXCEPT !.dropped = r.dropped \cup tail]
               r4 == [r3 EXCEPT !.cuts = r.cuts + 1]
    <2>1. c = r4
      BY DEF CutAfter
    <2> HIDE DEF c, head, tail
    <2>2. /\ Recorded(r1) /\ r1.synced = r.synced \cup head /\ r1.stuck = r.stuck
          /\ r1.refused = r.refused /\ r1.dropped = r.dropped /\ r1.cuts = r.cuts
      <3>1. r1 = [synced |-> r.synced \cup head, waiting |-> r.waiting, stuck |-> r.stuck,
                  refused |-> r.refused, dropped |-> r.dropped, cuts |-> r.cuts]
        BY SyncedIs DEF RecordInv
      <3> HIDE DEF r1
      <3> QED
        BY <3>1 DEF Recorded
    <2> HIDE DEF r1
    <2>3. /\ Recorded(r2) /\ r2.synced = r1.synced /\ r2.waiting = <<>> /\ r2.stuck = r1.stuck
          /\ r2.refused = r1.refused /\ r2.dropped = r1.dropped /\ r2.cuts = r1.cuts
      <3>1. r2 = [synced |-> r1.synced, waiting |-> <<>>, stuck |-> r1.stuck,
                  refused |-> r1.refused, dropped |-> r1.dropped, cuts |-> r1.cuts]
        BY <2>2, WaitingIs
      <3> HIDE DEF r2
      <3> QED
        BY <3>1 DEF Recorded
    <2> HIDE DEF r2
    <2>4. /\ Recorded(r3) /\ r3.synced = r2.synced /\ r3.waiting = r2.waiting
          /\ r3.stuck = r2.stuck /\ r3.refused = r2.refused
          /\ r3.dropped = r.dropped \cup tail /\ r3.cuts = r2.cuts
      <3>1. r3 = [synced |-> r2.synced, waiting |-> r2.waiting, stuck |-> r2.stuck,
                  refused |-> r2.refused, dropped |-> r.dropped \cup tail, cuts |-> r2.cuts]
        BY <2>3, DroppedIs
      <3> HIDE DEF r3
      <3> QED
        BY <3>1 DEF Recorded
    <2> HIDE DEF r3
    <2>5. r4 = [synced |-> r3.synced, waiting |-> r3.waiting, stuck |-> r3.stuck,
                refused |-> r3.refused, dropped |-> r3.dropped, cuts |-> r.cuts + 1]
      BY <2>4, CutsAre
    <2> HIDE DEF r4
    <2> QED
      BY <2>1, <2>2, <2>3, <2>4, <2>5
  <1>2. PICK S : r.waiting \in Seq(S)
    BY DEF RecordInv, RecordFits
  <1>3. head \cup tail = all
    BY <1>2, LinesOfCut
  <1>4. IsFiniteSet(all)
    BY <1>2, LinesAreFinite
  <1>5. /\ IsFiniteSet(r.dropped) /\ r.cuts \in Nat
        /\ Cardinality(W) < SyncEvery /\ Cardinality(D) <= r.cuts * PerCut
    BY DEF RecordInv, RecordFits
  <1> HIDE DEF c, head, tail, all
  <1>6. /\ c.synced = r.synced \cup head /\ c.waiting = <<>> /\ c.refused = r.refused
        /\ c.dropped = r.dropped \cup tail /\ c.cuts = r.cuts + 1
    BY <1>1
  <1>7. Recorded(c)
    BY <1>1 DEF Recorded
  <1>8. OnRecord(c) = OnRecord(r)
    BY <1>3, <1>6, NoLinesOn DEF OnRecord, all
  <1>9. IsFiniteSet(D) /\ IsFiniteSet(W) /\ IsFiniteSet(tail)
    <2>1. D \subseteq r.dropped /\ W \subseteq all /\ tail \subseteq all
      BY <1>3
    <2> QED
      BY <1>4, <1>5, <2>1, FS_Subset
  <1>10. IsFiniteSet(c.dropped)
    BY <1>5, <1>6, <1>9, FS_Union
  <1>11. Cardinality(c.dropped \ c.refused) <= Cardinality(D) + Cardinality(W)
    <2>1. c.dropped \ c.refused \subseteq D \cup W
      BY <1>3, <1>6
    <2>2. IsFiniteSet(D \cup W)
      BY <1>9, FS_Union
    <2>3. Cardinality(D \cup W) = Cardinality(D) + Cardinality(W) - Cardinality(D \cap W)
      BY <1>9, FS_Union
    <2>4. D \cap W \subseteq D
      OBVIOUS
    <2>5. IsFiniteSet(D \cap W)
      BY <1>9, <2>4, FS_Subset
    <2>6. /\ Cardinality(D) \in Nat /\ Cardinality(W) \in Nat
          /\ Cardinality(D \cap W) \in Nat
      BY <1>9, <2>5, FS_CardinalityType
    <2>7. Cardinality(c.dropped \ c.refused) <= Cardinality(D \cup W)
      BY <2>1, <2>2, FS_Subset
    <2>8. IsFiniteSet(c.dropped \ c.refused)
      BY <2>1, <2>2, FS_Subset
    <2>9. Cardinality(c.dropped \ c.refused) \in Nat /\ Cardinality(D \cup W) \in Nat
      BY <2>2, <2>8, FS_CardinalityType
    <2> QED
      BY <2>3, <2>6, <2>7, <2>9
  <1>12. Cardinality(c.dropped \ c.refused) <= c.cuts * PerCut
    <2> DEFINE new == Cardinality(c.dropped \ c.refused)
               d == Cardinality(D)
               w == Cardinality(W)
               n == r.cuts
               K == PerCut
    <2>1. d \in Nat /\ w \in Nat
      BY <1>9, FS_CardinalityType
    <2>2. K \in Nat /\ SyncEvery = K + 1
      BY BatchIsNat DEF PerCut
    <2>3. n * K \in Int /\ (n + 1) * K = n * K + K
      BY <1>5, <2>2, OneMore
    <2>4. new \in Nat
      <3>1. c.dropped \ c.refused \subseteq c.dropped
        OBVIOUS
      <3> QED
        BY <1>10, <3>1, FS_Subset, FS_CardinalityType
    <2>5. d <= n * K /\ w < K + 1 /\ new <= d + w /\ c.cuts = n + 1
      BY <1>5, <1>6, <1>11, <2>2
    <2>6. SUFFICES new <= (n + 1) * K
      BY <2>5
    <2> DEFINE a == n * K
               b == (n + 1) * K
    <2>7. a \in Int /\ b = a + K /\ d <= a
      BY <2>3, <2>5
    <2> HIDE DEF new, d, w, n, K, a, b
    <2>8. new <= b
      BY <2>1, <2>2, <2>4, <2>5, <2>7
    <2> QED
      BY <2>8 DEF b
  <1>13. Cardinality(OnLines(c.waiting) \ c.refused) < SyncEvery
    <2>1. OnLines(c.waiting) \ c.refused = {}
      BY <1>6, NoLinesOn
    <2>2. Cardinality({}) < SyncEvery
      BY NoLinesOn, BatchIsNat
    <2> QED
      BY <2>1, <2>2
  <1>14. RecordFits(c)
    BY <1>5, <1>6, <1>10, <1>12, <1>13, NoLinesOn DEF RecordFits
  <1> QED
    BY <1>6, <1>7, <1>8, <1>14 DEF RecordInv, c

\* A failed Append is remembered; the line may be in the buffer nevertheless.
LEMMA RefusedFits ==
  ASSUME NEW r, RecordInv(r), NEW id
  PROVE  /\ RecordInv(Refused(r, id))
         /\ OnRecord(r) \cup {id} \subseteq OnRecord(Refused(r, id))
  <1> DEFINE c == Refused(r, id)
  <1>0. PICK a, w, st, f, d, n : r = [synced |-> a, waiting |-> w, stuck |-> st,
                                      refused |-> f, dropped |-> d, cuts |-> n]
    BY DEF RecordInv, Recorded
  <1>1. c = [synced |-> r.synced, waiting |-> r.waiting, stuck |-> r.stuck,
             refused |-> r.refused \cup {id}, dropped |-> r.dropped, cuts |-> r.cuts]
    BY <1>0 DEF Refused
  <1> HIDE DEF c
  <1>2. PICK S : r.waiting \in Seq(S)
    BY DEF RecordInv, RecordFits
  <1>3. /\ IsFiniteSet(r.dropped) /\ r.cuts \in Nat /\ IsFiniteSet(OnLines(r.waiting))
        /\ Cardinality(OnLines(r.waiting) \ r.refused) < SyncEvery
        /\ Cardinality(r.dropped \ r.refused) <= r.cuts * PerCut
    BY <1>2, LinesAreFinite DEF RecordInv, RecordFits
  <1>4. ASSUME NEW X, IsFiniteSet(X)
        PROVE  /\ Cardinality(X \ c.refused) \in Nat /\ Cardinality(X \ r.refused) \in Nat
               /\ Cardinality(X \ c.refused) <= Cardinality(X \ r.refused)
    <2>1. X \ c.refused \subseteq X \ r.refused /\ X \ r.refused \subseteq X
      BY <1>1
    <2>2. IsFiniteSet(X \ r.refused)
      BY <1>4, <2>1, FS_Subset
    <2>3. /\ IsFiniteSet(X \ c.refused)
          /\ Cardinality(X \ c.refused) <= Cardinality(X \ r.refused)
      BY <2>1, <2>2, FS_Subset
    <2> QED
      BY <2>2, <2>3, FS_CardinalityType
  <1>5. Cardinality(OnLines(c.waiting) \ c.refused) < SyncEvery
    <2>1. c.waiting = r.waiting
      BY <1>1
    <2>2. /\ Cardinality(OnLines(r.waiting) \ c.refused) \in Nat
          /\ Cardinality(OnLines(r.waiting) \ r.refused) \in Nat
          /\ Cardinality(OnLines(r.waiting) \ c.refused)
                <= Cardinality(OnLines(r.waiting) \ r.refused)
      BY <1>3, <1>4
    <2> DEFINE new == Cardinality(OnLines(r.waiting) \ c.refused)
               old == Cardinality(OnLines(r.waiting) \ r.refused)
    <2>3. new \in Nat /\ old \in Nat /\ new <= old /\ old < SyncEvery
      BY <1>3, <2>2
    <2> HIDE DEF new, old
    <2>4. new < SyncEvery
      BY <2>3, BatchIsNat
    <2> QED
      BY <2>1, <2>4 DEF new
  <1>6. Cardinality(c.dropped \ c.refused) <= c.cuts * PerCut
    <2>1. c.dropped = r.dropped /\ c.cuts = r.cuts
      BY <1>1
    <2>2. PICK most : most = r.cuts * PerCut
      OBVIOUS
    <2>3. most \in Nat
      BY <1>3, <2>2, BatchIsNat
    <2> DEFINE new == Cardinality(r.dropped \ c.refused)
               old == Cardinality(r.dropped \ r.refused)
    <2>5. new \in Nat /\ old \in Nat /\ new <= old
      BY <1>3, <1>4
    <2>6. old <= most
      BY <1>3, <2>2
    <2> HIDE DEF new, old
    <2>4. new <= most
      BY <2>3, <2>5, <2>6
    <2> QED
      BY <2>1, <2>2, <2>4 DEF new
  <1>7. RecordFits(c)
    BY <1>1, <1>2, <1>3, <1>5, <1>6 DEF RecordFits
  <1>8. Recorded(c)
    BY <1>1 DEF Recorded
  <1>9. OnRecord(r) \cup {id} \subseteq OnRecord(c)
    BY <1>1 DEF OnRecord
  <1> QED
    BY <1>7, <1>8, <1>9 DEF RecordInv, c

LEMMA StuckFits ==
  ASSUME NEW r, RecordInv(r), NEW w
  PROVE  /\ RecordInv([r EXCEPT !.stuck = w])
         /\ OnRecord([r EXCEPT !.stuck = w]) = OnRecord(r)
  <1> DEFINE c == [r EXCEPT !.stuck = w]
  <1>0. PICK a, l, st, f, d, n : r = [synced |-> a, waiting |-> l, stuck |-> st,
                                      refused |-> f, dropped |-> d, cuts |-> n]
    BY DEF RecordInv, Recorded
  <1>1. c = [synced |-> r.synced, waiting |-> r.waiting, stuck |-> w,
             refused |-> r.refused, dropped |-> r.dropped, cuts |-> r.cuts]
    BY <1>0
  <1> HIDE DEF c
  <1>2. /\ c.synced = r.synced /\ c.waiting = r.waiting /\ c.refused = r.refused
        /\ c.dropped = r.dropped /\ c.cuts = r.cuts
    BY <1>1
  <1>3. RecordFits(c)
    BY <1>2 DEF RecordInv, RecordFits
  <1>4. Recorded(c)
    BY <1>1 DEF Recorded
  <1>5. OnRecord(c) = OnRecord(r)
    BY <1>2 DEF OnRecord
  <1> QED
    BY <1>3, <1>4, <1>5 DEF RecordInv, c

\* A record with another waiting line, which does not fit yet.
LEMMA EnteredIs ==
  ASSUME NEW r, RecordInv(r), NEW id
  PROVE  \E S : /\ Entered(r, id).waiting \in Seq(S)
                /\ OnLines(Entered(r, id).waiting) = OnLines(r.waiting) \cup {id}
                /\ Entered(r, id) = [synced |-> r.synced, waiting |-> Entered(r, id).waiting,
                                     stuck |-> r.stuck, refused |-> r.refused,
                                     dropped |-> r.dropped, cuts |-> r.cuts]
  <1> DEFINE e == [id |-> id, at |-> now]
             c == Entered(r, id)
  <1>1. c = [synced |-> r.synced, waiting |-> Append(r.waiting, e), stuck |-> r.stuck,
             refused |-> r.refused, dropped |-> r.dropped, cuts |-> r.cuts]
    BY WaitingIs DEF RecordInv, Entered
  <1>2. PICK S : r.waiting \in Seq(S)
    BY DEF RecordInv, RecordFits
  <1>3. e.id = id
    OBVIOUS
  <1> HIDE DEF e, c
  <1>4. /\ Append(r.waiting, e) \in Seq(S \cup {e})
        /\ OnLines(Append(r.waiting, e)) = OnLines(r.waiting) \cup {id}
    BY <1>2, <1>3, LineMore
  <1>5. c.waiting = Append(r.waiting, e)
    BY <1>1
  <1>6. /\ c.waiting \in Seq(S \cup {e}) /\ OnLines(c.waiting) = OnLines(r.waiting) \cup {id}
        /\ c = [synced |-> r.synced, waiting |-> c.waiting, stuck |-> r.stuck,
                refused |-> r.refused, dropped |-> r.dropped, cuts |-> r.cuts]
    BY <1>1, <1>4, <1>5
  <1> QED
    BY <1>6 DEF c

\* The line is on record whatever becomes of its Append, and the record fits.
LEMMA LineIsOnRecord ==
  ASSUME RecordInv(record), NEW id, JournalLine(id)
  PROVE  RecordInv(record') /\ OnRecord(record) \cup {id} \subseteq OnRecord(record')
  <1> DEFINE r == Entered(record, id)
  <1>1. PICK S : /\ r.waiting \in Seq(S) /\ OnLines(r.waiting) = OnLines(record.waiting) \cup {id}
                 /\ r = [synced |-> record.synced, waiting |-> r.waiting,
                         stuck |-> record.stuck, refused |-> record.refused,
                         dropped |-> record.dropped, cuts |-> record.cuts]
    BY EnteredIs
  <1>2. /\ IsFiniteSet(record.dropped) /\ record.cuts \in Nat
        /\ Cardinality(OnLines(record.waiting) \ record.refused) < SyncEvery
        /\ Cardinality(record.dropped \ record.refused) <= record.cuts * PerCut
    BY DEF RecordInv, RecordFits
  <1>3. \/ ~SyncDue(r) /\ record' = r
        \/ record' = SyncedRecord(r)
        \/ record' = Refused(record, id)
        \/ record' = Refused(r, id)
        \/ \E k \in 0..Len(record.waiting) :
              record' = [Refused(CutAfter(record, k), id) EXCEPT !.stuck = TRUE]
    BY DEF JournalLine
  <1>x. PICK lines : lines = r.waiting
    OBVIOUS
  <1> HIDE DEF r
  <1>y. r = [synced |-> record.synced, waiting |-> lines,
             stuck |-> record.stuck, refused |-> record.refused,
             dropped |-> record.dropped, cuts |-> record.cuts]
    BY <1>1, <1>x
  <1>4. /\ r.synced = record.synced /\ r.refused = record.refused
        /\ r.dropped = record.dropped /\ r.cuts = record.cuts /\ r.stuck = record.stuck
    BY <1>1
  <1>5. CASE ~SyncDue(r) /\ record' = r
    <2>1. Len(r.waiting) < SyncEvery /\ Len(r.waiting) \in Nat
      BY <1>1, <1>5, BatchIsNat DEF SyncDue
    <2>2. Cardinality(OnLines(r.waiting) \ r.refused) < SyncEvery
      <3>1. IsFiniteSet(OnLines(r.waiting)) /\ Cardinality(OnLines(r.waiting)) <= Len(r.waiting)
        BY <1>1, LinesAreFinite
      <3>2. OnLines(r.waiting) \ r.refused \subseteq OnLines(r.waiting)
        OBVIOUS
      <3>3. /\ IsFiniteSet(OnLines(r.waiting) \ r.refused)
            /\ Cardinality(OnLines(r.waiting) \ r.refused) <= Cardinality(OnLines(r.waiting))
        BY <3>1, <3>2, FS_Subset
      <3>4. /\ Cardinality(OnLines(r.waiting) \ r.refused) \in Nat
            /\ Cardinality(OnLines(r.waiting)) \in Nat
        BY <3>1, <3>3, FS_CardinalityType
      <3> QED
        BY <2>1, <3>1, <3>3, <3>4, BatchIsNat
    <2>3. RecordFits(r)
      BY <1>1, <1>2, <1>4, <2>2 DEF RecordFits
    <2>4. Recorded(r)
      BY <1>1 DEF Recorded
    <2>5. OnRecord(record) \cup {id} \subseteq OnRecord(r)
      BY <1>1, <1>4 DEF OnRecord
    <2> QED
      BY <1>5, <2>3, <2>4, <2>5 DEF RecordInv
  <1>6. CASE record' = SyncedRecord(r)
    <2> DEFINE c == SyncedRecord(r)
    <2>1. c = [synced |-> record.synced \cup OnLines(r.waiting), waiting |-> <<>>,
               stuck |-> record.stuck, refused |-> record.refused,
               dropped |-> record.dropped, cuts |-> record.cuts]
      <3>1. Recorded(r)
        BY <1>y DEF Recorded
      <3>2. c = [synced |-> r.synced \cup OnLines(r.waiting), waiting |-> <<>>,
                 stuck |-> r.stuck, refused |-> r.refused,
                 dropped |-> r.dropped, cuts |-> r.cuts]
        <4> DEFINE r1 == [r EXCEPT !.synced = r.synced \cup OnLines(r.waiting)]
        <4>1. c = [r1 EXCEPT !.waiting = <<>>]
          BY DEF SyncedRecord
        <4> HIDE DEF c
        <4>2. /\ Recorded(r1) /\ r1.synced = r.synced \cup OnLines(r.waiting)
              /\ r1.stuck = r.stuck /\ r1.refused = r.refused
              /\ r1.dropped = r.dropped /\ r1.cuts = r.cuts
          <5>1. r1 = [synced |-> r.synced \cup OnLines(r.waiting), waiting |-> r.waiting, stuck |-> r.stuck,
                      refused |-> r.refused, dropped |-> r.dropped, cuts |-> r.cuts]
            BY <3>1, SyncedIs
          <5> HIDE DEF r1
          <5> QED
            BY <5>1 DEF Recorded
        <4> HIDE DEF r1
        <4> QED
          BY <4>1, <4>2, WaitingIs
      <3> HIDE DEF c
      <3> QED
        BY <1>4, <3>2
    <2> HIDE DEF c
    <2>2. OnLines(c.waiting) \ c.refused = {} /\ c.waiting \in Seq({})
      BY <2>1, NoLinesOn
    <2>a. Cardinality({}) < SyncEvery
      BY NoLinesOn, BatchIsNat
    <2>b. /\ Cardinality(OnLines(c.waiting) \ c.refused) < SyncEvery
          /\ c.dropped = record.dropped /\ c.refused = record.refused /\ c.cuts = record.cuts
      BY <2>1, <2>2, <2>a
    <2>3. RecordFits(c)
      BY <1>2, <2>2, <2>b DEF RecordFits
    <2>4. Recorded(c)
      BY <2>1 DEF Recorded
    <2>5. OnRecord(record) \cup {id} \subseteq OnRecord(c)
      BY <1>1, <2>1 DEF OnRecord
    <2> QED
      BY <1>6, <2>3, <2>4, <2>5 DEF RecordInv, c
  <1>7. CASE record' = Refused(record, id)
    BY <1>7, RefusedFits
  <1>8. CASE record' = Refused(r, id)
    <2> DEFINE c == Refused(r, id)
    <2>1. c = [synced |-> record.synced, waiting |-> r.waiting, stuck |-> record.stuck,
               refused |-> record.refused \cup {id}, dropped |-> record.dropped,
               cuts |-> record.cuts]
      BY <1>x, <1>y DEF Refused
    <2> HIDE DEF c
    <2>2. /\ OnLines(c.waiting) \ c.refused \subseteq OnLines(record.waiting) \ record.refused
          /\ c.dropped \ c.refused \subseteq record.dropped \ record.refused
      BY <1>1, <2>1
    <2>3. PICK T : record.waiting \in Seq(T)
      BY DEF RecordInv, RecordFits
    <2>4. IsFiniteSet(OnLines(record.waiting))
      BY <2>3, LinesAreFinite
    <2>5. ASSUME NEW X, NEW Y, X \subseteq Y \ record.refused, IsFiniteSet(Y)
          PROVE  /\ Cardinality(X) <= Cardinality(Y \ record.refused)
                 /\ Cardinality(X) \in Nat /\ Cardinality(Y \ record.refused) \in Nat
      <3>1. Y \ record.refused \subseteq Y
        OBVIOUS
      <3>2. IsFiniteSet(Y \ record.refused)
        BY <2>5, <3>1, FS_Subset
      <3> QED
        BY <2>5, <3>2, FS_Subset, FS_CardinalityType
    <2>6. Cardinality(OnLines(c.waiting) \ c.refused) < SyncEvery
      <3> DEFINE new == Cardinality(OnLines(c.waiting) \ c.refused)
                 old == Cardinality(OnLines(record.waiting) \ record.refused)
      <3>1. new \in Nat /\ old \in Nat /\ new <= old
        BY <2>2, <2>4, <2>5
      <3>2. old < SyncEvery
        BY <1>2
      <3> HIDE DEF new, old
      <3>3. new < SyncEvery
        BY <3>1, <3>2, BatchIsNat
      <3> QED
        BY <3>3 DEF new
    <2>7. Cardinality(c.dropped \ c.refused) <= c.cuts * PerCut
      <3>1. PICK most : most = record.cuts * PerCut
        OBVIOUS
      <3>2. most \in Nat
        BY <1>2, <3>1, BatchIsNat
      <3> DEFINE new == Cardinality(c.dropped \ c.refused)
                 old == Cardinality(record.dropped \ record.refused)
      <3>5. new \in Nat /\ old \in Nat /\ new <= old
        BY <1>2, <2>2, <2>5
      <3>6. old <= most
        BY <1>2, <3>1
      <3> HIDE DEF new, old
      <3>3. new <= most
        BY <3>2, <3>5, <3>6
      <3>4. c.cuts = record.cuts
        BY <2>1
      <3> QED
        BY <3>1, <3>3, <3>4 DEF new
    <2>8. RecordFits(c)
      BY <1>1, <1>2, <2>1, <2>6, <2>7 DEF RecordFits
    <2>9. Recorded(c)
      BY <2>1 DEF Recorded
    <2>10. OnRecord(record) \cup {id} \subseteq OnRecord(c)
      BY <1>1, <2>1 DEF OnRecord
    <2> QED
      BY <1>8, <2>8, <2>9, <2>10 DEF RecordInv, c
  <1>9. ASSUME NEW k \in 0..Len(record.waiting),
               record' = [Refused(CutAfter(record, k), id) EXCEPT !.stuck = TRUE]
        PROVE  RecordInv(record') /\ OnRecord(record) \cup {id} \subseteq OnRecord(record')
    <2> DEFINE c == CutAfter(record, k)
               d == Refused(c, id)
    <2>1. RecordInv(c) /\ OnRecord(c) = OnRecord(record)
      BY CutFits
    <2> HIDE DEF c
    <2>2. RecordInv(d) /\ OnRecord(c) \cup {id} \subseteq OnRecord(d)
      BY <2>1, RefusedFits
    <2> HIDE DEF d
    <2>3. record' = [d EXCEPT !.stuck = TRUE]
      BY <1>9 DEF d, c
    <2>4. RecordInv([d EXCEPT !.stuck = TRUE]) /\ OnRecord([d EXCEPT !.stuck = TRUE]) = OnRecord(d)
      BY <2>2, StuckFits
    <2> QED
      BY <2>1, <2>2, <2>3, <2>4
  <1> QED
    BY <1>3, <1>5, <1>6, <1>7, <1>8, <1>9

\* The record only grows, and grows before a forward.
LEMMA StepKeepsAudit ==
  ASSUME scene \in Scenes, AuditInv, DownlinkStep
  PROVE  AuditInv'
  <1> DEFINE Known == Requests \cup OnRecord(record)
             KnownNow == Requests \cup OnRecord(record')
  <1>0. /\ RecordInv(record) /\ bus \in Seq(Known) /\ heard \subseteq Known
        /\ (handling.kind \in Intents => handling.id \in OnRecord(record))
    BY DEF AuditInv
  <1>n. Nothing.kind \notin Intents
    BY DownlinkAssumption DEF Nothing
  \* The record fits and holds what it held: then so do the bus and the hub.
  <1>g. ASSUME RecordInv(record'), OnRecord(record) \subseteq OnRecord(record'),
               UNCHANGED <<bus, heard>>,
               handling'.kind \in Intents => handling'.id \in OnRecord(record')
        PROVE  AuditInv'
    <2>1. Known \subseteq KnownNow
      BY <1>g
    <2>2. bus \in Seq(KnownNow)
      BY <1>0, <2>1, SeqOfMore
    <2>3. bus' \in Seq(KnownNow) /\ heard' \subseteq KnownNow
      BY <1>0, <1>g, <2>1, <2>2
    <2> QED
      BY <1>g, <2>3 DEF AuditInv
  \* A step that leaves the record alone.
  <1>s. ASSUME record' = record, bus' \in Seq(Known), heard' \subseteq Known,
               handling' = handling \/ handling' = Nothing
        PROVE  AuditInv'
    <2>1. handling'.kind \in Intents => handling'.id \in OnRecord(record)
      BY <1>0, <1>n, <1>s
    <2>2. RecordInv(record') /\ OnRecord(record') = OnRecord(record)
      BY <1>0, <1>s
    <2> QED
      BY <1>s, <2>1, <2>2 DEF AuditInv
  <1>1. CASE Handle
    <2>1. PICK cmd : Reject(cmd) \/ Accept(cmd) \/ StartDiag(cmd)
      BY <1>1 DEF Handle
    <2>2. UNCHANGED <<bus, heard>>
      BY <1>1 DEF Handle
    <2>3. CASE Reject(cmd)
      <3>1. UNCHANGED <<record, handling>>
        BY <2>3 DEF Reject
      <3> QED
        BY <1>0, <1>s, <2>2, <3>1
    <2>4. CASE Accept(cmd) \/ StartDiag(cmd)
      <3>1. JournalLine(cmd.id) /\ handling' = cmd
        BY <2>4 DEF Accept, StartDiag
      <3>2. RecordInv(record') /\ OnRecord(record) \cup {cmd.id} \subseteq OnRecord(record')
        BY <1>0, <3>1, LineIsOnRecord
      <3>3. /\ OnRecord(record) \subseteq OnRecord(record')
            /\ handling'.id \in OnRecord(record')
        BY <3>1, <3>2
      <3> QED
        BY <1>g, <2>2, <3>2, <3>3
    <2> QED
      BY <2>1, <2>3, <2>4
  <1>2. CASE Forward
    <2>1. handling.id \in Known /\ UNCHANGED <<record, heard>> /\ handling' = Nothing
      BY <1>0, <1>2 DEF Forward
    <2>2. bus' = bus \/ bus' = Append(bus, handling.id)
      BY <1>2 DEF Forward
    <2>3. bus' \in Seq(Known)
      BY <1>0, <2>1, <2>2
    <2> QED
      BY <1>0, <1>s, <2>1, <2>3
  <1>3. CASE EndDiag
    <2>1. UNCHANGED <<heard, bus>> /\ handling' = Nothing /\ JournalLine(handling.id)
      BY <1>3 DEF EndDiag
    <2>2. /\ RecordInv(record')
          /\ OnRecord(record) \cup {handling.id} \subseteq OnRecord(record')
      BY <1>0, <2>1, LineIsOnRecord
    <2>3. OnRecord(record) \subseteq OnRecord(record')
      BY <2>2
    <2> QED
      BY <1>g, <1>n, <2>1, <2>2, <2>3
  <1>4. CASE RestartCloudlink
    <2>1. UNCHANGED <<heard, bus>> /\ handling' = Nothing
      BY <1>4 DEF RestartCloudlink
    <2>2. PICK k \in 0..Len(record.waiting) :
             record' = [CutAfter(record, k) EXCEPT !.stuck = FALSE]
      BY <1>4 DEF RestartCloudlink
    <2>3. RecordInv(CutAfter(record, k)) /\ OnRecord(CutAfter(record, k)) = OnRecord(record)
      BY <1>0, CutFits
    <2>4. /\ RecordInv([CutAfter(record, k) EXCEPT !.stuck = FALSE])
          /\ OnRecord([CutAfter(record, k) EXCEPT !.stuck = FALSE])
                = OnRecord(CutAfter(record, k))
      BY <2>3, StuckFits
    <2>5. RecordInv(record') /\ OnRecord(record) \subseteq OnRecord(record')
      BY <2>2, <2>3, <2>4
    <2> QED
      BY <1>g, <1>n, <2>1, <2>5
  <1>5. CASE HubHandles
    <2>1. /\ bus # <<>> /\ bus' = Tail(bus) /\ heard' = heard \cup {Head(bus)}
          /\ UNCHANGED <<handling, record>>
      BY <1>5 DEF HubHandles, ElsewhereUnchanged, cloudSide
    <2>2. Head(bus) \in Known /\ Tail(bus) \in Seq(Known)
      BY <1>0, <2>1, HeadTailProperties
    <2> QED
      BY <1>0, <1>s, <2>1, <2>2
  <1>6. ASSUME NEW q \in scene.requests, ApiStep(q)
        PROVE  AuditInv'
    <2>1. UNCHANGED <<handling, record, heard>>
      BY <1>6 DEF ApiStep, Post, BrokerHas, Published, ResultArrives, Answer, Pending,
                  ElsewhereUnchanged, cloudSide
    <2>2. bus' = bus \/ bus' = Append(bus, q)
      BY <1>6 DEF ApiStep, Post, BrokerHas, Published, ResultArrives, Answer, Pending
    <2>3. q \in Known
      BY RequestsOfScene
    <2>4. bus' \in Seq(Known)
      BY <1>0, <2>2, <2>3
    <2> QED
      BY <1>0, <1>s, <2>1, <2>4
  <1>7. Tick \/ RunDownlink \/ SessionDrops \/ SessionReturns \/ CloudSends =>
           UNCHANGED <<handling, record, heard, bus>>
    BY DEF Tick, RunDownlink, SessionDrops, SessionReturns, CloudSends, cloudSide
  <1>8. CASE UNCHANGED <<handling, record, heard, bus>>
    BY <1>0, <1>s, <1>8
  <1> QED
    BY <1>1, <1>2, <1>3, <1>4, <1>5, <1>6, <1>7, <1>8 DEF DownlinkStep

\* A request of the app; its replies are nobody else's.
LEMMA ApiKeepsReplies ==
  ASSUME RepliesInv, NEW r \in Requests, ApiStep(r)
  PROVE  RepliesInv'
  <1> DEFINE Fine(q) ==
               /\ q \in pending => q \notin box /\ req[q] \in Open
               /\ req[q] \in Open => q \in pending \cup box
               /\ req[q] = "new" => q \notin box
  <1>1. req \in [Requests -> States] /\ \A q \in Requests : Fine(q)
    BY DEF RepliesInv
  <1>2. CASE Post(r)
    <2>1. /\ req[r] = "new" /\ req' = [req EXCEPT ![r] = "publishing"]
          /\ pending' = pending \cup {r} /\ box' = box
      BY <1>2 DEF Post, Expect
    <2> QED
      BY <1>1, <2>1 DEF RepliesInv, States, Open
  <1>3. CASE BrokerHas(r)
    <2>1. /\ req[r] = "publishing" /\ req' = [req EXCEPT ![r] = "sent"]
          /\ pending' = pending /\ box' = box
      BY <1>3 DEF BrokerHas
    <2> QED
      BY <1>1, <2>1 DEF RepliesInv, States, Open
  <1>4. CASE Published(r)
    <2>1. CASE /\ req[r] = "sent" /\ req' = [req EXCEPT ![r] = "waiting"]
               /\ pending' = pending /\ box' = box
      BY <1>1, <2>1 DEF RepliesInv, States, Open
    <2>2. CASE /\ req' = [req EXCEPT ![r] = "failed"] /\ pending' = pending \ {r}
               /\ req[r] # "new" /\ box' = box
      BY <1>1, <2>2 DEF RepliesInv, States, Open
    <2> QED
      BY <1>4, <2>1, <2>2 DEF Published
  <1>5. CASE ResultArrives(r)
    <2>1. req' = req
      BY <1>5 DEF ResultArrives
    <2>2. CASE r \in pending /\ pending' = pending \ {r} /\ box' = box \cup {r}
      BY <1>1, <2>1, <2>2 DEF RepliesInv, States, Open
    <2>3. CASE pending' = pending /\ box' = box
      BY <1>1, <2>1, <2>3 DEF RepliesInv
    <2> QED
      BY <1>5, <2>2, <2>3 DEF ResultArrives
  <1>6. CASE Answer(r)
    <2>1. /\ req[r] = "waiting" /\ r \in box /\ req' = [req EXCEPT ![r] = "answered"]
          /\ pending' = pending /\ box' = box
      BY <1>6 DEF Answer
    <2> QED
      BY <1>1, <2>1 DEF RepliesInv, States, Open
  <1>7. CASE Pending(r)
    <2>1. /\ req[r] = "waiting" /\ req' = [req EXCEPT ![r] = "pending"]
          /\ pending' = pending \ {r} /\ box' = box
      BY <1>7 DEF Pending, GiveUp
    <2> QED
      BY <1>1, <2>1 DEF RepliesInv, States, Open
  <1> QED
    BY <1>2, <1>3, <1>4, <1>5, <1>6, <1>7 DEF ApiStep

LEMMA StepKeepsReplies ==
  ASSUME scene \in Scenes, RepliesInv, DownlinkStep
  PROVE  RepliesInv'
  <1>1. ASSUME NEW q \in scene.requests, ApiStep(q)
        PROVE  RepliesInv'
    BY <1>1, RequestsOfScene, ApiKeepsReplies
  <1>2. Tick \/ RunDownlink \/ SessionDrops \/ SessionReturns \/ CloudSends =>
           UNCHANGED apiSide
    BY DEF Tick, RunDownlink, SessionDrops, SessionReturns, CloudSends
  <1>3. Handle \/ Forward \/ EndDiag \/ RestartCloudlink \/ HubHandles => UNCHANGED apiSide
    BY DEF Handle, Forward, EndDiag, RestartCloudlink, HubHandles
  <1>4. CASE UNCHANGED apiSide
    BY <1>4 DEF apiSide, RepliesInv
  <1> QED
    BY <1>1, <1>2, <1>3, <1>4 DEF DownlinkStep
-----------------------------------------------------------------------------
\* What the cloud and the app may ask for is bounded, on record and answered
\* (downlink.go's tokenBucket and process, resultwaiter.go), for any kinds,
\* allowances, commands, requests and failures: over any stretch of a process's
\* life no kind exceeds its allowance; whatever acted on the hub for the cloud was
\* given to the journal first, where only a failed Append or a lost buffer can
\* undo its line, and a loss takes less than a batch; and as long as its caller
\* waits a reply finds its request.
THEOREM CommandsStayAccounted == SpecDownlink => []CommandsAreAccounted
  <1>1. InitDownlink => DownlinkInv
    <2> SUFFICES ASSUME InitDownlink PROVE DownlinkInv
      OBVIOUS
    <2>1. AuditInv
      <3>1. /\ record = NoRecord /\ bus = <<>> /\ heard = {} /\ handling = Nothing
        BY DEF InitDownlink
      <3>2. /\ NoRecord.waiting = <<>> /\ NoRecord.refused = {} /\ NoRecord.dropped = {}
            /\ NoRecord.cuts = 0
        BY DEF NoRecord
      <3>3. OnLines(<<>>) \ {} = {} /\ {} \ {} = {}
        BY NoLinesOn
      <3>4. Cardinality({}) < SyncEvery /\ 0 * PerCut = 0 /\ Cardinality({}) <= 0
        BY NoLinesOn, BatchIsNat
      <3>5. RecordFits(NoRecord)
        <4>1. \E S : <<>> \in Seq(S)
          <5>1. <<>> \in Seq({})
            OBVIOUS
          <5> QED
            BY <5>1
        <4>2. Cardinality(OnLines(<<>>) \ {}) < SyncEvery
          BY <3>3, <3>4
        <4>3. Cardinality({} \ {}) <= 0 * PerCut
          BY <3>3, <3>4
        <4>4. IsFiniteSet({}) /\ 0 \in Nat
          BY NoLinesOn
        <4> QED
          BY <3>2, <4>1, <4>2, <4>3, <4>4 DEF RecordFits
      <3>6. Recorded(NoRecord)
        BY DEF Recorded, NoRecord
      <3>7. Nothing.kind \notin Intents
        BY DownlinkAssumption DEF Nothing
      <3> QED
        BY <3>1, <3>5, <3>6, <3>7 DEF AuditInv, RecordInv
    <2>2. RepliesInv
      BY DEF InitDownlink, RepliesInv, States, Open
    <2> QED
      BY <2>1, <2>2, AllowanceStarts DEF DownlinkInv, InitDownlink
  <1>2. DownlinkInv /\ [NextDownlink]_downlinkVars => DownlinkInv'
    <2> SUFFICES ASSUME DownlinkInv, [NextDownlink]_downlinkVars PROVE DownlinkInv'
      OBVIOUS
    <2>1. CASE NextDownlink
      BY <2>1, StepKeepsAllowance, StepKeepsAudit, StepKeepsReplies
         DEF DownlinkInv, NextDownlink
    <2>2. CASE UNCHANGED downlinkVars
      BY <2>2 DEF downlinkVars, cloudSide, apiSide, DownlinkInv, AllowanceInv, AuditInv,
                  RepliesInv
    <2> QED
      BY <2>1, <2>2
  <1>3. DownlinkInv => CommandsAreAccounted
    <2> SUFFICES ASSUME DownlinkInv PROVE CommandsAreAccounted
      OBVIOUS
    <2>1. AllowanceKept
      BY AllowanceHolds DEF DownlinkInv
    <2>2. AuditBeforeEffect
      <3>1. heard \subseteq Requests \cup OnRecord(record) /\ RecordFits(record)
        BY DEF DownlinkInv, AuditInv, RecordInv
      <3> QED
        BY <3>1 DEF AuditBeforeEffect, RecordFits, OnRecord, PerCut
    <2>3. RepliesFindRequests
      BY DEF DownlinkInv, RepliesInv, RepliesFindRequests, Open
    <2> QED
      BY <2>1, <2>2, <2>3 DEF CommandsAreAccounted
  <1> QED
    BY <1>1, <1>2, <1>3, PTL DEF SpecDownlink

-----------------------------------------------------------------------------
(* The journal.  The files and the buffer are one line of events that loses *)
(* its oldest part, and besides one event at most for each newline that was *)
(* refused: every operation keeps them in order, and a half line that stands *)
(* open at the end of the file is paid for before anything lands in it.     *)

Line == [id : Nat, seq : Nat]
JournalState ==
    [old : [1..MaxFiles -> Seq(Line)], disk : Seq(Line), buf : Seq(Line),
     size : Nat, seq : Nat, open : BOOLEAN, stuck : BOOLEAN,
     synced : SUBSET Nat, refused : Nat]

\* Every id of the one comes before every id of the other.
Before(ids, later) == \A i \in ids, k \in later : i < k

LinesInOrder(lines) ==
    \A i, k \in DOMAIN lines :
        i < k /\ lines[i].id # 0 /\ lines[k].id # 0 => lines[i].id < lines[k].id

\* The files and behind them the buffer, each in order and all older than the
\* next; none knows an event that has not happened.
FilesInOrder(j, e) ==
    /\ \A n \in 0..MaxFiles : LinesInOrder(FileOf(j, n)) /\ IdsOf(FileOf(j, n)) \subseteq 1..e
    /\ \A m, n \in 0..MaxFiles :
          m > n => Before(IdsOf(FileOf(j, m)), IdsOf(FileOf(j, n)))
    /\ LinesInOrder(j.buf) /\ IdsOf(j.buf) \subseteq 1..e
    /\ Before(Held(j), IdsOf(j.buf))

\* The next line written would land in a half line.
Exposed(j) == j.open /\ ~j.stuck /\ EndsTorn(j.disk)
Due(j) == IF Exposed(j) THEN 1 ELSE 0

\* Nothing in the buffer has been synced, and every hole, and the one that may
\* come next, has its refused newline.
HolesAreFew(j, e) ==
    /\ e \in Nat /\ j.synced \subseteq 1..e
    /\ Before(j.synced, IdsOf(j.buf))
    /\ \A k \in DOMAIN j.buf : j.buf[k].id # 0
    /\ Cardinality(Holes(j)) + Due(j) <= j.refused

\* The writer's count of the file's size is never too low.
SizesKept(j) ==
    /\ Len(j.disk) + Len(j.buf) <= MaxLines
    /\ \A i \in 1..MaxFiles : Len(j.old[i]) <= MaxLines
    /\ j.size <= MaxLines
    /\ j.open => Len(j.disk) + Len(j.buf) <= j.size
    /\ ~j.open \/ j.stuck => j.buf = <<>>

Kept(j, e) ==
    j \in JournalState /\ FilesInOrder(j, e) /\ HolesAreFew(j, e) /\ SizesKept(j)

JournalKept == events \in Nat /\ Kept(journal, events)

-----------------------------------------------------------------------------
LEMMA TornIsLine == Torn \in Line /\ Scrap \in Line /\ Torn.id = 0 /\ Scrap.id = 0
BY DEF Torn, Scrap, Line

LEMMA IdsAreOfLines ==
    ASSUME NEW s \in Seq(Line)
    PROVE  /\ DOMAIN s = 1..Len(s) /\ Len(s) \in Nat
           /\ \A i \in 1..Len(s) : s[i] \in Line /\ s[i].id \in Nat
           /\ \A x : x \in IdsOf(s) <=> x # 0 /\ \E i \in 1..Len(s) : x = s[i].id
<1>1. DOMAIN s = 1..Len(s) /\ Len(s) \in Nat /\ \A i \in 1..Len(s) : s[i] \in Line
  OBVIOUS
<1> QED
  BY <1>1 DEF IdsOf, Line

\* Lines of two sequences, the second later than the first.
LEMMA TwoInOrder ==
    ASSUME NEW f \in Seq(Line), NEW s \in Seq(Line), LinesInOrder(f), LinesInOrder(s),
           Before(IdsOf(f), IdsOf(s))
    PROVE  /\ f \o s \in Seq(Line) /\ LinesInOrder(f \o s) /\ Len(f \o s) = Len(f) + Len(s)
           /\ IdsOf(f \o s) = IdsOf(f) \cup IdsOf(s)
<1> DEFINE h == f \o s
<1>2. /\ h \in Seq(Line) /\ Len(h) = Len(f) + Len(s) /\ Len(f) \in Nat /\ Len(s) \in Nat
      /\ \A i \in 1..Len(h) : h[i] = IF i <= Len(f) THEN f[i] ELSE s[i - Len(f)]
  OBVIOUS
<1> HIDE DEF h
<1>3. \A i \in 1..Len(f) : i \in 1..Len(h) /\ h[i] = f[i]
  BY <1>2
<1>4. \A i \in 1..Len(h) : \/ i \in 1..Len(f) /\ h[i] = f[i]
                           \/ i > Len(f) /\ i - Len(f) \in 1..Len(s) /\ h[i] = s[i - Len(f)]
  BY <1>2
<1>5. IdsOf(f) \subseteq IdsOf(h)
  BY <1>2, <1>3, IdsAreOfLines
<1>6. IdsOf(h) \subseteq IdsOf(f) \cup IdsOf(s)
  <2> SUFFICES ASSUME NEW x \in IdsOf(h) PROVE x \in IdsOf(f) \cup IdsOf(s)
    OBVIOUS
  <2>1. PICK i \in 1..Len(h) : x = h[i].id /\ x # 0
    BY <1>2, IdsAreOfLines
  <2>2. CASE i \in 1..Len(f) /\ h[i] = f[i]
    BY <2>1, <2>2, IdsAreOfLines
  <2>3. CASE i - Len(f) \in 1..Len(s) /\ h[i] = s[i - Len(f)]
    BY <2>1, <2>3, IdsAreOfLines
  <2> QED
    BY <1>4, <2>2, <2>3
<1>7. LinesInOrder(h)
  <2> SUFFICES ASSUME NEW i \in 1..Len(h), NEW k \in 1..Len(h), i < k,
                      h[i].id # 0, h[k].id # 0
               PROVE  h[i].id < h[k].id
    BY <1>2, IdsAreOfLines DEF LinesInOrder
  <2>1. CASE k \in 1..Len(f) /\ h[k] = f[k]
    <3>1. i \in 1..Len(f) /\ h[i] = f[i]
      BY <1>2, <2>1
    <3> QED
      BY <2>1, <3>1, IdsAreOfLines DEF LinesInOrder
  <2>2. CASE k - Len(f) \in 1..Len(s) /\ h[k] = s[k - Len(f)]
    <3>1. CASE i \in 1..Len(f) /\ h[i] = f[i]
      <4>1. h[i].id \in IdsOf(f)
        BY <3>1, IdsAreOfLines
      <4>2. h[k].id \in IdsOf(s)
        BY <2>2, IdsAreOfLines
      <4> QED
        BY <4>1, <4>2 DEF Before
    <3>2. CASE i - Len(f) \in 1..Len(s) /\ h[i] = s[i - Len(f)]
      <4>1. i - Len(f) < k - Len(f)
        BY <1>2
      <4> QED
        BY <2>2, <3>2, <4>1, IdsAreOfLines DEF LinesInOrder
    <3> QED
      BY <1>4, <3>1, <3>2
  <2> QED
    BY <1>4, <2>1, <2>2
<1>8. IdsOf(s) \subseteq IdsOf(h)
  <2>1. \A i \in 1..Len(s) : /\ Len(f) + i \in 1..Len(h) /\ ~(Len(f) + i <= Len(f))
                             /\ (Len(f) + i) - Len(f) = i
    BY <1>2
  <2>2. \A i \in 1..Len(s) : Len(f) + i \in 1..Len(h) /\ h[Len(f) + i] = s[i]
    BY <1>2, <2>1
  <2> SUFFICES ASSUME NEW x \in IdsOf(s) PROVE x \in IdsOf(h)
    OBVIOUS
  <2>3. PICK i \in 1..Len(s) : x = s[i].id /\ x # 0
    BY IdsAreOfLines
  <2>4. Len(f) + i \in 1..Len(h) /\ x = h[Len(f) + i].id
    BY <2>2, <2>3
  <2> QED
    BY <1>2, <2>3, <2>4, IdsAreOfLines
<1> QED
  BY <1>2, <1>5, <1>6, <1>7, <1>8 DEF h

LEMMA LastOfTwo ==
    ASSUME NEW f \in Seq(Line), NEW s \in Seq(Line), s # <<>>
    PROVE  /\ Len(s) \in 1..Len(s) /\ Len(f \o s) = Len(f) + Len(s)
           /\ (f \o s)[Len(f \o s)] = s[Len(s)]
<1> DEFINE h == f \o s
<1>1. /\ Len(h) = Len(f) + Len(s) /\ Len(f) \in Nat /\ Len(s) \in Nat
      /\ \A i \in 1..Len(h) : h[i] = IF i <= Len(f) THEN f[i] ELSE s[i - Len(f)]
  OBVIOUS
<1>2. Len(s) \in 1..Len(s)
  OBVIOUS
<1> HIDE DEF h
<1>3. Len(h) \in 1..Len(h) /\ ~(Len(h) <= Len(f)) /\ Len(h) - Len(f) = Len(s)
  BY <1>1, <1>2
<1>4. h[Len(h)] = s[Len(s)]
  BY <1>1, <1>3
<1> QED
  BY <1>1, <1>2, <1>4 DEF h

\* What lands in a half line: the first of the lines cannot be read.
LEMMA LandedKeepsOrder ==
    ASSUME NEW s \in Seq(Line), LinesInOrder(s)
    PROVE  /\ Landed(s) \in Seq(Line) /\ LinesInOrder(Landed(s)) /\ Len(Landed(s)) = Len(s)
           /\ IdsOf(Landed(s)) \subseteq IdsOf(s)
           /\ IdsOf(s) \subseteq IdsOf(Landed(s)) \cup {s[1].id}
           /\ s # <<>> /\ s[1] # Torn => Landed(s) = [s EXCEPT ![1] = Scrap]
<1>1. CASE s = <<>> \/ s[1] = Torn
  BY <1>1 DEF Landed
<1>2. CASE s # <<>> /\ s[1] # Torn
  <2> DEFINE t == [s EXCEPT ![1] = Scrap]
  <2>1. /\ t \in Seq(Line) /\ Len(t) = Len(s) /\ 1 \in 1..Len(s) /\ Len(s) \in Nat
        /\ \A i \in 1..Len(s) : t[i] = IF i = 1 THEN Scrap ELSE s[i]
    BY <1>2, TornIsLine
  <2>2. Landed(s) = t
    BY <1>2 DEF Landed
  <2> HIDE DEF t
  <2>3. IdsOf(t) \subseteq IdsOf(s) /\ IdsOf(s) \subseteq IdsOf(t) \cup {s[1].id}
    <3>1. \A x \in IdsOf(t) : x \in IdsOf(s)
      BY <2>1, IdsAreOfLines, TornIsLine
    <3>2. \A x \in IdsOf(s) : x \in IdsOf(t) \/ x = s[1].id
      BY <2>1, IdsAreOfLines, TornIsLine
    <3> QED
      BY <3>1, <3>2
  <2>4. LinesInOrder(t)
    BY <2>1, IdsAreOfLines, TornIsLine DEF LinesInOrder
  <2> QED
    BY <2>1, <2>2, <2>3, <2>4 DEF t
<1> QED
  BY <1>1, <1>2

\* What is written behind a file comes behind it in order, and of it the first
\* line only is lost, in a half line.
LEMMA BehindKeepsOrder ==
    ASSUME NEW f \in Seq(Line), NEW s \in Seq(Line), LinesInOrder(f), LinesInOrder(s),
           Before(IdsOf(f), IdsOf(s))
    PROVE  /\ Behind(f, s) \in Seq(Line) /\ LinesInOrder(Behind(f, s))
           /\ Len(Behind(f, s)) = Len(f) + Len(s)
           /\ IdsOf(f) \subseteq IdsOf(Behind(f, s))
           /\ IdsOf(Behind(f, s)) \subseteq IdsOf(f) \cup IdsOf(s)
           /\ IdsOf(s) \subseteq IdsOf(Behind(f, s)) \cup (IF EndsTorn(f) THEN {s[1].id} ELSE {})
<1> DEFINE t == IF EndsTorn(f) THEN Landed(s) ELSE s
<1>1. /\ t \in Seq(Line) /\ LinesInOrder(t) /\ Len(t) = Len(s)
      /\ IdsOf(t) \subseteq IdsOf(s)
      /\ IdsOf(s) \subseteq IdsOf(t) \cup (IF EndsTorn(f) THEN {s[1].id} ELSE {})
  BY LandedKeepsOrder
<1>2. Before(IdsOf(f), IdsOf(t))
  BY <1>1 DEF Before
<1>3. Behind(f, s) = f \o t
  BY DEF Behind
<1> HIDE DEF t
<1>4. /\ f \o t \in Seq(Line) /\ LinesInOrder(f \o t) /\ Len(f \o t) = Len(f) + Len(t)
      /\ IdsOf(f \o t) = IdsOf(f) \cup IdsOf(t)
  BY <1>1, <1>2, TwoInOrder
<1> QED
  BY <1>1, <1>3, <1>4

\* What is left of lines that were cut short are the first of them.
LEMMA CutIsInOrder ==
    ASSUME NEW s \in Seq(Line), LinesInOrder(s), NEW c \in CutShort(s)
    PROVE  c \in Seq(Line) /\ LinesInOrder(c) /\ Len(c) <= Len(s) /\ IdsOf(c) \subseteq IdsOf(s)
<1>0. Len(s) \in Nat /\ DOMAIN s = 1..Len(s)
  OBVIOUS
<1>1. ASSUME NEW k \in 0..Len(s)
      PROVE  LET t == SubSeq(s, 1, k)
             IN  t \in Seq(Line) /\ Len(t) = k /\ \A i \in 1..k : t[i] = s[i]
  BY <1>0
<1>2. PICK k \in 0..Len(s) :
         /\ c \in Seq(Line) /\ Len(c) \in Nat /\ Len(c) <= Len(s)
         /\ \A i \in 1..Len(c) : (i \in 1..k /\ c[i] = s[i]) \/ c[i].id = 0
  <2>1. CASE \E k \in 0..Len(s) : c = SubSeq(s, 1, k)
    BY <1>0, <1>1, <2>1
  <2>2. CASE \E k \in 0..Len(s) - 1 : c = Append(SubSeq(s, 1, k), Torn)
    <3>1. PICK k \in 0..Len(s) - 1 : c = Append(SubSeq(s, 1, k), Torn)
      BY <2>2
    <3>2. k \in 0..Len(s) /\ k + 1 <= Len(s)
      BY <1>0
    <3> DEFINE t == SubSeq(s, 1, k)
    <3>3. t \in Seq(Line) /\ Len(t) = k /\ \A i \in 1..k : t[i] = s[i]
      BY <1>1, <3>2
    <3> HIDE DEF t
    <3>4. /\ Append(t, Torn) \in Seq(Line) /\ Len(Append(t, Torn)) = k + 1
          /\ \A i \in 1..k : Append(t, Torn)[i] = t[i]
          /\ Append(t, Torn)[k + 1] = Torn
      BY <3>3, TornIsLine
    <3>5. c = Append(t, Torn)
      BY <3>1 DEF t
    <3>6. \A i \in 1..Len(c) : i \in 1..k \/ i = k + 1
      BY <3>2, <3>4, <3>5
    <3> QED
      BY <3>2, <3>3, <3>4, <3>5, <3>6, TornIsLine
  <2> QED
    BY <2>1, <2>2 DEF CutShort
<1>3. IdsOf(c) \subseteq IdsOf(s)
  <2> SUFFICES ASSUME NEW x \in IdsOf(c) PROVE x \in IdsOf(s)
    OBVIOUS
  <2>1. PICK i \in 1..Len(c) : x = c[i].id /\ x # 0
    BY <1>2, IdsAreOfLines
  <2>2. i \in 1..Len(s) /\ c[i] = s[i]
    BY <1>0, <1>2, <2>1
  <2> QED
    BY <2>1, <2>2, IdsAreOfLines
<1>4. DOMAIN c = 1..Len(c)
  BY <1>2, IdsAreOfLines
<1>5. LinesInOrder(c)
  <2> SUFFICES ASSUME NEW i \in 1..Len(c), NEW m \in 1..Len(c), i < m, c[i].id # 0, c[m].id # 0
               PROVE  c[i].id < c[m].id
    BY <1>4 DEF LinesInOrder
  <2>1. i \in DOMAIN s /\ m \in DOMAIN s /\ c[i] = s[i] /\ c[m] = s[m]
    BY <1>0, <1>2
  <2> QED
    BY <2>1 DEF LinesInOrder
<1> QED
  BY <1>2, <1>3, <1>5

LEMMA AllIsCut ==
    ASSUME NEW s \in Seq(Line)
    PROVE  s \in CutShort(s)
<1>1. Len(s) \in 0..Len(s) /\ SubSeq(s, 1, Len(s)) = s
  OBVIOUS
<1> QED
  BY <1>1 DEF CutShort

\* A half line that is closed keeps its place.
LEMMA PaddedKeepsOrder ==
    ASSUME NEW f \in Seq(Line), LinesInOrder(f)
    PROVE  /\ Padded(f) \in Seq(Line) /\ Len(Padded(f)) = Len(f)
           /\ LinesInOrder(Padded(f)) /\ IdsOf(Padded(f)) = IdsOf(f)
<1>1. CASE EndsTorn(f)
  <2> DEFINE h == [f EXCEPT ![Len(f)] = Scrap]
  <2>1. Len(f) \in Nat /\ DOMAIN f = 1..Len(f) /\ f[Len(f)] = Torn /\ Len(f) \in 1..Len(f)
    BY <1>1 DEF EndsTorn
  <2>2. /\ h \in Seq(Line) /\ Len(h) = Len(f)
        /\ \A i \in 1..Len(f) : h[i] = IF i = Len(f) THEN Scrap ELSE f[i]
    BY <2>1, TornIsLine
  <2>3. Padded(f) = h
    BY <1>1 DEF Padded
  <2> HIDE DEF h
  <2>4. \A i \in 1..Len(f) : h[i].id = f[i].id
    BY <2>1, <2>2, TornIsLine
  <2>5. IdsOf(h) = IdsOf(f)
    <3>1. \A x : x \in IdsOf(f) <=> x # 0 /\ \E i \in 1..Len(f) : x = f[i].id
      BY IdsAreOfLines
    <3>2. \A x : x \in IdsOf(h) <=> x # 0 /\ \E i \in 1..Len(f) : x = h[i].id
      BY <2>2, IdsAreOfLines
    <3>3. \A x : x \in IdsOf(h) <=> x \in IdsOf(f)
      BY <2>4, <3>1, <3>2
    <3> QED
      BY <3>3
  <2>6. LinesInOrder(h)
    BY <2>2, <2>4, IdsAreOfLines DEF LinesInOrder
  <2> QED
    BY <2>2, <2>3, <2>5, <2>6
<1>2. CASE ~EndsTorn(f)
  BY <1>2 DEF Padded
<1> QED
  BY <1>1, <1>2

-----------------------------------------------------------------------------
LEMMA NoLines == LinesInOrder(<<>>) /\ IdsOf(<<>>) = {} /\ <<>> \in Seq(Line)
                 /\ Len(<<>>) = 0
BY DEF LinesInOrder, IdsOf

\* What fits, fits with less behind it.
LEMMA LessFits ==
    \A a, b, m \in Nat : a + 0 = a /\ (a + b <= m => a <= m)
OBVIOUS

LEMMA ShorterFits ==
    ASSUME NEW a \in Nat, NEW b \in Nat, NEW c \in Nat, NEW f \in Nat, NEW m \in Nat,
           c <= b, f <= a + c, a + b <= m
    PROVE  f + 0 <= m
OBVIOUS

LEMMA JournalNumbers ==
    /\ MaxLines \in Nat /\ MaxLines >= 1 /\ MaxFiles \in Nat /\ MaxFiles >= 1
    /\ 0 \in 0..MaxFiles
BY JournalAssumption

LEMMA HeldIsInFiles ==
    ASSUME NEW j
    PROVE  \A x : x \in Held(j) <=> \E n \in 0..MaxFiles : x \in IdsOf(FileOf(j, n))
BY DEF Held

LEMMA FilesAreLines ==
    ASSUME NEW j \in JournalState
    PROVE  /\ \A n \in 0..MaxFiles : FileOf(j, n) \in Seq(Line)
           /\ FileOf(j, 0) = j.disk
           /\ \A n \in 1..MaxFiles : FileOf(j, n) = j.old[n]
<1>1. FileOf(j, 0) = j.disk /\ \A n \in 1..MaxFiles : FileOf(j, n) = j.old[n]
  BY DEF FileOf
<1>2. \A n \in 0..MaxFiles : n = 0 \/ n \in 1..MaxFiles
  BY JournalNumbers
<1> QED
  BY <1>1, <1>2 DEF JournalState

\* The holes are finitely many, and a set without more than one other is no larger
\* by more than that one.
LEMMA HolesCount ==
    ASSUME NEW j, NEW e, HolesAreFew(j, e)
    PROVE  /\ IsFiniteSet(Holes(j)) /\ Cardinality(Holes(j)) \in Nat
           /\ \A T : T \subseteq Holes(j) =>
                  Cardinality(T) \in Nat /\ Cardinality(T) <= Cardinality(Holes(j))
           /\ \A T, x : T \subseteq Holes(j) \cup {x} =>
                  Cardinality(T) \in Nat /\ Cardinality(T) <= Cardinality(Holes(j)) + 1
<1>1. IsFiniteSet(1..e) /\ Holes(j) \subseteq 1..e
  BY FS_Interval DEF HolesAreFew, Holes
<1>2. IsFiniteSet(Holes(j))
  BY <1>1, FS_Subset
<1>3. Cardinality(Holes(j)) \in Nat
  BY <1>2, FS_CardinalityType
<1>4. \A T : T \subseteq Holes(j) =>
         Cardinality(T) \in Nat /\ Cardinality(T) <= Cardinality(Holes(j))
  BY <1>2, FS_Subset, FS_CardinalityType
<1>5. ASSUME NEW T, NEW x, T \subseteq Holes(j) \cup {x}
      PROVE  Cardinality(T) \in Nat /\ Cardinality(T) <= Cardinality(Holes(j)) + 1
  <2> DEFINE H == Holes(j)
  <2>1. IsFiniteSet(H) /\ Cardinality(H) \in Nat /\ T \subseteq H \cup {x}
    BY <1>2, <1>3, <1>5
  <2> HIDE DEF H
  <2>2. /\ IsFiniteSet(H \cup {x})
        /\ Cardinality(H \cup {x}) = IF x \in H THEN Cardinality(H) ELSE Cardinality(H) + 1
    BY <2>1, FS_AddElement
  <2>3. Cardinality(T) \in Nat /\ Cardinality(T) <= Cardinality(H \cup {x})
    BY <2>1, <2>2, FS_Subset, FS_CardinalityType
  <2> QED
    BY <2>1, <2>2, <2>3 DEF H
<1> QED
  BY <1>2, <1>3, <1>4, <1>5

\* A writer whose active file has the same events in the same order, and whose
\* buffer is gone, keeps as much, if its refused newlines pay for its end.
LEMMA SameFilesKept ==
    ASSUME NEW j \in JournalState, NEW i \in JournalState, NEW e, Kept(j, e),
           i.old = j.old, i.buf = <<>>, LinesInOrder(i.disk),
           IdsOf(i.disk) = IdsOf(j.disk), Len(i.disk) = Len(j.disk),
           i.size <= MaxLines, i.open => Len(i.disk) <= i.size, i.synced = j.synced,
           Cardinality(Holes(j)) + Due(i) <= i.refused
    PROVE  Kept(i, e) /\ Holes(i) = Holes(j)
<1>1. \A n \in 0..MaxFiles : /\ IdsOf(FileOf(i, n)) = IdsOf(FileOf(j, n))
                             /\ LinesInOrder(FileOf(i, n))
  <2>1. \A n \in 0..MaxFiles : n = 0 \/ n \in 1..MaxFiles
    BY JournalNumbers
  <2> QED
    BY <2>1, FilesAreLines DEF Kept, FilesInOrder
<1>2. \A x : x \in Held(i) <=> x \in Held(j)
  BY <1>1, HeldIsInFiles
<1>3. Held(i) = Held(j)
  BY <1>2
<1>4. FilesInOrder(i, e)
  BY <1>1, NoLines DEF Kept, FilesInOrder, Before
<1>5. HolesAreFew(i, e) /\ Holes(i) = Holes(j)
  <2>1. Holes(i) = Holes(j)
    BY <1>3 DEF Holes
  <2>2. Before(i.synced, IdsOf(i.buf)) /\ \A k \in DOMAIN i.buf : i.buf[k].id # 0
    BY NoLines DEF Before
  <2> QED
    BY <2>1, <2>2 DEF Kept, HolesAreFew
<1>6. SizesKept(i)
  <2>1. Len(j.disk) + Len(j.buf) <= MaxLines
    BY DEF Kept, SizesKept
  <2>2. Len(j.disk) \in Nat /\ Len(j.buf) \in Nat /\ Len(i.buf) = 0
    BY NoLines DEF JournalState
  <2>3. Len(j.disk) <= MaxLines /\ Len(j.disk) + 0 = Len(j.disk)
    BY <2>1, <2>2, JournalNumbers, LessFits
  <2> QED
    BY <2>2, <2>3 DEF Kept, SizesKept
<1> QED
  BY <1>4, <1>5, <1>6 DEF Kept

\* openActive keeps every event of the files, whether it closes a half line or not.
LEMMA OpenedIsKept ==
    ASSUME NEW j, NEW e, Kept(j, e), NEW closes \in BOOLEAN
    PROVE  /\ Kept(Opened(j, closes), e) /\ Opened(j, closes).buf = <<>>
           /\ Opened(j, closes).open
           /\ Holes(Opened(j, closes)) = Holes(j)
<1> DEFINE i == Opened(j, closes)
           f == IF closes THEN Padded(j.disk) ELSE j.disk
           r == j.refused + (IF EndsTorn(j.disk) /\ ~closes THEN 1 ELSE 0)
<1>1. j \in JournalState /\ j.disk \in Seq(Line) /\ LinesInOrder(j.disk) /\ j.refused \in Nat
  <2>1. j \in JournalState /\ LinesInOrder(FileOf(j, 0))
    BY JournalNumbers DEF Kept, FilesInOrder
  <2> QED
    BY <2>1, FilesAreLines DEF JournalState
<1>2. f \in Seq(Line) /\ Len(f) = Len(j.disk) /\ LinesInOrder(f) /\ IdsOf(f) = IdsOf(j.disk)
  BY <1>1, PaddedKeepsOrder
<1>3. i = [j EXCEPT !.disk = f, !.buf = <<>>, !.size = Len(j.disk), !.open = TRUE,
                    !.stuck = FALSE, !.refused = r]
  BY <1>1 DEF Opened, JournalState
<1>4. EndsTorn(f) => EndsTorn(j.disk) /\ ~closes
  <2>1. CASE EndsTorn(j.disk) /\ closes
    <3>1. f = [j.disk EXCEPT ![Len(j.disk)] = Scrap] /\ Len(j.disk) \in 1..Len(j.disk)
      BY <1>1, <2>1 DEF Padded, EndsTorn
    <3>2. f[Len(f)] = Scrap /\ Scrap # Torn
      BY <1>1, <1>2, <3>1 DEF Scrap, Torn
    <3> QED
      BY <3>2 DEF EndsTorn
  <2>2. CASE ~EndsTorn(j.disk)
    BY <2>2 DEF Padded
  <2> QED
    BY <2>1, <2>2
<1>5. r \in Nat /\ (EndsTorn(f) => r = j.refused + 1) /\ j.refused <= r
  BY <1>1, <1>4
<1> HIDE DEF f, i, r
<1>6. Len(j.disk) \in Nat /\ Len(j.disk) <= MaxLines
  <2>1. Len(j.disk) + Len(j.buf) <= MaxLines
    BY DEF Kept, SizesKept
  <2>2. Len(j.disk) \in Nat /\ Len(j.buf) \in Nat
    BY <1>1 DEF JournalState
  <2>3. Len(j.disk) <= MaxLines
    BY <2>1, <2>2, JournalNumbers, LessFits
  <2> QED
    BY <2>2, <2>3
<1>7. /\ i \in JournalState /\ i.old = j.old /\ i.disk = f /\ i.buf = <<>>
      /\ i.size = Len(j.disk) /\ i.synced = j.synced /\ i.refused = r /\ i.open
  BY <1>1, <1>2, <1>3, <1>5, <1>6, NoLines DEF JournalState
<1>8. Cardinality(Holes(j)) + Due(i) <= i.refused
  <2>1. /\ Cardinality(Holes(j)) \in Nat /\ Due(j) \in {0, 1}
        /\ Cardinality(Holes(j)) + Due(j) <= j.refused
    BY HolesCount DEF Kept, HolesAreFew, Due
  <2>2. Due(i) = 0 \/ (Due(i) = 1 /\ EndsTorn(f))
    BY <1>7 DEF Due, Exposed
  <2> QED
    BY <1>1, <1>5, <1>7, <2>1, <2>2
<1>9. Kept(i, e) /\ Holes(i) = Holes(j)
  BY <1>1, <1>2, <1>6, <1>7, <1>8, SameFilesKept
<1> QED
  BY <1>7, <1>9 DEF i

\* A write of the buffer, whole or cut short.
Wrote(j, cut, end, ids) ==
    [j EXCEPT !.disk = Behind(@, cut), !.buf = <<>>, !.stuck = (end = "refused"), !.synced = ids]

LEMMA WrittenInOrder ==
    ASSUME NEW j, NEW e, Kept(j, e), NEW cut \in CutShort(j.buf),
           NEW end, NEW ids \in SUBSET (1..e)
    PROVE  LET i == Wrote(j, cut, end, ids)
           IN  /\ i \in JournalState /\ FilesInOrder(i, e) /\ SizesKept(i)
               /\ i.disk = Behind(j.disk, cut) /\ i.buf = <<>> /\ (i.stuck <=> end = "refused")
               /\ i.open = j.open /\ i.synced = ids /\ i.refused = j.refused
               /\ Held(i) \subseteq Held(j) \cup IdsOf(j.buf)
               /\ Held(j) \cup (IdsOf(cut) \ IF EndsTorn(j.disk) THEN {cut[1].id} ELSE {})
                     \subseteq Held(i)
<1> DEFINE i == Wrote(j, cut, end, ids)
           stuck == (end = "refused")
           f == Behind(j.disk, cut)
<1>1. /\ j \in JournalState /\ j.disk \in Seq(Line) /\ LinesInOrder(j.disk)
      /\ j.buf \in Seq(Line) /\ LinesInOrder(j.buf) /\ FileOf(j, 0) = j.disk
  <2>1. j \in JournalState /\ LinesInOrder(FileOf(j, 0)) /\ LinesInOrder(j.buf)
    BY JournalNumbers DEF Kept, FilesInOrder
  <2> QED
    BY <2>1, FilesAreLines DEF JournalState
<1>2. /\ cut \in Seq(Line) /\ LinesInOrder(cut) /\ Len(cut) <= Len(j.buf)
      /\ IdsOf(cut) \subseteq IdsOf(j.buf)
  BY <1>1, CutIsInOrder
<1>3. IdsOf(j.disk) \subseteq Held(j)
  BY <1>1, JournalNumbers, HeldIsInFiles
<1>4. Before(IdsOf(j.disk), IdsOf(cut))
  BY <1>2, <1>3 DEF Kept, FilesInOrder, Before
<1>5. /\ f \in Seq(Line) /\ LinesInOrder(f) /\ Len(f) <= Len(j.disk) + Len(cut)
      /\ IdsOf(j.disk) \subseteq IdsOf(f) /\ IdsOf(f) \subseteq IdsOf(j.disk) \cup IdsOf(cut)
  BY <1>1, <1>2, <1>4, BehindKeepsOrder
<1>6. i = [j EXCEPT !.disk = f, !.buf = <<>>, !.stuck = stuck, !.synced = ids]
  BY <1>1 DEF JournalState, Wrote
<1>61. IdsOf(cut) \subseteq IdsOf(f) \cup (IF EndsTorn(j.disk) THEN {cut[1].id} ELSE {})
  BY <1>1, <1>2, <1>4, BehindKeepsOrder
<1>62. ids \in SUBSET Nat /\ f = Behind(j.disk, cut)
  BY DEF Kept, HolesAreFew
<1> HIDE DEF f, i
<1>7. /\ i \in JournalState /\ i.old = j.old /\ i.disk = f /\ i.buf = <<>>
      /\ i.size = j.size /\ i.open = j.open /\ i.stuck = stuck /\ i.synced = ids
      /\ i.refused = j.refused
  BY <1>1, <1>5, <1>6, <1>62, NoLines DEF JournalState
<1>8. FileOf(i, 0) = f /\ \A n \in 1..MaxFiles : FileOf(i, n) = FileOf(j, n)
  BY <1>7 DEF FileOf
<1>9. \A n \in 0..MaxFiles : n = 0 \/ n \in 1..MaxFiles
  BY JournalNumbers
<1>10. IdsOf(f) \subseteq IdsOf(FileOf(j, 0)) \cup IdsOf(j.buf)
  BY <1>1, <1>2, <1>5
<1>11. Held(i) \subseteq Held(j) \cup IdsOf(j.buf) /\ Held(j) \subseteq Held(i)
  <2>1. \A x \in Held(i) : x \in Held(j) \cup IdsOf(j.buf)
    BY <1>8, <1>9, <1>10, HeldIsInFiles
  <2>2. \A x \in Held(j) : x \in Held(i)
    BY <1>1, <1>5, <1>8, <1>9, HeldIsInFiles
  <2> QED
    BY <2>1, <2>2
<1>12. FilesInOrder(i, e)
  <2>1. \A n \in 0..MaxFiles : LinesInOrder(FileOf(i, n)) /\ IdsOf(FileOf(i, n)) \subseteq 1..e
    BY <1>5, <1>8, <1>9, <1>10 DEF Kept, FilesInOrder
  <2>2. ASSUME NEW m \in 0..MaxFiles, NEW n \in 0..MaxFiles, m > n,
               NEW x \in IdsOf(FileOf(i, m)), NEW y \in IdsOf(FileOf(i, n))
        PROVE  x < y
    <3>1. m \in 1..MaxFiles /\ x \in IdsOf(FileOf(j, m)) /\ x \in Held(j)
      BY <1>8, <2>2, HeldIsInFiles
    <3>2. CASE y \in IdsOf(FileOf(j, n))
      BY <2>2, <3>1, <3>2 DEF Kept, FilesInOrder, Before
    <3>3. CASE y \in IdsOf(j.buf)
      BY <3>1, <3>3 DEF Kept, FilesInOrder, Before
    <3> QED
      BY <1>8, <1>9, <1>10, <3>2, <3>3
  <2>3. \A m, n \in 0..MaxFiles :
           m > n => Before(IdsOf(FileOf(i, m)), IdsOf(FileOf(i, n)))
    BY <2>2 DEF Before
  <2>4. LinesInOrder(i.buf) /\ IdsOf(i.buf) \subseteq 1..e /\ Before(Held(i), IdsOf(i.buf))
    BY <1>7, NoLines DEF Before
  <2> QED
    BY <2>1, <2>3, <2>4 DEF FilesInOrder
<1>13. IdsOf(f) \subseteq Held(i)
  BY <1>8, JournalNumbers, HeldIsInFiles
<1>14. SizesKept(i)
  <2>1. Len(j.disk) \in Nat /\ Len(j.buf) \in Nat /\ Len(cut) \in Nat /\ Len(f) \in Nat
    BY <1>1, <1>2, <1>5
  <2>2. Len(j.disk) + Len(j.buf) <= MaxLines /\ j.size \in Nat
        /\ (j.open => Len(j.disk) + Len(j.buf) <= j.size)
    BY <1>1 DEF Kept, SizesKept, JournalState
  <2>3. ASSUME NEW m \in Nat, Len(j.disk) + Len(j.buf) <= m
        PROVE  Len(f) + 0 <= m
    <3>1. Len(cut) <= Len(j.buf) /\ Len(f) <= Len(j.disk) + Len(cut)
      BY <1>2, <1>5
    <3> QED
      BY <2>1, <2>3, <3>1, ShorterFits, Zenon
  <2>4. Len(f) + 0 <= MaxLines /\ (j.open => Len(f) + 0 <= j.size)
    BY <2>2, <2>3, JournalNumbers
  <2>5. Len(i.buf) = 0
    BY <1>7, NoLines
  <2> QED
    BY <1>7, <2>4, <2>5 DEF Kept, SizesKept
<1> QED
  BY <1>7, <1>11, <1>12, <1>13, <1>14, <1>61, <1>62 DEF i, stuck

\* A write that was cut short, or whose process is no more.
LEMMA WrittenIsKept ==
    ASSUME NEW j, NEW e, Kept(j, e), NEW cut \in CutShort(j.buf)
    PROVE  Kept(Wrote(j, cut, "refused", j.synced), e)
<1> DEFINE i == Wrote(j, cut, "refused", j.synced)
<1>0. j.synced \in SUBSET (1..e) /\ e \in Nat
  BY DEF Kept, HolesAreFew
<1>1. /\ i \in JournalState /\ FilesInOrder(i, e) /\ SizesKept(i)
      /\ i.buf = <<>> /\ i.stuck /\ i.synced = j.synced /\ i.refused = j.refused
      /\ Held(i) \subseteq Held(j) \cup IdsOf(j.buf) /\ Held(j) \subseteq Held(i)
  BY <1>0, WrittenInOrder
<1> HIDE DEF i
<1>2. Holes(i) \subseteq Holes(j)
  <2> SUFFICES ASSUME NEW x \in j.synced, x \notin Held(i), NEW k \in Held(i), k < x
               PROVE  x \in Holes(j)
    BY <1>1 DEF Holes
  <2>1. CASE k \in Held(j)
    BY <1>1, <2>1 DEF Holes
  <2>2. CASE k \in IdsOf(j.buf)
    <3>1. x < k
      BY <2>2 DEF Kept, HolesAreFew, Before
    <3>2. x \in Nat /\ k \in Nat
      BY <1>0, <2>2 DEF Kept, FilesInOrder
    <3> QED
      BY <3>1, <3>2
  <2> QED
    BY <1>1, <2>1, <2>2
<1>3. Cardinality(Holes(i)) + Due(i) <= i.refused
  <2>1. Due(i) = 0 /\ Due(j) \in {0, 1} /\ Cardinality(Holes(j)) + Due(j) <= j.refused
    BY <1>1 DEF Due, Exposed, Kept, HolesAreFew
  <2>2. Cardinality(Holes(i)) \in Nat /\ Cardinality(Holes(i)) <= Cardinality(Holes(j))
        /\ Cardinality(Holes(j)) \in Nat /\ j.refused \in Nat
    BY <1>2, HolesCount DEF Kept, JournalState
  <2> QED
    BY <1>1, <2>1, <2>2
<1>4. Before(i.synced, IdsOf(i.buf)) /\ \A k \in DOMAIN i.buf : i.buf[k].id # 0
  BY <1>1, NoLines DEF Before
<1> QED
  BY <1>0, <1>1, <1>3, <1>4 DEF Kept, HolesAreFew, i

\* A write and a sync that went well: what lands in a half line was paid for.
LEMMA FlushedIsKept ==
    ASSUME NEW j, NEW e, Kept(j, e), ~j.stuck
    PROVE  Kept(Flushed(j), e) /\ Flushed(j).buf = <<>> /\ ~Flushed(j).stuck
           /\ Flushed(j).open = j.open
<1> DEFINE ids == j.synced \cup IdsOf(j.buf)
           i == Wrote(j, j.buf, "done", ids)
           Lost == IF EndsTorn(j.disk) THEN {j.buf[1].id} ELSE {}
<1>0. /\ ids \in SUBSET (1..e) /\ e \in Nat /\ j \in JournalState /\ j.buf \in Seq(Line)
      /\ j.disk \in Seq(Line) /\ LinesInOrder(j.buf) /\ j.refused \in Nat
  BY DEF Kept, HolesAreFew, FilesInOrder, JournalState
<1>1. Flushed(j) = i
  BY <1>0 DEF Flushed, Wrote, JournalState
<1>2. /\ i \in JournalState /\ FilesInOrder(i, e) /\ SizesKept(i)
      /\ i.disk = Behind(j.disk, j.buf) /\ i.buf = <<>> /\ ~i.stuck
      /\ i.open = j.open /\ i.synced = ids /\ i.refused = j.refused
      /\ Held(i) \subseteq Held(j) \cup IdsOf(j.buf)
      /\ Held(j) \cup (IdsOf(j.buf) \ Lost) \subseteq Held(i)
  <2>1. j.buf \in CutShort(j.buf) /\ "done" # "refused"
    BY <1>0, AllIsCut
  <2> HIDE DEF ids
  <2> QED
    BY <1>0, <2>1, WrittenInOrder DEF Lost
<1> HIDE DEF i
<1>3. ASSUME NEW x \in Holes(i)
      PROVE  x \in Holes(j) \/ (x \in Lost /\ j.buf # <<>>)
  <2>1. PICK k \in Held(i) : k < x /\ x \in ids /\ x \notin Held(i)
    BY <1>2, <1>3 DEF Holes
  <2>2. CASE x \in IdsOf(j.buf)
    BY <1>2, <2>1, <2>2, NoLines
  <2>3. CASE x \in j.synced /\ k \in Held(j)
    BY <1>2, <2>1, <2>3 DEF Holes
  <2>4. CASE x \in j.synced /\ k \in IdsOf(j.buf)
    <3>1. x < k
      BY <2>4 DEF Kept, HolesAreFew, Before
    <3>2. x \in Nat /\ k \in Nat
      BY <1>0, <2>1, <2>4
    <3> QED
      BY <2>1, <3>1, <3>2
  <2> QED
    BY <1>2, <2>1, <2>2, <2>3, <2>4
<1>4. /\ Cardinality(Holes(j)) \in Nat /\ Due(j) \in {0, 1}
      /\ Cardinality(Holes(j)) + Due(j) <= j.refused
  BY HolesCount DEF Kept, HolesAreFew, Due
<1>5. Cardinality(Holes(i)) + Due(i) <= i.refused
  <2>1. CASE j.buf = <<>> \/ ~EndsTorn(j.disk)
    <3>1. Holes(i) \subseteq Holes(j)
      BY <1>3, <2>1
    <3>2. Due(i) <= Due(j) /\ Due(i) \in {0, 1}
      <4>1. CASE j.buf = <<>>
        <5>1. Landed(<<>>) = <<>> /\ j.disk \o <<>> = j.disk
          BY <1>0 DEF Landed
        <5>2. i.disk = j.disk
          BY <1>2, <4>1, <5>1 DEF Behind
        <5> QED
          BY <1>2, <5>2 DEF Due, Exposed
      <4>2. CASE j.buf # <<>> /\ ~EndsTorn(j.disk)
        <5>1. i.disk = j.disk \o j.buf
          BY <1>2, <4>2 DEF Behind
        <5>2. /\ Len(j.buf) \in 1..Len(j.buf) /\ Len(i.disk) = Len(j.disk) + Len(j.buf)
              /\ i.disk[Len(i.disk)] = j.buf[Len(j.buf)]
          BY <1>0, <4>2, <5>1, LastOfTwo
        <5>3. j.buf[Len(j.buf)].id # 0
          BY <1>0, <5>2 DEF Kept, HolesAreFew
        <5>4. ~EndsTorn(i.disk)
          BY <5>2, <5>3, TornIsLine DEF EndsTorn
        <5> QED
          BY <5>4 DEF Due, Exposed
      <4> QED
        BY <2>1, <4>1, <4>2
    <3>3. Cardinality(Holes(i)) \in Nat /\ Cardinality(Holes(i)) <= Cardinality(Holes(j))
      BY <3>1, HolesCount DEF Kept
    <3> QED
      BY <1>0, <1>2, <1>4, <3>2, <3>3
  <2>2. CASE j.buf # <<>> /\ EndsTorn(j.disk)
    <3>1. Holes(i) \subseteq Holes(j) \cup {j.buf[1].id}
      BY <1>3, <2>2
    <3>2. Cardinality(Holes(i)) \in Nat /\ Cardinality(Holes(i)) <= Cardinality(Holes(j)) + 1
      BY <3>1, HolesCount DEF Kept
    <3>3. Due(j) = 1
      BY <1>0, <2>2 DEF Due, Exposed, Kept, SizesKept, JournalState
    <3>4. Due(i) = 0
      <4>1. 1 \in 1..Len(j.buf) /\ Len(j.buf) \in 1..Len(j.buf) /\ DOMAIN j.buf = 1..Len(j.buf)
        BY <1>0, <2>2
      <4>2. j.buf[1] # Torn /\ j.buf[Len(j.buf)] # Torn
        BY <4>1, TornIsLine DEF Kept, HolesAreFew
      <4> DEFINE t == [j.buf EXCEPT ![1] = Scrap]
      <4>3. t \in Seq(Line) /\ Len(t) = Len(j.buf) /\ t[Len(t)] # Torn
        BY <1>0, <4>1, <4>2, TornIsLine DEF Scrap, Torn
      <4>4. i.disk = j.disk \o t
        BY <1>2, <2>2, <4>2 DEF Behind, Landed
      <4> HIDE DEF t
      <4>5. Len(i.disk) = Len(j.disk) + Len(t) /\ i.disk[Len(i.disk)] = t[Len(t)]
        <5>1. t # <<>>
          BY <4>1, <4>3
        <5> QED
          BY <1>0, <4>3, <4>4, <5>1, LastOfTwo
      <4> QED
        BY <4>3, <4>5 DEF Due, Exposed, EndsTorn
    <3> QED
      BY <1>0, <1>2, <1>4, <3>2, <3>3, <3>4
  <2> QED
    BY <2>1, <2>2
<1>6. Before(i.synced, IdsOf(i.buf)) /\ \A k \in DOMAIN i.buf : i.buf[k].id # 0
  BY <1>2, NoLines DEF Before
<1> QED
  BY <1>0, <1>1, <1>2, <1>5, <1>6 DEF Kept, HolesAreFew

\* The files after n renames of a rotation: each is where it was or one further,
\* the last is gone, and so none has passed another.
LEMMA RotatedIsKept ==
    ASSUME NEW j, NEW e, Kept(j, e), j.buf = <<>>, NEW n \in 0..MaxFiles + 1,
           NEW i \in JournalState, i.old = Shifted(j.old, j.disk, n),
           i.disk = IF n = MaxFiles + 1 THEN <<>> ELSE j.disk,
           i.buf = <<>>, i.size = j.size, i.stuck = j.stuck, i.open => j.open,
           i.synced = j.synced, i.refused = j.refused
    PROVE  Kept(i, e)
<1> DEFINE old == Shifted(j.old, j.disk, n)
           disk == IF n = MaxFiles + 1 THEN <<>> ELSE j.disk
           from(m) == IF m + n > MaxFiles + 1 /\ m # 0 THEN m - 1 ELSE m
           Gone(m) == IF m = 0 THEN n = MaxFiles + 1 ELSE m + n = MaxFiles + 1
<1>0. /\ j \in JournalState /\ MaxFiles \in Nat /\ MaxFiles >= 1 /\ n \in Nat
      /\ j.old \in [1..MaxFiles -> Seq(Line)] /\ j.disk \in Seq(Line)
      /\ j.open \in BOOLEAN /\ j.size \in Nat
  <2>1. j \in JournalState
    BY DEF Kept
  <2>2. MaxFiles \in Nat /\ MaxFiles >= 1 /\ n \in Nat
    BY JournalNumbers
  <2>3. /\ j.old \in [1..MaxFiles -> Seq(Line)] /\ j.disk \in Seq(Line)
        /\ j.open \in BOOLEAN /\ j.size \in Nat
    BY <2>1 DEF JournalState
  <2> QED
    BY <2>1, <2>2, <2>3
<1>1. \A m \in 1..MaxFiles :
         old[m] = IF m + n > MaxFiles + 1 THEN (IF m = 1 THEN j.disk ELSE j.old[m - 1])
                  ELSE IF m + n = MaxFiles + 1 THEN <<>> ELSE j.old[m]
  BY DEF Shifted, NoFile
<1>6. i.old = old /\ i.disk = disk /\ i.buf = <<>>
  OBVIOUS
<1>7. ASSUME NEW m \in 0..MaxFiles
      PROVE  /\ from(m) \in 0..MaxFiles
             /\ Gone(m) => FileOf(i, m) = <<>>
             /\ ~Gone(m) => FileOf(i, m) = FileOf(j, from(m))
  <2>0. from(m) \in 0..MaxFiles
    BY <1>0
  <2>1. CASE m = 0
    <3>1. FileOf(i, m) = disk /\ from(m) = 0 /\ FileOf(j, 0) = j.disk
      BY <1>6, <2>1 DEF FileOf
    <3> QED
      BY <2>0, <2>1, <3>1
  <2>2. CASE m # 0
    <3>1. m \in 1..MaxFiles /\ FileOf(i, m) = old[m]
      BY <1>6, <2>2 DEF FileOf
    <3>2. CASE m + n > MaxFiles + 1
      <4>1. ~Gone(m) /\ from(m) = m - 1
        BY <1>0, <2>2, <3>2
      <4>2. FileOf(j, m - 1) = IF m = 1 THEN j.disk ELSE j.old[m - 1]
        BY <3>1 DEF FileOf
      <4> QED
        BY <1>1, <2>0, <3>1, <3>2, <4>1, <4>2
    <3>3. CASE m + n = MaxFiles + 1
      BY <1>0, <1>1, <2>0, <2>2, <3>1, <3>3
    <3>4. CASE m + n < MaxFiles + 1
      <4>1. ~Gone(m) /\ from(m) = m /\ FileOf(j, m) = j.old[m]
        BY <1>0, <2>2, <3>1, <3>4 DEF FileOf
      <4>2. ~(m + n > MaxFiles + 1) /\ m + n # MaxFiles + 1
        BY <1>0, <3>1, <3>4
      <4> QED
        BY <1>1, <2>0, <3>1, <4>1, <4>2
    <3> QED
      BY <1>0, <3>1, <3>2, <3>3, <3>4
  <2> QED
    BY <2>1, <2>2
<1>8. \A m, k \in 0..MaxFiles : m > k /\ ~Gone(m) /\ ~Gone(k) => from(m) > from(k)
  BY <1>0
<1>9. \A p \in 0..MaxFiles :
         \/ p = MaxFiles /\ \A m \in 0..MaxFiles : ~Gone(m) => from(m) < p
         \/ \E m \in 0..MaxFiles : ~Gone(m) /\ from(m) = p
  <2> SUFFICES ASSUME NEW p \in 0..MaxFiles,
                      \A m \in 0..MaxFiles : ~Gone(m) => from(m) # p
               PROVE  p = MaxFiles /\ \A m \in 0..MaxFiles : ~Gone(m) => from(m) < p
    OBVIOUS
  <2>1. p = MaxFiles
    <3>1. Gone(p) \/ from(p) # p
      OBVIOUS
    <3>2. p + n >= MaxFiles + 1
      BY <1>0, <3>1
    <3>3. CASE p < MaxFiles
      <4>1. p + 1 \in 0..MaxFiles /\ (p + 1) + n > MaxFiles + 1 /\ p + 1 # 0
        BY <1>0, <3>2, <3>3
      <4>2. ~Gone(p + 1) /\ from(p + 1) = p
        BY <1>0, <4>1
      <4> QED
        BY <4>1, <4>2
    <3> QED
      BY <1>0, <3>3
  <2>2. \A m \in 0..MaxFiles : from(m) <= m
    BY <1>0
  <2> HIDE DEF from, Gone
  <2> QED
    BY <1>0, <1>7, <2>1
<1> HIDE DEF from, Gone, old, disk
<1>10. ASSUME NEW x \in Held(i)
       PROVE  \E m \in 0..MaxFiles : ~Gone(m) /\ x \in IdsOf(FileOf(j, from(m)))
  <2>1. PICK m \in 0..MaxFiles : x \in IdsOf(FileOf(i, m))
    BY <1>10, HeldIsInFiles
  <2>2. ~Gone(m)
    BY <1>7, <2>1, NoLines
  <2> QED
    BY <1>7, <2>1, <2>2
<1>11. FilesInOrder(i, e)
  <2>1. ASSUME NEW m \in 0..MaxFiles
        PROVE  LinesInOrder(FileOf(i, m)) /\ IdsOf(FileOf(i, m)) \subseteq 1..e
    BY <1>7, NoLines DEF Kept, FilesInOrder
  <2>2. ASSUME NEW m \in 0..MaxFiles, NEW k \in 0..MaxFiles, m > k
        PROVE  Before(IdsOf(FileOf(i, m)), IdsOf(FileOf(i, k)))
    <3>1. CASE Gone(m) \/ Gone(k)
      BY <1>7, <3>1, NoLines DEF Before
    <3>2. CASE ~Gone(m) /\ ~Gone(k)
      BY <1>7, <1>8, <2>2, <3>2 DEF Kept, FilesInOrder
    <3> QED
      BY <3>1, <3>2
  <2>3. LinesInOrder(i.buf) /\ IdsOf(i.buf) \subseteq 1..e /\ Before(Held(i), IdsOf(i.buf))
    BY <1>6, NoLines DEF Before
  <2> QED
    BY <2>1, <2>2, <2>3 DEF FilesInOrder
<1>12. HolesAreFew(i, e)
  <2>1. ASSUME NEW x \in Held(j) \ Held(i), NEW y \in Held(i) PROVE x < y
    <3>1. PICK m \in 0..MaxFiles : ~Gone(m) /\ y \in IdsOf(FileOf(j, from(m)))
      BY <1>10
    <3>2. from(m) \in 0..MaxFiles
      BY <1>7
    <3>3. PICK p \in 0..MaxFiles : x \in IdsOf(FileOf(j, p))
      BY <2>1, HeldIsInFiles
    <3>4. \A k \in 0..MaxFiles : ~Gone(k) => from(k) # p
      BY <1>7, <2>1, <3>3, HeldIsInFiles
    <3>5. from(m) < p
      BY <1>9, <3>1, <3>4
    <3> QED
      BY <3>1, <3>2, <3>3, <3>5 DEF Kept, FilesInOrder, Before
  <2>2. \A x \in Held(i) : x \in Held(j)
    BY <1>7, <1>10, HeldIsInFiles
  <2>3. \A x \in Held(j) : x \in Nat
    BY HeldIsInFiles DEF Kept, FilesInOrder
  <2>4. Holes(i) \subseteq Holes(j)
    <3> SUFFICES ASSUME NEW x \in j.synced, x \notin Held(i), NEW k \in Held(i), k < x
                 PROVE  x \in Holes(j)
      BY DEF Holes
    <3>1. x \notin Held(j)
      <4>1. ASSUME x \in Held(j) PROVE FALSE
        BY <2>1, <2>2, <2>3, <4>1
      <4> QED
        BY <4>1
    <3> QED
      BY <2>2, <3>1 DEF Holes
  <2>5. /\ Cardinality(Holes(j)) \in Nat /\ Cardinality(Holes(j)) + Due(j) <= j.refused
        /\ Cardinality(Holes(i)) \in Nat /\ Cardinality(Holes(i)) <= Cardinality(Holes(j))
    BY <2>4, HolesCount DEF Kept, HolesAreFew
  <2>6. Due(i) <= Due(j) /\ Due(i) \in {0, 1} /\ Due(j) \in {0, 1}
    <3>1. CASE disk = <<>>
      BY <1>6, <3>1 DEF Due, Exposed, EndsTorn
    <3>2. CASE disk = j.disk
      BY <1>6, <3>2 DEF Due, Exposed
    <3> QED
      BY <3>1, <3>2 DEF disk
  <2>7. j.refused \in Nat
    BY <1>0 DEF JournalState
  <2>8. Cardinality(Holes(i)) + Due(i) <= i.refused
    BY <2>5, <2>6, <2>7
  <2>9. Before(i.synced, IdsOf(i.buf)) /\ \A k \in DOMAIN i.buf : i.buf[k].id # 0
    BY <1>6, NoLines DEF Before
  <2> QED
    BY <2>8, <2>9 DEF Kept, HolesAreFew
<1>13. SizesKept(i)
  <2>1. /\ Len(j.disk) \in Nat /\ Len(j.buf) = 0 /\ Len(i.buf) = 0
        /\ Len(disk) = 0 \/ disk = j.disk
    BY <1>0, <1>6, NoLines DEF disk
  <2>2. /\ Len(j.disk) + 0 <= MaxLines /\ (j.open => Len(j.disk) + 0 <= j.size)
        /\ \A m \in 1..MaxFiles : Len(j.old[m]) <= MaxLines
        /\ j.size <= MaxLines
    BY <2>1 DEF Kept, SizesKept
  <2>3. Len(j.disk) <= MaxLines
    BY <2>1, <2>2
  <2>4. \A m \in 1..MaxFiles : Len(old[m]) <= MaxLines
    <3>1. \A m \in 1..MaxFiles : m = 1 \/ m - 1 \in 1..MaxFiles
      BY <1>0
    <3>2. Len(<<>>) <= MaxLines
      BY NoLines, JournalNumbers
    <3>3. ASSUME NEW m \in 1..MaxFiles
          PROVE  old[m] \in {<<>>, j.disk} \cup {j.old[k] : k \in 1..MaxFiles}
      BY <1>1, <3>1
    <3> QED
      BY <2>2, <2>3, <3>2, <3>3
  <2>5. Len(disk) + 0 <= MaxLines
    BY <2>1, <2>2, JournalNumbers
  <2>6. i.open => Len(disk) + 0 <= j.size
    BY <1>0, <2>1, <2>2
  <2> QED
    BY <1>6, <2>1, <2>2, <2>4, <2>5, <2>6 DEF SizesKept
<1> QED
  BY <1>11, <1>12, <1>13 DEF Kept

\* Append's line goes behind all there is.
LEMMA BufferedIsKept ==
    ASSUME NEW j, NEW e, Kept(j, e), j.open, ~j.stuck,
           j.size + 1 <= MaxLines
    PROVE  Kept(Buffers(j, e + 1).j, e + 1)
<1> DEFINE line == [id |-> e + 1, seq |-> j.seq + 1]
           buf == Append(j.buf, line)
           i == [j EXCEPT !.buf = Append(@, [id |-> e + 1, seq |-> j.seq + 1]),
                          !.size = @ + 1, !.seq = @ + 1]
<1>0. /\ j \in JournalState /\ j.buf \in Seq(Line) /\ j.disk \in Seq(Line) /\ e \in Nat
      /\ j.size \in Nat /\ j.seq \in Nat /\ Len(j.buf) \in Nat /\ Len(j.disk) \in Nat
  BY DEF Kept, JournalState, HolesAreFew
<1>1. Buffers(j, e + 1).j = i
  BY DEF Buffers
<1>2. line \in Line /\ line.id = e + 1
  BY <1>0 DEF Line
<1> HIDE DEF line
<1>3. /\ buf \in Seq(Line) /\ Len(buf) = Len(j.buf) + 1
      /\ \A k \in 1..Len(j.buf) : buf[k] = j.buf[k]
      /\ buf[Len(j.buf) + 1] = line
  BY <1>0, <1>2
<1>4. i = [j EXCEPT !.buf = buf, !.size = j.size + 1, !.seq = j.seq + 1]
  BY <1>0 DEF line, JournalState
<1> HIDE DEF buf, i
<1>5. /\ i \in JournalState /\ i.old = j.old /\ i.disk = j.disk /\ i.buf = buf
      /\ i.size = j.size + 1 /\ i.open = j.open /\ i.stuck = j.stuck
      /\ i.synced = j.synced /\ i.refused = j.refused
  <2>1. j.size + 1 \in Nat /\ j.seq + 1 \in Nat
    BY <1>0
  <2>2. \A x, y : [j EXCEPT !.buf = buf, !.size = x, !.seq = y].size = x
    BY <1>0 DEF JournalState
  <2>3. \A x, y \in Nat : [j EXCEPT !.buf = buf, !.size = x, !.seq = y] \in JournalState
    BY <1>0, <1>3 DEF JournalState
  <2>4. i.size = j.size + 1 /\ i \in JournalState
    BY <1>4, <2>1, <2>2, <2>3
  <2>5. /\ i.old = j.old /\ i.disk = j.disk /\ i.buf = buf
        /\ i.open = j.open /\ i.stuck = j.stuck
        /\ i.synced = j.synced /\ i.refused = j.refused
    BY <1>0, <1>4 DEF JournalState
  <2> QED
    BY <2>4, <2>5
<1>6. \A k \in 1..Len(buf) : k \in 1..Len(j.buf) \/ k = Len(j.buf) + 1
  BY <1>0, <1>3
<1>7. IdsOf(j.buf) \subseteq 1..e /\ LinesInOrder(j.buf)
  BY DEF Kept, FilesInOrder
<1>8. ASSUME NEW x \in IdsOf(buf) PROVE x \in IdsOf(j.buf) \/ x = e + 1
  <2>1. PICK k \in 1..Len(buf) : x = buf[k].id /\ x # 0
    BY <1>3, <1>8, IdsAreOfLines
  <2> QED
    BY <1>0, <1>2, <1>3, <1>6, <2>1, IdsAreOfLines
<1>9. LinesInOrder(buf)
  <2> SUFFICES ASSUME NEW a \in 1..Len(buf), NEW b \in 1..Len(buf), a < b,
                      buf[a].id # 0, buf[b].id # 0
               PROVE  buf[a].id < buf[b].id
    BY <1>3, IdsAreOfLines DEF LinesInOrder
  <2>1. a \in 1..Len(j.buf) /\ buf[a] = j.buf[a]
    BY <1>0, <1>3, <1>6
  <2>2. CASE b \in 1..Len(j.buf)
    <3>1. buf[b] = j.buf[b]
      BY <1>3, <2>2
    <3> QED
      BY <1>0, <1>7, <2>1, <2>2, <3>1, IdsAreOfLines DEF LinesInOrder
  <2>3. CASE b = Len(j.buf) + 1
    <3>0. \A x \in 1..e : x < e + 1
      BY <1>0
    <3>1. buf[b].id = e + 1
      BY <1>2, <1>3, <2>3
    <3>2. buf[a].id \in IdsOf(j.buf)
      BY <1>0, <2>1, IdsAreOfLines
    <3>3. buf[a].id \in 1..e
      BY <1>7, <3>2
    <3> QED
      BY <3>0, <3>1, <3>3
  <2> QED
    BY <1>6, <2>2, <2>3
<1>10. \A n \in 0..MaxFiles : FileOf(i, n) = FileOf(j, n)
  BY <1>5 DEF FileOf
<1>11. Held(i) = Held(j)
  <2>1. \A x : x \in Held(i) <=> x \in Held(j)
    BY <1>10, HeldIsInFiles
  <2> QED
    BY <2>1
<1>12. 1..e \subseteq 1..(e + 1) /\ e + 1 \in 1..(e + 1) /\ \A x \in 1..e : x < e + 1
  BY <1>0
<1>13. Held(j) \subseteq 1..e
  <2>1. \A x : x \in Held(j) => x \in 1..e
    BY HeldIsInFiles DEF Kept, FilesInOrder
  <2> QED
    BY <2>1
<1>14. FilesInOrder(i, e + 1)
  <2>1. \A n \in 0..MaxFiles :
           LinesInOrder(FileOf(i, n)) /\ IdsOf(FileOf(i, n)) \subseteq 1..(e + 1)
    BY <1>10, <1>12 DEF Kept, FilesInOrder
  <2>2. \A m, n \in 0..MaxFiles :
           m > n => Before(IdsOf(FileOf(i, m)), IdsOf(FileOf(i, n)))
    BY <1>10 DEF Kept, FilesInOrder
  <2>3. LinesInOrder(i.buf) /\ IdsOf(i.buf) \subseteq 1..(e + 1)
    BY <1>5, <1>7, <1>8, <1>9, <1>12
  <2>4. Before(Held(i), IdsOf(i.buf))
    BY <1>5, <1>8, <1>11, <1>12, <1>13 DEF Kept, FilesInOrder, Before
  <2> QED
    BY <2>1, <2>2, <2>3, <2>4 DEF FilesInOrder
<1>15. HolesAreFew(i, e + 1)
  <2>1. j.synced \subseteq 1..e
    BY DEF Kept, HolesAreFew
  <2>2. Before(i.synced, IdsOf(i.buf))
    BY <1>5, <1>8, <1>12, <2>1 DEF Kept, HolesAreFew, Before
  <2>3. Holes(i) = Holes(j) /\ Due(i) = Due(j)
    BY <1>5, <1>11 DEF Holes, Due, Exposed
  <2>4. \A k \in DOMAIN i.buf : i.buf[k].id # 0
    <3>1. DOMAIN i.buf = 1..Len(buf) /\ DOMAIN j.buf = 1..Len(j.buf)
      BY <1>0, <1>3, <1>5
    <3> QED
      BY <1>0, <1>2, <1>3, <1>5, <1>6, <3>1 DEF Kept, HolesAreFew
  <2> QED
    BY <1>0, <1>5, <1>12, <2>1, <2>2, <2>3, <2>4 DEF Kept, HolesAreFew
<1>16. SizesKept(i)
  <2>1. Len(j.disk) + Len(j.buf) <= j.size
    BY DEF Kept, SizesKept
  <2>2. \A a, b, c, m \in Nat : a + b <= c /\ c + 1 <= m => a + (b + 1) <= c + 1 /\ a + (b + 1) <= m
    OBVIOUS
  <2>3. /\ Len(j.disk) + (Len(j.buf) + 1) <= MaxLines
        /\ Len(j.disk) + (Len(j.buf) + 1) <= j.size + 1
    BY <1>0, <2>1, <2>2, JournalNumbers
  <2> QED
    BY <1>3, <1>5, <2>3 DEF Kept, SizesKept
<1> QED
  BY <1>1, <1>5, <1>14, <1>15, <1>16 DEF Kept

\* An event that left no line.
LEMMA MissedIsKept ==
    ASSUME NEW j, NEW e, Kept(j, e)
    PROVE  Kept(j, e + 1)
<1>1. e \in Nat /\ e + 1 \in Nat /\ 1..e \subseteq 1..(e + 1)
  BY DEF Kept, HolesAreFew
<1>2. FilesInOrder(j, e + 1)
  BY <1>1 DEF Kept, FilesInOrder
<1>3. HolesAreFew(j, e + 1)
  BY <1>1 DEF Kept, HolesAreFew
<1> QED
  BY <1>2, <1>3 DEF Kept

-----------------------------------------------------------------------------
(* The operations.                                                         *)

LEMMA FlushesAreKept ==
    ASSUME NEW j, NEW e, Kept(j, e), NEW refusal, NEW f \in Flushes(j, refusal)
    PROVE  /\ f.ok \in BOOLEAN /\ Kept(f.j, e) /\ f.j.open = j.open
           /\ f.ok => f.j.buf = <<>> /\ ~f.j.stuck
<1>0. /\ j \in JournalState /\ j.buf \in Seq(Line) /\ j.stuck \in BOOLEAN
  BY DEF Kept, JournalState
<1>1. CASE f = [ok |-> FALSE, j |-> j]
  BY <1>1
<1>2. CASE ~j.stuck /\ \E cut \in CutShort(j.buf) :
              f = [ok |-> FALSE, j |-> [j EXCEPT !.disk = Behind(@, cut), !.buf = <<>>, !.stuck = TRUE]]
  <2>1. PICK cut \in CutShort(j.buf) :
           f = [ok |-> FALSE, j |-> [j EXCEPT !.disk = Behind(@, cut), !.buf = <<>>, !.stuck = TRUE]]
    BY <1>2
  <2> DEFINE w == [j EXCEPT !.disk = Behind(@, cut), !.buf = <<>>, !.stuck = TRUE]
  <2>2. w = Wrote(j, cut, "refused", j.synced) /\ w.open = j.open
    BY <1>0 DEF JournalState, Wrote
  <2> HIDE DEF w
  <2>3. f.j = w /\ f.ok = FALSE
    BY <2>1 DEF w
  <2>4. Kept(f.j, e)
    BY <2>2, <2>3, WrittenIsKept
  <2> QED
    BY <2>2, <2>3, <2>4
<1>3. CASE ~j.stuck /\ f = [ok |-> TRUE, j |-> Flushed(j)]
  <2>1. f.j = Flushed(j) /\ f.ok = TRUE
    BY <1>3
  <2> QED
    BY <1>3, <2>1, FlushedIsKept
<1> QED
  BY <1>0, <1>1, <1>2, <1>3 DEF Flushes

LEMMA FileRotatesIsKept ==
    ASSUME NEW j, NEW e, Kept(j, e), j.buf = <<>>, NEW refusal,
           NEW f \in FileRotates(j, refusal)
    PROVE  /\ f.ok \in BOOLEAN /\ Kept(f.j, e)
           /\ f.ok => f.j.open /\ f.j.size + 1 <= MaxLines
<1>0. j \in JournalState /\ j.open \in BOOLEAN
  BY DEF Kept, JournalState
<1>1. ASSUME NEW n \in 0..MaxFiles + 1
      PROVE  Shifted(j.old, j.disk, n) \in [1..MaxFiles -> Seq(Line)]
  <2>1. \A m \in 1..MaxFiles : m = 1 \/ m - 1 \in 1..MaxFiles
    BY JournalNumbers
  <2>2. \A m \in 1..MaxFiles : j.old[m] \in Seq(Line)
    BY <1>0 DEF JournalState
  <2>3. j.disk \in Seq(Line) /\ NoFile \in Seq(Line)
    BY <1>0 DEF JournalState, NoFile
  <2> QED
    BY <2>1, <2>2, <2>3 DEF Shifted
<1> DEFINE moved == [j EXCEPT !.old = Shifted(@, j.disk, MaxFiles + 1), !.disk = <<>>]
<1>2. MaxFiles + 1 \in 0..MaxFiles + 1 /\ \A n \in 0..MaxFiles : n \in 0..MaxFiles + 1 /\ n # MaxFiles + 1
  BY JournalNumbers
<1>3. CASE refusal = "rename"
  <2>1. PICK n \in 0..MaxFiles :
           f = [ok |-> FALSE, j |-> [j EXCEPT !.old = Shifted(@, j.disk, n), !.open = FALSE]]
    BY <1>3 DEF FileRotates
  <2> DEFINE i == [j EXCEPT !.old = Shifted(@, j.disk, n), !.open = FALSE]
  <2>2. /\ i \in JournalState /\ i.old = Shifted(j.old, j.disk, n) /\ i.disk = j.disk
        /\ i.buf = <<>> /\ i.size = j.size /\ i.stuck = j.stuck /\ ~i.open
        /\ i.synced = j.synced /\ i.refused = j.refused
    BY <1>0, <1>1, <1>2 DEF JournalState
  <2>3. f.j = i /\ f.ok = FALSE
    BY <2>1
  <2> HIDE DEF i
  <2>4. Kept(i, e)
    BY <1>2, <2>2, RotatedIsKept
  <2> QED
    BY <2>3, <2>4
<1>4. /\ moved \in JournalState /\ moved.old = Shifted(j.old, j.disk, MaxFiles + 1)
      /\ moved.disk = <<>> /\ moved.buf = <<>> /\ moved.size = j.size
      /\ moved.stuck = j.stuck /\ moved.open = j.open
      /\ moved.synced = j.synced /\ moved.refused = j.refused
  BY <1>0, <1>1, <1>2, NoLines DEF JournalState
<1>5. CASE f = [ok |-> FALSE, j |-> [moved EXCEPT !.open = FALSE]]
  <2> DEFINE i == [moved EXCEPT !.open = FALSE]
  <2>1. f.j = i /\ f.ok = FALSE
    BY <1>5
  <2> HIDE DEF moved
  <2>2. /\ i \in JournalState /\ i.old = moved.old /\ i.disk = <<>>
        /\ i.buf = <<>> /\ i.size = j.size /\ i.stuck = j.stuck /\ ~i.open
        /\ i.synced = j.synced /\ i.refused = j.refused
    BY <1>4 DEF JournalState
  <2> HIDE DEF i
  <2>3. Kept(i, e)
    BY <1>2, <1>4, <2>2, RotatedIsKept
  <2> QED
    BY <2>1, <2>3
<1>6. CASE f = [ok |-> TRUE, j |-> Opened(moved, TRUE)]
  <2> HIDE DEF moved
  <2>3. Kept(moved, e)
    BY <1>2, <1>4, RotatedIsKept
  <2>4. Kept(Opened(moved, TRUE), e) /\ Opened(moved, TRUE).open
    BY <2>3, OpenedIsKept
  <2>5. Opened(moved, TRUE).size = 0
    BY <1>4, NoLines DEF Opened, JournalState
  <2>6. f.j = Opened(moved, TRUE) /\ f.ok = TRUE
    BY <1>6
  <2>7. 0 + 1 <= MaxLines
    BY JournalNumbers
  <2> QED
    BY <2>4, <2>5, <2>6, <2>7
<1> QED
  BY <1>3, <1>5, <1>6 DEF FileRotates

LEMMA MakesRoomIsKept ==
    ASSUME NEW j, NEW e, Kept(j, e), j.open, NEW refusal,
           NEW f \in MakesRoom(j, refusal)
    PROVE  /\ f.ok \in BOOLEAN /\ Kept(f.j, e)
           /\ f.ok => f.j.open /\ f.j.size + 1 <= MaxLines
<1>1. CASE j.size + 1 <= MaxLines
  <2>1. f = [ok |-> TRUE, j |-> j]
    BY <1>1 DEF MakesRoom
  <2>2. f.ok = TRUE /\ f.j = j
    BY <2>1
  <2> QED
    BY <1>1, <2>2
<1>2. CASE ~(j.size + 1 <= MaxLines)
  <2>1. PICK h \in Flushes(j, refusal) :
           f \in IF h.ok THEN FileRotates(h.j, refusal) ELSE {h}
    BY <1>2 DEF MakesRoom
  <2>2. /\ h.ok \in BOOLEAN /\ Kept(h.j, e) /\ (h.ok => h.j.buf = <<>>)
    BY <2>1, FlushesAreKept
  <2>3. CASE h.ok
    BY <2>1, <2>2, <2>3, FileRotatesIsKept
  <2>4. CASE ~h.ok
    BY <2>1, <2>2, <2>4
  <2> QED
    BY <2>3, <2>4
<1> QED
  BY <1>1, <1>2

LEMMA AppendsAreKept ==
    ASSUME NEW j, NEW e, Kept(j, e), NEW late \in BOOLEAN, NEW refusal,
           NEW r \in Appends(j, e + 1, late, refusal)
    PROVE  Kept(r.j, e + 1)
<1>1. CASE r = [ok |-> FALSE, j |-> j]
  BY <1>1, MissedIsKept
<1> DEFINE i == IF j.open THEN j ELSE Opened(j, refusal # "pad")
           buffered(room) == IF room.ok THEN Buffers(room.j, e + 1) ELSE room
           due(b) == b.ok /\ (late \/ Len(b.j.buf) >= FlushEvery)
<1>2. CASE \E room \in MakesRoom(i, refusal) :
              r \in IF due(buffered(room)) THEN Flushes(buffered(room).j, refusal)
                    ELSE {buffered(room)}
  <2>1. PICK room \in MakesRoom(i, refusal) :
           r \in IF due(buffered(room)) THEN Flushes(buffered(room).j, refusal)
                 ELSE {buffered(room)}
    BY <1>2
  <2>2. Kept(i, e) /\ i.open
    <3>1. (refusal # "pad") \in BOOLEAN
      OBVIOUS
    <3> QED
      BY <3>1, OpenedIsKept
  <2> HIDE DEF i
  <2>3. /\ room.ok \in BOOLEAN /\ Kept(room.j, e)
        /\ room.ok => room.j.open /\ room.j.size + 1 <= MaxLines
    BY <2>1, <2>2, MakesRoomIsKept
  <2>4. Kept(buffered(room).j, e + 1)
    <3>1. CASE ~room.ok
      BY <2>3, <3>1, MissedIsKept
    <3>2. CASE room.ok /\ room.j.stuck
      <4>1. buffered(room).j = room.j
        BY <3>2 DEF Buffers
      <4> QED
        BY <2>3, <4>1, MissedIsKept
    <3>3. CASE room.ok /\ ~room.j.stuck
      BY <2>3, <3>3, BufferedIsKept
    <3> QED
      BY <2>3, <3>1, <3>2, <3>3
  <2> HIDE DEF buffered, due
  <2>5. CASE due(buffered(room))
    BY <2>1, <2>4, <2>5, FlushesAreKept
  <2>6. CASE ~due(buffered(room))
    BY <2>1, <2>4, <2>6
  <2> QED
    BY <2>5, <2>6
<1> QED
  BY <1>1, <1>2 DEF Appends

\* Open after whatever became of the writer.
LEMMA ReopenedIsKept ==
    ASSUME NEW j, NEW e, Kept(j, e), NEW closes \in BOOLEAN
    PROVE  Kept(ReopenedJournal(j, closes), e)
<1> DEFINE o == Opened(j, closes)
           i == [o EXCEPT !.seq = ResumedSeq(j.disk)]
<1>0. Kept(o, e) /\ o.buf = <<>> /\ o \in JournalState /\ LinesInOrder(o.disk)
  <2>1. Kept(o, e) /\ o.buf = <<>>
    BY OpenedIsKept
  <2>2. LinesInOrder(FileOf(o, 0)) /\ o \in JournalState
    BY <2>1, JournalNumbers DEF Kept, FilesInOrder
  <2> QED
    BY <2>1, <2>2 DEF FileOf
<1>1. ResumedSeq(j.disk) \in Nat
  <2>1. /\ j.disk \in Seq(Line)
        /\ DOMAIN j.disk = 1..Len(j.disk) /\ \A k \in 1..Len(j.disk) : j.disk[k] \in Line
    BY IdsAreOfLines DEF Kept, JournalState
  <2>2. \A k \in DOMAIN j.disk : j.disk[k].seq \in Nat
    BY <2>1 DEF Line
  <2> DEFINE last == {k \in DOMAIN j.disk :
                         /\ j.disk[k].id # 0
                         /\ \A x \in DOMAIN j.disk : x > k => j.disk[x].id = 0}
  <2>3. ResumedSeq(j.disk) = IF last = {} THEN 0 ELSE j.disk[CHOOSE k \in last : TRUE].seq
    BY DEF ResumedSeq
  <2>4. last # {} => (CHOOSE k \in last : TRUE) \in DOMAIN j.disk
    OBVIOUS
  <2> HIDE DEF last
  <2> QED
    BY <2>2, <2>3, <2>4
<1>2. ReopenedJournal(j, closes) = i
  BY DEF ReopenedJournal
<1> HIDE DEF o
<1>3. /\ i \in JournalState /\ i.old = o.old /\ i.disk = o.disk /\ i.buf = <<>>
      /\ i.size = o.size /\ i.open = o.open /\ i.synced = o.synced
      /\ i.refused = o.refused /\ i.stuck = o.stuck
  BY <1>0, <1>1 DEF JournalState
<1> HIDE DEF i
<1>4. i.size <= MaxLines /\ (i.open => Len(i.disk) <= i.size)
  <2>1. /\ o.size <= MaxLines /\ o.open => Len(o.disk) + Len(o.buf) <= o.size
        /\ Len(o.buf) = 0 /\ Len(o.disk) \in Nat /\ o.size \in Nat
    BY <1>0, NoLines DEF Kept, SizesKept, JournalState
  <2>2. Len(o.disk) + 0 = Len(o.disk)
    BY <2>1
  <2> QED
    BY <1>0, <1>3, <2>1, <2>2 DEF Kept, SizesKept
<1>5. Cardinality(Holes(o)) + Due(i) <= i.refused
  BY <1>0, <1>3 DEF Kept, HolesAreFew, Due, Exposed
<1> QED
  BY <1>0, <1>2, <1>3, <1>4, <1>5, SameFilesKept

-----------------------------------------------------------------------------
(* The steps.                                                              *)

LEMMA AppendEventIsKept ==
    ASSUME JournalKept, AppendEvent
    PROVE  JournalKept'
<1>0. events \in Nat /\ Kept(journal, events)
  BY DEF JournalKept
<1>1. PICK late \in BOOLEAN, refusal \in Refusals :
         \E r \in Appends(journal, events + 1, late, refusal) : journal' = r.j
  BY DEF AppendEvent
<1>2. PICK r \in Appends(journal, events + 1, late, refusal) : journal' = r.j
  BY <1>1
<1>3. Kept(journal', events + 1)
  BY <1>0, <1>2, AppendsAreKept
<1>4. events' = events + 1 /\ events + 1 \in Nat
  BY <1>0 DEF AppendEvent
<1> QED
  BY <1>3, <1>4 DEF JournalKept

LEMMA ForceFlushIsKept ==
    ASSUME JournalKept, ForceFlush
    PROVE  JournalKept'
<1>0. events \in Nat /\ Kept(journal, events)
  BY DEF JournalKept
<1>1. PICK refusal \in Refusals : \E f \in Flushes(journal, refusal) : journal' = f.j
  BY DEF ForceFlush
<1>2. PICK f \in Flushes(journal, refusal) : journal' = f.j
  BY <1>1
<1>3. Kept(f.j, events)
  BY <1>0, FlushesAreKept
<1> QED
  BY <1>0, <1>2, <1>3 DEF JournalKept, ForceFlush

LEMMA RestartJournalIsKept ==
    ASSUME JournalKept, RestartJournal
    PROVE  JournalKept'
<1>0. events \in Nat /\ Kept(journal, events)
  BY DEF JournalKept
<1>1. PICK f \in Flushes(journal, "none"), closes \in BOOLEAN :
         journal' = ReopenedJournal(IF journal.open THEN f.j ELSE journal, closes)
  BY DEF RestartJournal
<1>2. Kept(f.j, events)
  BY <1>0, FlushesAreKept
<1>3. Kept(IF journal.open THEN f.j ELSE journal, events)
  BY <1>0, <1>2
<1>4. Kept(journal', events)
  BY <1>1, <1>3, ReopenedIsKept
<1> QED
  BY <1>0, <1>4 DEF JournalKept, RestartJournal

LEMMA CrashJournalIsKept ==
    ASSUME JournalKept, CrashJournal
    PROVE  JournalKept'
<1>0. /\ events \in Nat /\ Kept(journal, events)
      /\ journal \in JournalState /\ journal.buf \in Seq(Line) /\ journal.stuck \in BOOLEAN
  BY DEF JournalKept, Kept, JournalState
<1>1. PICK kept \in IF journal.stuck THEN {<<>>} ELSE CutShort(journal.buf), closes \in BOOLEAN :
         journal' = ReopenedJournal([journal EXCEPT !.disk = Behind(@, kept)], closes)
  BY DEF CrashJournal
<1>2. kept \in CutShort(journal.buf)
  <2>1. CASE journal.stuck
    <3>1. journal.buf = <<>>
      BY <1>0, <2>1 DEF Kept, SizesKept
    <3> QED
      BY <1>1, <2>1, <3>1, NoLines, AllIsCut
  <2> QED
    BY <1>1, <2>1
<1> DEFINE i == [journal EXCEPT !.disk = Behind(@, kept)]
           h == Wrote(journal, kept, "refused", journal.synced)
<1>3. Kept(h, events)
  BY <1>0, <1>2, WrittenIsKept
<1>4. i.disk = h.disk /\ Opened(i, closes) = Opened(h, closes)
  BY <1>0 DEF Opened, JournalState, Wrote
<1>5. ReopenedJournal(i, closes) = ReopenedJournal(h, closes)
  BY <1>4 DEF ReopenedJournal
<1>6. Kept(journal', events)
  BY <1>1, <1>3, <1>5, ReopenedIsKept
<1> QED
  BY <1>0, <1>6 DEF JournalKept, CrashJournal

LEMMA InitIsKept ==
    ASSUME InitJournal
    PROVE  JournalKept
<1>1. /\ journal \in JournalState /\ events = 0 /\ journal.synced = {} /\ journal.refused = 0
      /\ journal.disk = <<>> /\ journal.buf = <<>> /\ journal.size = 0 /\ journal.open
      /\ \A i \in 1..MaxFiles : journal.old[i] = <<>>
      /\ journal.stuck = FALSE
  BY NoLines DEF InitJournal, JournalState, NoFile
<1>2. \A n \in 0..MaxFiles : FileOf(journal, n) = <<>>
  BY <1>1, JournalNumbers DEF FileOf
<1>3. \A x : x \notin Held(journal)
  BY <1>2, NoLines, HeldIsInFiles
<1>4. FilesInOrder(journal, 0)
  BY <1>1, <1>2, <1>3, NoLines DEF FilesInOrder, Before
<1>5. HolesAreFew(journal, 0)
  <2>1. Holes(journal) = {} /\ Cardinality({}) = 0
    BY <1>1, FS_EmptySet DEF Holes
  <2>2. Due(journal) = 0
    BY <1>1 DEF Due, Exposed, EndsTorn
  <2>3. DOMAIN journal.buf = {}
    BY <1>1
  <2> QED
    BY <1>1, <2>1, <2>2, <2>3 DEF HolesAreFew, Before
<1>6. SizesKept(journal)
  BY <1>1, NoLines, JournalNumbers DEF SizesKept
<1> QED
  BY <1>1, <1>4, <1>5, <1>6 DEF JournalKept, Kept

LEMMA KeptIsWhole ==
    ASSUME JournalKept
    PROVE  JournalIsWhole
<1>0. /\ journal \in JournalState /\ FilesInOrder(journal, events)
      /\ HolesAreFew(journal, events) /\ SizesKept(journal)
  BY DEF JournalKept, Kept
<1>1. ASSUME NEW m \in 0..MaxFiles, NEW n \in 0..MaxFiles,
             NEW i \in DOMAIN FileOf(journal, m), NEW k \in DOMAIN FileOf(journal, n),
             FileOf(journal, m)[i].id # 0, FileOf(journal, n)[k].id # 0,
             m > n \/ (m = n /\ i < k)
      PROVE  FileOf(journal, m)[i].id < FileOf(journal, n)[k].id
  <2>1. CASE m > n
    <3>1. FileOf(journal, m)[i].id \in IdsOf(FileOf(journal, m))
      BY <1>1 DEF IdsOf
    <3>2. FileOf(journal, n)[k].id \in IdsOf(FileOf(journal, n))
      BY <1>1 DEF IdsOf
    <3> QED
      BY <1>0, <2>1, <3>1, <3>2 DEF FilesInOrder, Before
  <2>2. CASE m = n /\ i < k
    BY <1>0, <1>1, <2>2 DEF FilesInOrder, LinesInOrder
  <2> QED
    BY <1>1, <2>1, <2>2
<1>2. Cardinality(Holes(journal)) <= journal.refused
  <2>1. /\ Cardinality(Holes(journal)) \in Nat /\ journal.refused \in Nat
        /\ Cardinality(Holes(journal)) + Due(journal) <= journal.refused
        /\ Due(journal) = 0 \/ Due(journal) = 1
    BY <1>0, HolesCount DEF HolesAreFew, Due, JournalState
  <2> QED
    BY <2>1
<1>3. NoHoles
  BY <1>1, <1>2 DEF NoHoles
<1>4. FlashBudget
  BY <1>0 DEF SizesKept, FlashBudget
<1> QED
  BY <1>3, <1>4 DEF JournalIsWhole

\* What the journal holds is in the order of the events and has no holes, and it
\* never outgrows its share of the flash (package journal).
THEOREM JournalStaysWhole == SpecJournal => []JournalIsWhole
<1>1. InitJournal => JournalKept
  BY InitIsKept
<1>2. JournalKept /\ [NextJournal]_journalVars => JournalKept'
  <2> SUFFICES ASSUME JournalKept, [NextJournal]_journalVars PROVE JournalKept'
    OBVIOUS
  <2>1. CASE AppendEvent
    BY <2>1, AppendEventIsKept
  <2>2. CASE ForceFlush
    BY <2>2, ForceFlushIsKept
  <2>3. CASE RestartJournal
    BY <2>3, RestartJournalIsKept
  <2>4. CASE CrashJournal
    BY <2>4, CrashJournalIsKept
  <2>5. CASE UNCHANGED journalVars
    BY <2>5 DEF journalVars, JournalKept
  <2> QED
    BY <2>1, <2>2, <2>3, <2>4, <2>5 DEF NextJournal
<1>3. JournalKept => JournalIsWhole
  BY KeptIsWhole
<1> QED
  BY <1>1, <1>2, <1>3, PTL DEF SpecJournal
===============================================================================
