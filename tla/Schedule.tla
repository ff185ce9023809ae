------------------------------ MODULE Schedule ------------------------------
(***************************************************************************)
(* What the planner is given ahead of time: the utility's controls as one  *)
(* constraint per planning step, and the tariff as one price per step.     *)
(***************************************************************************)
EXTENDS Integers, Sequences, FiniteSets

-----------------------------------------------------------------------------
(* The tariff an app or the cloud supplies: its compilation into two       *)
(* hour-of-day price models (compileTariff, cmd/hub/tariff.go), the lookup *)
(* of a price (TOUCostModel, orchestrator/costmodel.go) and the prices the *)
(* utility's own tariff feed lays over them (pricesFromPricingUpdate).     *)
(*                                                                         *)
(* A period is a record with its days, first and last hour, rate, delivery *)
(* adder (Absent when not given) and label; a tariff is a sequence of periods.    *)

CONSTANTS Days,         \* days of the week, 0..Days-1 (7)
          Hours         \* hours of the day (24)

ASSUME TariffAssumption == Days \in Nat \ {0} /\ Hours \in Nat \ {0}

Period == [days : SUBSET Int, from : Int, to : Int, rate : Int, delivery : Int,
           label : STRING]
(* An interval of the utility's price feed.                                *)
Quote == [start : Int, lasts : Int, price : Int]

(* Stands for a rate that is not given.                                    *)
Absent == -1000

DeliveryOf(period) == IF period.delivery = Absent THEN 0 ELSE period.delivery

SoundPeriod(period) ==
    /\ period.days # {}
    /\ period.days \subseteq 0..Days - 1
    /\ period.from \in 0..Hours - 1
    /\ period.to \in 1..Hours
    /\ period.from < period.to
    /\ period.rate >= 0
    /\ DeliveryOf(period) >= 0

Fills(period, d, h) == d \in period.days /\ h \in period.from..period.to - 1

(* Every cell of the week is filled by exactly one period.                 *)
Covered(spec) ==
    \A d \in 0..Days - 1, h \in 0..Hours - 1 :
        Cardinality({k \in DOMAIN spec : Fills(spec[k], d, h)}) = 1

Cell(spec, d, h) == spec[CHOOSE k \in DOMAIN spec : Fills(spec[k], d, h)]

DelivererOf(spec) == \E k \in DOMAIN spec : spec[k].delivery # Absent

(* Only the supply rates and the labels are compared.                      *)

(* The price models are blind to the day, so every hour must cost the same *)
(* on every day; the delivery rates only matter when some period has one.  *)
SameEveryDay(spec) ==
    \A d \in 0..Days - 1, h \in 0..Hours - 1 :
        LET one == Cell(spec, 0, h)
            two == Cell(spec, d, h)
        IN  /\ two.rate = one.rate
            /\ two.label = one.label
            /\ DelivererOf(spec) => DeliveryOf(two) = DeliveryOf(one)

(* The hours of one row of the grid at which the rate or the label changes. *)
Breaks(row, rate) ==
    {h \in 1..Hours - 1 : rate[h] # rate[h - 1] \/ row[h].label # row[h - 1].label}

EndOf(breaks, s) ==
    CHOOSE e \in breaks \cup {Hours} :
        e > s /\ \A f \in breaks \cup {Hours} : f > s => e <= f

(* The row as runs of equal rate and label. The dearest rate stands where  *)
(* no run does; an hour is a peak at the dearest rate of a tariff that has *)
(* more than one.                                                          *)
Model(row, rate) ==
    LET rates == {rate[h] : h \in 0..Hours - 1}
        top == CHOOSE r \in rates : \A q \in rates : q <= r
    IN  [periods |-> {[from |-> s, to |-> EndOf(Breaks(row, rate), s), rate |-> rate[s]] :
                         s \in Breaks(row, rate) \cup {0}},
         default |-> top,
         peak |-> IF Cardinality(rates) > 1 THEN top ELSE top + 1]

Compiles(spec) ==
    /\ spec # << >>
    /\ \A k \in DOMAIN spec : SoundPeriod(spec[k])
    /\ Covered(spec)
    /\ SameEveryDay(spec)

(* The delivery model, like the supply one, exists as a set of at most one.*)
Compile(spec) ==
    LET row == [h \in 0..Hours - 1 |-> Cell(spec, 0, h)]
    IN  [supply |-> Model(row, [h \in 0..Hours - 1 |-> row[h].rate]),
         delivery |-> IF DelivererOf(spec)
                      THEN {Model(row, [h \in 0..Hours - 1 |-> DeliveryOf(row[h])])}
                      ELSE {}]

(* A period whose start is after its end wraps midnight.                   *)
InPeriod(h, r) == IF r.from <= r.to THEN h >= r.from /\ h < r.to
                  ELSE h >= r.from \/ h < r.to

Rate(model, h) ==
    LET here == {r \in model.periods : InPeriod(h, r)}
    IN  IF here = {} THEN model.default ELSE (CHOOSE r \in here : TRUE).rate

(* The utility's intervals replace the built-in tariff step by step, the   *)
(* later interval of the list over the earlier one.                        *)
UtilityPrice(intervals, default, tick, hour) ==
    LET on == {k \in DOMAIN intervals :
                  /\ tick >= intervals[k].start
                  /\ tick < intervals[k].start + intervals[k].lasts}
    IN  IF on = {} THEN Rate(default, hour)
        ELSE intervals[CHOOSE k \in on : \A l \in on : l <= k].price

-----------------------------------------------------------------------------
(* The day-ahead view of the utility's controls: northbound flattens the   *)
(* controls of the highest-priority program into contiguous slots          *)
(* (internal/northbound/schedule), and the hub turns the slots into one    *)
(* constraint per planning step (derConstraintsFromSchedule, cmd/hub).     *)
(*                                                                         *)
(* A control is a record with its interval, its creation time, a number in *)
(* place of its MRID, the two status flags the code reads and the          *)
(* dispatch it carries.                                                    *)

CONSTANTS Steps,        \* planning steps of the horizon (288)
          StepTicks,    \* ticks of a planning step (300 s)
          Window        \* ticks of a schedule's window (24 h)

ASSUME ScheduleAssumption == /\ Steps \in Nat \ {0}
                             /\ StepTicks \in Nat \ {0}
                             /\ Window = Steps * StepTicks

(* Stands for an absent number: below every value that occurs.             *)
None == -1000

(* A dispatch: forced disconnect and the limits, None where NaN.           *)
Dispatch == [off : BOOLEAN, exp : Int, imp : Int, max : Int, fixed : Int,
             gen : Int, load : Int]
Control == {c \in [id : Int, start : Int, end : Int, made : Int, cancelled : BOOLEAN,
                   maybe : BOOLEAN, dispatch : Dispatch] : c.start < c.end}
Free == [off |-> FALSE, exp |-> None, imp |-> None, max |-> None,
         fixed |-> None, gen |-> None, load |-> None]

Overlap(a, b) == a.start < b.end /\ b.start < a.end

Candidates(controls, from) ==
    {c \in controls : c.end > from /\ c.start < from + Window}

(* A superseder that was itself cancelled still counts.                    *)

Superseded(c, all) ==
    \E o \in all : o # c /\ ~o.cancelled /\ Overlap(o, c) /\ o.made > c.made

Active(all) ==
    {c \in all : ~c.cancelled /\ ~(c.maybe /\ Superseded(c, all))}

At(a, b) == IF a > b THEN a ELSE b
Upto(a, b) == IF a < b THEN a ELSE b

Clipped(c, from) == [c EXCEPT !.start = At(@, from),
                              !.end = Upto(@, from + Window)]

Newer(a, b) == a.made > b.made \/ (a.made = b.made /\ a.id > b.id)

Earlier(a, b) == a.start < b.start \/ (a.start = b.start /\ Newer(b, a))

(* The earlier event keeps its own end.                                    *)

(* One step of the merge: the later start wins if it is newer, and then    *)
(* the earlier one ends there for good; else it is dropped whole.          *)
Merge(line, c) ==
    LET last == line[Len(line)]
    IN  IF line = << >> \/ c.start >= last.end THEN Append(line, c)
        ELSE IF ~Newer(c, last) THEN line
        ELSE IF c.start <= last.start THEN [line EXCEPT ![Len(line)] = c]
        ELSE Append([line EXCEPT ![Len(line)].end = c.start], c)

Slot(from, to, dispatch) == [start |-> from, end |-> to, dispatch |-> dispatch]

(* Events in order, the gaps between them filled with the program's        *)
(* default control.                                                        *)
Cursor(slots, from) == IF slots = << >> THEN from ELSE slots[Len(slots)].end

Fill(slots, c, default, from) ==
    LET cursor == Cursor(slots, from)
        before == IF c.start > cursor
                  THEN Append(slots, Slot(cursor, c.start, default)) ELSE slots
    IN  Append(before, Slot(c.start, c.end, c.dispatch))

(* The controls, the earliest first.                                       *)
InOrder(live) ==
    [k \in 1..Cardinality(live) |->
        CHOOSE c \in live : Cardinality({o \in live : Earlier(o, c)}) = k - 1]

Merged(events) ==
    LET line[k \in 0..Len(events)] ==
            IF k = 0 THEN << >> ELSE Merge(line[k - 1], events[k])
    IN  line[Len(events)]

Slotted(events, default, from) ==
    LET slots[k \in 0..Len(events)] ==
            IF k = 0 THEN << >> ELSE Fill(slots[k - 1], events[k], default, from)
    IN  slots[Len(events)]

Build(controls, default, from) ==
    LET live == {Clipped(c, from) : c \in Active(Candidates(controls, from))}
        slots == Slotted(Merged(InOrder(live)), default, from)
        cursor == Cursor(slots, from)
    IN  IF cursor < from + Window
        THEN Append(slots, Slot(cursor, from + Window, default))
        ELSE slots

----------------------------------------------------------------------------
(* Planning steps count from the step boundary at or before the window's   *)
(* start; a slot governs the steps from the one it begins in up to the one *)
(* it ends in, which is the next slot's. The gross caps of CSIP-AUS are    *)
(* carried only when the site enforces them.                               *)
Boundary(tick) == tick - (tick % StepTicks)

StepsOf(slot, ws) ==
    {i \in 0..Steps - 1 : /\ i >= (slot.start - ws) \div StepTicks
                          /\ i < (slot.end - ws) \div StepTicks}

Mapped(dispatch, aus) ==
    IF aus THEN dispatch ELSE [dispatch EXCEPT !.gen = None, !.load = None]

Constraints(slots, from, aus) ==
    LET ws == Boundary(from)
        Of(i) == {k \in DOMAIN slots : i \in StepsOf(slots[k], ws)}
    IN  [i \in 0..Steps - 1 |->
            IF Of(i) = {} THEN Free
            ELSE Mapped(slots[CHOOSE k \in Of(i) : \A l \in Of(i) : l <= k].dispatch,
                        aus)]
=============================================================================
