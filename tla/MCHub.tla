------------------------------- MODULE MCHub -------------------------------
(***************************************************************************)
(* The hub's inputs, its planner, its breach episodes and the editing of   *)
(* its configuration for TLC, each by itself while the others rest: part   *)
(* tells which one a behaviour is about.                                   *)
(***************************************************************************)
EXTENDS Intents, Planner, BreachEpisodes, Commission, TLC

VARIABLE part

hubPartVars == <<part, intentsVars, plannerVars, vars, commissionVars>>

(* Intents: one instance for each set of topics that meet: goals and       *)
(* charge-nows without and with a fault, goals or reserves that are good or *)
(* bad, goals whose departure passes, the inputs of the plan, the modes.    *)
GoalValues == EvGoals \X {"stated", "now"}
PriceValues == {"csip", "openadr"}
Silent == [x \in Topics \cup {"fault"} |-> 0]
TalkSets ==
    {Silent,
     [Silent EXCEPT !["goal"] = 2, !["charge"] = 1],
     [Silent EXCEPT !["goal"] = 1, !["charge"] = 1, !["fault"] = 1],
     [Silent EXCEPT !["goal"] = 2, !["fault"] = 1],
     [Silent EXCEPT !["goal"] = 1, !["fault"] = 2],
     [Silent EXCEPT !["reserve"] = 2, !["fault"] = 1],
     [Silent EXCEPT !["csip"] = 1, !["openadr"] = 1, !["reserve"] = 1],
     [Silent EXCEPT !["openadr"] = 1, !["reserve"] = 1, !["fault"] = 1],
     [Silent EXCEPT !["mode"] = 2, !["fault"] = 1]}

(* BreachEpisodes: two shells with a device each and two controls.         *)
MCReporter == {"battery", "adv"}
MCApart == [q \in MCReporter |-> q]

(* Commission: two services written at once; one service written twice in  *)
(* turn; one write through several faults.                                 *)
MCTo(s, n) == [service |-> s, v |-> n]
MCOnce == "w1" :> MCTo("hub", 0)
MCNoWrites == [writes |-> <<>>, turns |-> TRUE, faults |-> 0]
MCScenes ==
    {[writes |-> MCOnce @@ "w2" :> MCTo("modbus", 1), turns |-> FALSE, faults |-> 1],
     [writes |-> MCOnce @@ "w2" :> MCTo("hub", 0), turns |-> TRUE, faults |-> 1],
     [writes |-> MCOnce, turns |-> FALSE, faults |-> 2],
     MCNoWrites}

(* Planner: three steps of two ticks, efficiency 3/4, levels twelve units  *)
(* apart: a command drains 16, stores 9 and moves 12.                      *)
Batt == [hasBatt |-> TRUE, low |-> 0, high |-> 36, charge |-> 2,
         discharge |-> 2, init |-> 24, terminal |-> 12,
         hasEv |-> FALSE, evCap |-> 0, evMax |-> 0, evInit |-> 0,
         evTarget |-> 0, leaves |-> None, storage |-> FALSE]

NoBatt == [Batt EXCEPT !.hasBatt = FALSE, !.low = 0, !.high = 0, !.init = 0]

WithCar(b, init, target, leaves, storage) ==
    [b EXCEPT !.hasEv = TRUE, !.evCap = 36, !.evMax = 2, !.evInit = init,
              !.evTarget = target, !.leaves = leaves, !.storage = storage]

MCStandard == {2, 3}

Per(days, from, to, rate, delivery, label) ==
    [days |-> days, from |-> from, to |-> to, rate |-> rate,
     delivery |-> delivery, label |-> label]

Week == {0, 1}

MCBuiltIn == [periods |-> {[from |-> 0, to |-> 3, rate |-> 2]},
              default |-> 2, peak |-> 3]

Cheap == <<Per(Week, 0, 1, 1, Absent, "low"), Per(Week, 1, 3, 4, Absent, "high")>>

Tariffs ==
    {<< >>, Cheap,
     <<Per(Week, 0, 2, 1, 1, "low"), Per(Week, 2, 3, 4, Absent, "high")>>,
     <<Per({0}, 0, 3, 2, 1, "a"), Per({1}, 0, 3, 2, 0, "a")>>,
     <<Per({0}, 0, 3, 2, Absent, "a"), Per({1}, 0, 3, 2, 0, "a")>>,
     <<Per({0}, 0, 3, 2, Absent, "a"), Per({1}, 0, 3, 2, Absent, "b")>>,
     <<Per({0}, 0, 3, 2, Absent, "a"), Per({1}, 0, 3, 2, Absent, "a")>>,
     <<Per(Week, 0, 2, 1, Absent, "a"), Per(Week, 1, 3, 1, Absent, "a")>>,
     <<Per(Week, 0, 2, 1, Absent, "a")>>,
     <<Per({0}, 0, 1, 1, Absent, "a"), Per({1}, 0, 1, 1, Absent, "a"),
       Per(Week, 1, 2, 3, Absent, "b"), Per(Week, 2, 3, 3, 2, "c")>>}

Ev(id, start, end, made, dispatch) ==
    [id |-> id, start |-> start, end |-> end, made |-> made,
     cancelled |-> FALSE, maybe |-> FALSE, dispatch |-> dispatch]

NoForecast == [start |-> 0, kw |-> <<0, 0, 0>>]
Sunny == [start |-> -2, kw |-> <<0, 0, 24, 12>>]
Later == [start |-> 3, kw |-> <<12, 24>>]

Flat == [i \in 0..2 |-> 12]
Rising == [i \in 0..2 |-> 12 * i]
Nothing == [i \in 0..2 |-> 0]
Paid == [i \in 0..2 |-> 1]

Plain == [controls |-> {}, default |-> Free, from |-> 1, aus |-> TRUE,
          tariff |-> Cheap, utility |-> << >>, assets |-> Batt,
          forecast |-> NoForecast, load |-> Flat, priceOut |-> Nothing]

(* Tariffs and the utility's prices over them.                             *)
PriceSites ==
    {[Plain EXCEPT !.tariff = x, !.utility = u] :
        x \in Tariffs, u \in {<< >>, <<[start |-> 2, lasts |-> 3, price |-> 5],
                                       [start |-> 4, lasts |-> 1, price |-> 0]>>}}

(* Up to three controls, in every order of start and creation.             *)
Limit == [Free EXCEPT !.imp = 12]
Fixed == [Free EXCEPT !.fixed = 1, !.gen = 12]

EventSites ==
    {[Plain EXCEPT !.controls = {[Ev(1, 0, 4, a, Limit) EXCEPT !.cancelled = x],
                                 [Ev(2, s, e, b, Fixed) EXCEPT !.maybe = y],
                                 Ev(3, 4, f, 2, [Free EXCEPT !.off = TRUE])},
                   !.default = [Free EXCEPT !.exp = 0], !.aus = x] :
        a \in {1, 3}, b \in {1, 2}, s \in {1, 2}, e \in {4, 6}, f \in {5, 8},
        x \in BOOLEAN, y \in BOOLEAN}

(* Batteries and cars under each kind of limit.                            *)
Envelopes ==
    {Free, [Free EXCEPT !.exp = 0], [Free EXCEPT !.exp = 12],
     [Free EXCEPT !.imp = 18], [Free EXCEPT !.max = 16], [Free EXCEPT !.gen = 24],
     [Free EXCEPT !.load = 36], [Free EXCEPT !.fixed = 1],
     [Free EXCEPT !.fixed = 5], [Free EXCEPT !.off = TRUE]}

Assets ==
    {Batt, [Batt EXCEPT !.low = 12, !.high = 48, !.init = 6, !.terminal = 0],
     [Batt EXCEPT !.charge = 1, !.discharge = 3, !.init = 36],
     NoBatt, WithCar(NoBatt, 0, 12, 2, FALSE), WithCar(NoBatt, 36, 6, 1, TRUE),
     WithCar(Batt, 12, 24, 1, FALSE), WithCar(Batt, 36, 36, None, TRUE)}

AssetSites ==
    {[Plain EXCEPT !.default = d, !.assets = a, !.forecast = f, !.load = l[1],
                   !.priceOut = l[2]] :
        d \in Envelopes, a \in Assets, f \in {NoForecast, Sunny, Later},
        l \in {<<Flat, Paid>>, <<Rising, Nothing>>}}

MCSites == PriceSites \cup EventSites \cup AssetSites
-----------------------------------------------------------------------------
InitHub ==
    /\ part \in {"intents", "planner", "breach", "commission"}
    /\ InitIntents /\ (talk = Silent) = (part # "intents")
    /\ InitCommission /\ (scene = MCNoWrites) = (part # "commission")
    /\ part # "commission" => live = [s \in Services |-> Doc("factory", 0)]
    /\ Init
    /\ InitPlanner /\ (part # "planner" => site = Plain)

NextHub ==
    \/ /\ part = "intents" /\ NextIntents
       /\ UNCHANGED <<part, plannerVars, vars, commissionVars>>
    \/ /\ part = "planner" /\ NextPlanner
       /\ UNCHANGED <<part, intentsVars, vars, commissionVars>>
    \/ /\ part = "breach" /\ Next
       /\ UNCHANGED <<part, intentsVars, plannerVars, commissionVars>>
    \/ /\ part = "commission" /\ NextCommission
       /\ UNCHANGED <<part, intentsVars, plannerVars, vars>>

\* Every input is in the plan in the end, what was written is run, and the
\* breach episode agrees with the site.
HubSettles ==
    /\ EpisodeSettles
    /\ <>[](/\ part = "intents" => InputsInPlan
            /\ part = "commission" => WrittenRuns)

\* A part that rests is owed nothing.
FairHub ==
    /\ WF_intentsVars(part = "intents" /\ BrokerTakes)
    /\ WF_intentsVars(part = "intents" /\ BootHub)
    /\ WF_intentsVars(part = "intents" /\ Handle)
    /\ WF_intentsVars(part = "intents" /\ TimerFires)
    /\ WF_intentsVars(part = "intents" /\ Reverts)
    /\ WF_intentsVars(part = "intents" /\ ControlTick)
    /\ WF_intentsVars(part = "intents" /\ PlannerStarts)
    /\ WF_intentsVars(part = "intents" /\ PlannerStores)
    /\ WF_vars(part = "breach" /\ PlanPass)
    /\ \A q \in Reporter : WF_vars(part = "breach" /\ OnReport(q))
    /\ \A g \in Goroutine : WF_vars(part = "breach" /\ Publish(g))
    /\ WF_vars(part = "breach" /\ MeterBack)
    /\ WF_commissionVars(part = "commission" /\ Start)
    /\ WF_commissionVars(part = "commission" /\ WriteResult)
    /\ WF_commissionVars(part = "commission" /\ RemoveRequest)
    /\ WF_commissionVars(part = "commission" /\ Boot)
    /\ WF_commissionVars(part = "commission" /\ \E s \in Services : RestartService(s))
    /\ WF_commissionVars(part = "commission" /\ ApiWrites)

SpecHub == InitHub /\ [][NextHub]_hubPartVars /\ FairHub
=============================================================================
