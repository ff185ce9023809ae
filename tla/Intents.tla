------------------------------ MODULE Intents -------------------------------
(***************************************************************************)
(* The intents of the app and the cloud as the hub adopts them             *)
(* (cmd/hub/intent.go, mode.go, openadr_adopt.go, main.go): retained       *)
(* topics delivered at every subscription and reconnect, one ordered       *)
(* handler at a time, the timer that ends a charge-now, the mode manager   *)
(* with its retained status, and the boot that re-seeds it.                *)
(***************************************************************************)
EXTENDS Integers, Sequences, FiniteSets

-----------------------------------------------------------------------------
(* The hub's engine (internal/orchestrator/engine.go, engine_state.go):    *)
(* the bounded command queue its setters post to, the control goroutine    *)
(* that applies it before every tick at two rates, and the planner         *)
(* goroutine that builds the daily plan from a snapshot of the inputs.     *)
(*                                                                         *)
(* A planner input is one of the fields the setters write; what a plan is  *)
(* made of is the parameters it was built from.                            *)

CONSTANTS
    Unset,       \* no value: an input never set, no plan yet
    Goals, PriceKinds, Reserves,
    Floor,      \* the configured reserve floor, in percent
    Cap         \* capacity of cmdCh

ASSUME EngineAssumption ==
    /\ Floor \in Nat /\ Reserves \subseteq Nat
    /\ Cap \in Nat \ {0}
    /\ Unset \notin Goals \cup PriceKinds \cup Reserves

VARIABLES
    cmds,       \* cmdCh: the mutations posted and not yet applied
    dropped,    \* has a mutation been refused since the start?
    planIn,     \* the planner inputs as the control goroutine last stored them
    urgent,     \* urgentWake, a buffer of one
    planning,   \* the snapshot a re-plan under way works on, or Unset
    daily,      \* the parameters of the current daily plan, or Unset
    looping,    \* have the two goroutines been started?
    last        \* the last economic plan: its author and the daily plan it followed

engine == <<cmds, dropped, planIn, urgent, planning, daily, looping, last>>

NoInputs == [goal |-> Unset, price |-> Unset, reserve |-> Unset]
NoPlan == [author |-> Unset, daily |-> Unset]

TypeOKEngine ==
    /\ cmds \in Seq(({"goal"} \X Goals) \cup ({"price"} \X PriceKinds) \cup ({"reserve"} \X Reserves))
    /\ Len(cmds) <= Cap
    /\ planIn.goal \in Goals \cup {Unset} /\ planIn.price \in PriceKinds \cup {Unset}
    /\ planIn.reserve \in Reserves \cup {Unset}
    /\ {dropped, urgent, looping} \subseteq BOOLEAN

\* buildPlannerParams: unset inputs fall back to the configuration, and a
\* reserve intent can only raise the floor.
BuildPlannerParams(inp) ==
    [inp EXCEPT !.reserve = IF @ = Unset \/ @ < Floor THEN Floor ELSE @]

NewEngine ==
    /\ cmds = <<>> /\ dropped = FALSE /\ planIn = NoInputs
    /\ urgent = FALSE /\ planning = Unset /\ daily = Unset
    /\ looping = FALSE /\ last = NoPlan

EngineLost ==
    /\ cmds' = <<>> /\ dropped' = FALSE /\ planIn' = NoInputs
    /\ urgent' = FALSE /\ planning' = Unset /\ daily' = Unset
    /\ looping' = FALSE /\ last' = NoPlan

-----------------------------------------------------------------------------
(* The setters, on any goroutine.                                          *)

\* enqueue never blocks: a full channel refuses the mutation and counts it.
Enqueue(cmd) ==
    IF Len(cmds) < Cap THEN cmds' = Append(cmds, cmd) /\ UNCHANGED dropped
    ELSE dropped' = TRUE /\ UNCHANGED cmds

\* SetPrices, SetEVGoal, SetBackupReserve and their like. The wake-up of the
\* planner that goes with them allows a re-plan at once; its timer does at any time.
Set(field, v) ==
    /\ Enqueue(<<field, v>>)
    /\ UNCHANGED <<planIn, urgent, planning, daily, looping, last>>

Wake ==
    /\ urgent' = TRUE
    /\ UNCHANGED <<cmds, dropped, planIn, planning, daily, looping, last>>

-----------------------------------------------------------------------------
(* The control goroutine.                                                  *)

\* Mutant: each command starts from empty inputs.
MutApplied(inp, queue) ==
    IF queue = <<>> THEN inp
    ELSE [NoInputs EXCEPT ![queue[Len(queue)][1]] = queue[Len(queue)][2]]

\* setPlanIn, one command after the other: each starts from what is stored.
Applied(inp, queue) ==
    LET after[k \in 0..Len(queue)] ==
            IF k = 0 THEN inp ELSE [after[k - 1] EXCEPT ![queue[k][1]] = queue[k][2]]
    IN  after[Len(queue)]

DrainCmds == planIn' = Applied(planIn, cmds) /\ cmds' = <<>>

\* tick: the plan follows the daily plan as it stands.
Tick(author) == last' = [author |-> author, daily |-> daily]

\* Start drains on the caller's goroutine; run's first act is a tick.
StartEngineLoops ==
    /\ ~looping /\ looping' = TRUE /\ urgent' = TRUE
    /\ DrainCmds
    /\ UNCHANGED <<dropped, planning, daily, last>>

UrgentTick(author) ==
    /\ looping /\ urgent /\ urgent' = FALSE
    /\ DrainCmds /\ Tick(author)
    /\ UNCHANGED <<dropped, planning, daily, looping>>

\* The ticker: the count of protection ticks makes every so many economic.
EconomicTick(author) ==
    /\ looping /\ DrainCmds /\ Tick(author)
    /\ UNCHANGED <<dropped, urgent, planning, daily, looping>>

SafetyTick ==
    /\ looping /\ DrainCmds
    /\ UNCHANGED <<dropped, urgent, planning, daily, looping, last>>

-----------------------------------------------------------------------------
(* The planner goroutine: a re-plan reads the inputs once, at its start.   *)

\* On a wake-up or the timer; a re-plan that would store the same again is
\* left out.
Replan ==
    /\ looping /\ planning = Unset /\ daily # BuildPlannerParams(planIn)
    /\ planning' = planIn
    /\ UNCHANGED <<cmds, dropped, planIn, urgent, daily, looping, last>>

StorePlan ==
    /\ planning # Unset
    /\ daily' = BuildPlannerParams(planning) /\ planning' = Unset
    /\ UNCHANGED <<cmds, dropped, planIn, urgent, looping, last>>

-----------------------------------------------------------------------------
(* The messages that set the inputs, and the process around them. *)

CONSTANTS
    EvGoals,        \* the goals a user may state
    Modes, CfgMode, \* the plan's authors, and the configured one
    Bad,            \* what a handler rejects: a mode no author has, a target that is
                    \* missing, negative or above the stated capacity, a reserve
                    \* beyond 0..100, a charge-now without a lifetime
    Talks           \* bounds: how often a topic may be spoken on, and how many
                    \* crashes, reconnects and departures there may be, in one behaviour

Topics == {"csip", "openadr", "goal", "reserve", "charge", "mode"}

ASSUME IntentsAssumption ==
    /\ Goals = EvGoals \X {"stated", "now"}
    /\ PriceKinds = {"csip", "openadr"}
    /\ CfgMode \in Modes
    /\ Bad \notin Modes /\ Bad \notin EvGoals /\ Bad \notin Reserves
    /\ Unset \notin EvGoals /\ Unset \notin [gen : Nat, goal : EvGoals]
    /\ Unset \notin [kind : {"goal", "mode", "status"}, id : Nat, val : EvGoals \cup Modes \cup {Bad}]
    /\ \A talk \in Talks : talk \in [Topics \cup {"fault"} -> Nat]

VARIABLES
    retainedOf,   \* the broker's retained message of each topic, or Unset
    incoming,      \* delivered to the hub and not yet handled, in order
    sending,     \* sent by the hub and not yet seen by the broker, in order
    bootStage,         \* how far the boot is
    listening,  \* does the broker know the hub's subscription to its own status?
    mode, lastID, csipSeen,
    standing,   \* the adopter's standing EV goal, or Unset
    gen,        \* chargeNowGen
    timer,      \* the armed revert, or Unset
    fired,      \* reverts whose timer has run out and who wait for the lock
    asked,      \* the last valid mode a user asked for
    untimely,   \* was one asked for outside the hub's settled life?
    outrun,     \* was the boot sealed with the retained status unread?
    past,       \* the goals, by id, whose departure is no longer in the future
    meant,      \* the last goal and the last reserve a user stated well, or Unset
    lost,       \* those of the two that can no longer reach the hub
    talk        \* what is left to be said on each topic, and to go wrong

adopter == <<mode, lastID, csipSeen, standing, gen, timer, fired>>
broker == <<retainedOf, incoming, sending>>
ghosts == <<asked, untimely, outrun, past, meant, lost>>
intentsVars == <<engine, adopter, broker, bootStage, listening, talk, ghosts>>

Kinds == (Topics \ {"charge"}) \cup {"status"}
Message(kind, id, val) == [kind |-> kind, id |-> id, val |-> val]
Lasting == {"goal", "reserve"}
NoIDs == [k \in {"goal", "reserve", "charge", "mode"} |-> 0]

\* The armed timer and those that ran out: the revert of the last charge-now.
Reverting == timer # Unset \/ \E r \in fired : r.gen = gen

TypeOKIntents ==
    /\ TypeOKEngine
    /\ DOMAIN retainedOf = Kinds
    /\ bootStage \in {"down", "intents", "status", "started", "sealed"}
    /\ mode \in Modes /\ standing \in EvGoals \cup {Unset}
    /\ gen \in Nat /\ {r.gen : r \in fired} \subseteq 1..gen
    /\ timer # Unset => timer.gen = gen
    /\ DOMAIN talk = Topics \cup {"fault"}
    /\ past \subseteq Nat /\ lost \subseteq Lasting
    /\ meant["goal"] \in EvGoals \cup {Unset} /\ meant["reserve"] \in Reserves \cup {Unset}

InitIntents ==
    /\ NewEngine
    /\ retainedOf = [k \in Kinds |-> Unset] /\ incoming = <<>> /\ sending = <<>>
    /\ bootStage = "down" /\ listening = FALSE
    /\ mode = CfgMode /\ lastID = NoIDs /\ csipSeen = FALSE
    /\ standing = Unset /\ gen = 0 /\ timer = Unset /\ fired = {}
    /\ asked = CfgMode /\ untimely = FALSE /\ outrun = FALSE
    /\ past = {} /\ meant = [k \in Lasting |-> Unset] /\ lost = {}
    /\ talk \in Talks

-----------------------------------------------------------------------------
(* The environment.                                                        *)

Mishap == talk["fault"] > 0 /\ talk' = [talk EXCEPT !["fault"] = @ - 1]

Deliver(msgs) == incoming' = incoming \o msgs

\* What the handler of a goal or of a reserve applies: a value in its range,
\* and a departure in the future.
Acceptable(msg) ==
    \/ msg.kind = "goal" /\ msg.val \in EvGoals /\ msg.id \notin past
    \/ msg.kind = "reserve" /\ msg.val \in Reserves

\* What was stated, and the broker no longer retains: an intent replaces the
\* one before it on its topic, whatever its handler makes of it.
Displaced == {k \in Lasting : meant[k] # Unset /\ ~Acceptable(retainedOf[k])}

\* A well-stated goal or reserve is meant until the next; one that is rejected
\* and finds the hub down takes its place.
Means(kind, val) ==
    IF kind \in Lasting /\ val # Bad
    THEN meant' = [meant EXCEPT ![kind] = val] /\ lost' = lost \ {kind}
    ELSE /\ lost' = IF bootStage = "down" THEN lost \cup ({kind} \cap Lasting) ELSE lost
         /\ UNCHANGED meant

\* A user or a utility speaks; a charge-now alone is not retained.
Post(kind, val) ==
    LET msg == Message(kind, talk[kind], val)
    IN  /\ talk[kind] > 0 /\ talk' = [talk EXCEPT ![kind] = @ - 1]
        /\ retainedOf' = IF kind = "charge" THEN retainedOf ELSE [retainedOf EXCEPT ![kind] = msg]
        /\ IF bootStage = "down" THEN UNCHANGED incoming ELSE Deliver(<<msg>>)
        /\ IF kind = "mode" /\ val \in Modes
           THEN asked' = val /\ untimely' = (untimely \/ bootStage # "sealed") /\ UNCHANGED outrun
           ELSE UNCHANGED <<asked, untimely, outrun>>
        /\ Means(kind, val)
        /\ UNCHANGED <<engine, adopter, sending, bootStage, listening, past>>

Call ==
    \/ \E g \in EvGoals \cup {Bad} : Post("goal", g)
    \/ \E r \in Reserves \cup {Bad} : Post("reserve", r)
    \/ \E m \in Modes \cup {Bad} : Post("mode", m)
    \/ \E c \in {Unset, Bad} : Post("charge", c)
    \/ Post("csip", "csip") \/ Post("openadr", "openadr")

\* The departure of a goal passes; before the hub has read it, it is lost.
DepartureComes ==
    /\ Mishap
    /\ \E msg \in {retainedOf["goal"]} \cup {incoming[i] : i \in 1..Len(incoming)} :
          /\ msg # Unset /\ Acceptable(msg) /\ msg.kind = "goal"
          /\ past' = past \cup {msg.id}
          /\ lost' = IF bootStage = "down" \/ \E i \in 1..Len(incoming) : incoming[i] = msg
                     THEN lost \cup {"goal"} ELSE lost
    /\ UNCHANGED <<engine, adopter, broker, bootStage, listening, asked, untimely, outrun, meant>>

\* What a subscription brings, in the order main.go subscribes.
Retained(kinds) ==
    LET have(k) == IF k \in kinds /\ retainedOf[k] # Unset THEN <<retainedOf[k]>> ELSE <<>>
    IN  have("csip") \o have("openadr") \o have("goal") \o have("reserve")
            \o have("mode") \o have("status")

\* The broker takes what the hub sent: a status is retained, and comes back
\* to the hub once it listens to it.
BrokerTakes ==
    /\ sending # <<>> /\ sending' = Tail(sending)
    /\ LET msg == Head(sending)
       IN  IF msg.kind = "subscribe"
           THEN listening' = TRUE /\ Deliver(Retained({"status"})) /\ UNCHANGED retainedOf
           ELSE /\ retainedOf' = [retainedOf EXCEPT !.status = msg]
                /\ Deliver(IF listening THEN <<msg>> ELSE <<>>)
                /\ UNCHANGED listening
    /\ UNCHANGED <<engine, adopter, bootStage, talk, ghosts>>

\* A clean session forgets what was under way to the hub and sends what is
\* retained again; the client resends what it had published.
Reconnect ==
    /\ bootStage # "down" /\ Mishap
    /\ incoming' = Retained(IF listening THEN Kinds ELSE Kinds \ {"status"})
    /\ untimely' = (untimely \/ \E k \in 1..Len(incoming) : incoming[k].kind = "mode")
    /\ lost' = lost \cup {k \in Displaced : \E i \in 1..Len(incoming) :
                                incoming[i].kind = k /\ Acceptable(incoming[i])}
    /\ UNCHANGED <<engine, adopter, retainedOf, sending, bootStage, listening, asked, outrun, past, meant>>

\* The process dies; a mode whose status the broker has not seen is untimely,
\* and so is one that was under way to the hub when a session ended. What was
\* adopted and then replaced by a rejected intent does not come back.
Crash ==
    /\ bootStage # "down" /\ Mishap
    /\ EngineLost /\ bootStage' = "down" /\ listening' = FALSE
    /\ mode' = CfgMode /\ lastID' = NoIDs /\ csipSeen' = FALSE
    /\ standing' = Unset /\ gen' = 0 /\ timer' = Unset /\ fired' = {}
    /\ incoming' = <<>> /\ sending' = <<>>
    /\ untimely' = (untimely \/ retainedOf.status = Unset \/ retainedOf.status.val # asked)
    /\ lost' = lost \cup Displaced
    /\ UNCHANGED <<retainedOf, asked, outrun, past, meant>>

-----------------------------------------------------------------------------
(* The boot, on the main goroutine; handlers already run beside it.        *)

SendToBroker(msgs) == sending' = sending \o msgs

SubscribeIntents ==
    /\ bootStage = "down" /\ bootStage' = "intents"
    /\ incoming' = Retained(Kinds \ {"status"})
    /\ UNCHANGED <<engine, adopter, retainedOf, sending, listening, talk, ghosts>>

SubscribeStatus ==
    /\ bootStage = "intents" /\ bootStage' = "status"
    /\ SendToBroker(<<Message("subscribe", 0, Unset)>>)
    /\ UNCHANGED <<engine, adopter, retainedOf, incoming, listening, talk, ghosts>>

\* Subscribe waits for the broker's acknowledgement; then eng.Start.
StartEngine ==
    /\ bootStage = "status" /\ listening /\ bootStage' = "started"
    /\ StartEngineLoops
    /\ UNCHANGED <<adopter, broker, listening, talk, ghosts>>

SealBoot ==
    /\ bootStage = "started" /\ bootStage' = "sealed"
    /\ SendToBroker(<<Message("status", 0, mode)>>)
    /\ outrun' = (outrun \/ \E k \in 1..Len(incoming) : incoming[k].kind = "status")
    /\ UNCHANGED <<engine, adopter, retainedOf, incoming, listening, talk, asked, untimely,
                   past, meant, lost>>

-----------------------------------------------------------------------------
(* The handlers and the revert, one at a time under the adopter's lock.    *)

\* adopt: the id already seen last is answered and not applied again.
Fresh(msg) == lastID[msg.kind] # msg.id

Supersede == gen' = gen + 1 /\ timer' = Unset

\* A goal that is rejected or expired is answered, and changes nothing.
ApplyEVGoal(msg) ==
    IF ~Acceptable(msg) THEN UNCHANGED <<engine, mode, standing, gen, timer, fired, sending>>
    ELSE /\ Set("goal", <<msg.val, "stated">>)
         /\ standing' = msg.val /\ Supersede
         /\ UNCHANGED <<mode, fired, sending>>

\* Without a standing goal there is nothing to accelerate.
ApplyChargeNow(msg) ==
    IF msg.val = Bad \/ standing = Unset
    THEN UNCHANGED <<engine, mode, standing, gen, timer, fired, sending>>
    ELSE /\ Set("goal", <<standing, "now">>)
         /\ gen' = gen + 1 /\ timer' = [gen |-> gen + 1, goal |-> standing]
         /\ UNCHANGED <<mode, standing, fired, sending>>

ApplyReserve(msg) ==
    /\ IF Acceptable(msg) THEN Set("reserve", msg.val) ELSE UNCHANGED engine
    /\ UNCHANGED <<mode, standing, gen, timer, fired, sending>>

\* applyMode and modeManager.request: the mode, a wake-up, then the status.
ApplyMode(msg) ==
    IF msg.val \notin Modes \/ msg.val = mode
    THEN UNCHANGED <<engine, mode, standing, gen, timer, fired, sending>>
    ELSE /\ mode' = msg.val /\ Wake
         /\ SendToBroker(<<Message("status", msg.id, msg.val)>>)
         /\ UNCHANGED <<standing, gen, timer, fired>>

Adopt(msg) ==
    /\ IF ~Fresh(msg) THEN UNCHANGED <<engine, mode, standing, gen, timer, fired, sending>>
       ELSE CASE msg.kind = "goal"    -> ApplyEVGoal(msg)
              [] msg.kind = "charge"  -> ApplyChargeNow(msg)
              [] msg.kind = "reserve" -> ApplyReserve(msg)
              [] msg.kind = "mode"    -> ApplyMode(msg)
    /\ lastID' = [lastID EXCEPT ![msg.kind] = msg.id]
    /\ UNCHANGED csipSeen

\* Prices: the utility's tariff shuts OpenADR's out for good.
AdoptPrices(msg) ==
    /\ csipSeen' = (csipSeen \/ msg.kind = "csip")
    /\ IF msg.kind = "openadr" /\ csipSeen THEN UNCHANGED engine
       ELSE Set("price", msg.val)
    /\ UNCHANGED <<mode, lastID, standing, gen, timer, fired, sending>>

\* onModeStatus: only until the boot is sealed.
OnModeStatus(msg) ==
    /\ mode' = IF bootStage = "sealed" THEN mode ELSE msg.val
    /\ UNCHANGED <<engine, lastID, csipSeen, standing, gen, timer, fired, sending>>

Handle ==
    /\ incoming # <<>> /\ incoming' = Tail(incoming)
    /\ LET msg == Head(incoming)
       IN  CASE msg.kind \in {"csip", "openadr"} -> AdoptPrices(msg)
             [] msg.kind = "status" -> OnModeStatus(msg)
             [] OTHER -> Adopt(msg)
    /\ UNCHANGED <<retainedOf, bootStage, listening, talk, ghosts>>

\* time.AfterFunc: the timer runs out, and its function waits for the lock.
TimerFires ==
    /\ timer # Unset /\ timer' = Unset /\ fired' = fired \cup {timer}
    /\ UNCHANGED <<engine, mode, lastID, csipSeen, standing, gen, broker, bootStage, listening, talk, ghosts>>

\* Mutant: a revert whose timer was stopped too late still takes effect.
MutCurrent(r) == r.gen <= gen

\* revertChargeNow: one that was superseded in the meantime does nothing.
Current(r) == r.gen = gen
Revert(r) ==
    /\ fired' = fired \ {r}
    /\ IF Current(r) THEN Set("goal", <<r.goal, "stated">>) ELSE UNCHANGED engine
    /\ UNCHANGED <<mode, lastID, csipSeen, standing, gen, timer, broker, bootStage, listening, talk, ghosts>>

-----------------------------------------------------------------------------
BootHub == SubscribeIntents \/ SubscribeStatus \/ StartEngine \/ SealBoot
Reverts == \E r \in fired : Revert(r)
HubRest == <<adopter, broker, bootStage, listening, talk, ghosts>>
ControlTick == (UrgentTick(mode) \/ EconomicTick(mode)) /\ UNCHANGED HubRest
ProtectionTick == SafetyTick /\ UNCHANGED HubRest
PlannerStarts == Replan /\ UNCHANGED HubRest
PlannerStores == StorePlan /\ UNCHANGED HubRest

NextIntents ==
    \/ Call \/ DepartureComes \/ BrokerTakes \/ Reconnect \/ Crash \/ BootHub \/ Handle
    \/ TimerFires \/ Reverts \/ ControlTick \/ ProtectionTick
    \/ PlannerStarts \/ PlannerStores

\* A process that is up runs its goroutines and timers, systemd restarts it,
\* and the broker serves its connection.
FairIntents ==
    /\ WF_intentsVars(BrokerTakes) /\ WF_intentsVars(BootHub) /\ WF_intentsVars(Handle)
    /\ WF_intentsVars(TimerFires) /\ WF_intentsVars(Reverts)
    /\ WF_intentsVars(ControlTick) /\ WF_intentsVars(PlannerStarts) /\ WF_intentsVars(PlannerStores)

SpecIntents == InitIntents /\ [][NextIntents]_intentsVars /\ FairIntents

-----------------------------------------------------------------------------
HubSettled == bootStage = "sealed" /\ incoming = <<>> /\ sending = <<>>

\* The goal the engine has, or is about to have, is the one the hub adopted,
\* accelerated exactly while a charge-now runs, and the one adopted is the last
\* that was stated well: whatever order the intents, those that are rejected or
\* out of date, their redelivery, a restart and the expiry of a timer that was
\* stopped too late came in. Only what a rejected intent displaced from its
\* topic, or its departure overtook, before the hub had read it is lost.
GoalInForce ==
    bootStage # "down" =>
        /\ dropped \/ Applied(planIn, cmds).goal =
              IF standing = Unset THEN Unset ELSE <<standing, IF Reverting THEN "now" ELSE "stated">>
        /\ incoming = <<>> => "goal" \in lost \/ standing = meant["goal"]

\* A mode the hub had settled on outlives the process, although the intent
\* that asked for it, a later invalid one and the status all come back in
\* their own time; and the status tells the mode that is in charge.
ModeSurvives ==
    HubSettled /\ ~untimely /\ ~outrun => mode = asked /\ retainedOf.status.val = mode

\* What the hub was told outlives everything that came in between.
InputsAreKept == GoalInForce /\ ModeSurvives

\* In the end every input reaches the plan that the economic tick follows, none undoes
\* another, one that is rejected leaves it as it was, the utility's price wins
\* over OpenADR's, and the plan is of the author in charge.
Wanted ==
    [goal |-> IF meant["goal"] = Unset THEN Unset
              ELSE <<meant["goal"], IF Reverting THEN "now" ELSE "stated">>,
     price |-> IF retainedOf.csip # Unset THEN "csip"
               ELSE IF retainedOf.openadr # Unset THEN "openadr" ELSE Unset,
     reserve |-> meant["reserve"]]
InputsInPlan ==
    ~dropped => /\ last.author = mode /\ last.daily # Unset
                /\ \A field \in DOMAIN Wanted \ lost :
                       last.daily[field] = BuildPlannerParams(Wanted)[field]
=============================================================================
