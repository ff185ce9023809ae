-------------------------------- MODULE Lease --------------------------------
(***************************************************************************)
(* The life of a utility control from the server's list to the hub's       *)
(* enforcement: a walk publishes it, the broker retains it, the hub adopts *)
(* it, holds it while nothing is heard, and lets it end.                   *)
(*                                                                         *)
(* The server edits its list at any moment, between two pages too.  Each   *)
(* behaviour has its own trouble: outages, a server that misstates the     *)
(* time once, a registration PIN that cannot be confirmed for a while, a   *)
(* broker that dies and comes back with an older retained message or a     *)
(* corrupt one, resubscriptions of the hub, restarts of the two processes, *)
(* publishes that time out.                                                *)
(***************************************************************************)
EXTENDS Scheduler, Sequences

-----------------------------------------------------------------------------
(* The discovery walk of lexa-northbound (internal/northbound/discovery,   *)
(* run, publish).  The walk loop fetches the utility's resource tree, a    *)
(* list page by page; feeds it to the scheduler; and publishes the control *)
(* in force, retained.  A walk that fails publishes nothing.  A rewalk     *)
(* request from the hub arrives on another goroutine: it publishes the     *)
(* cached control again and asks the loop for an immediate walk.           *)
(*                                                                         *)
(* One program is served; its events are fetched last.  What a walk reads  *)
(* without consequence for the control (billing, mirror usage points, DER  *)
(* resources) is left out.  The unit of time is the hub's tick.            *)

CONSTANTS
    PageSize,     \* entries the server puts on a page
    Honor,        \* poll_rate_mode: is the advertised rate honored?
    Base,         \* discovery_interval_s
    Longest,      \* poll_rate_max_interval_s, or 0
    MaxStaleness, \* clockMaxStaleness
    Rates,        \* the poll rates a tree may advertise; 0: none
    Misreading,       \* how far off one reading of the server's time may be
    Win,          \* Win[e]: the effective window drawn for event e
    LeaseTime       \* bound

ASSUME WalkAssumption ==
    /\ {PageSize, Base, MaxStaleness, LeaseTime} \subseteq Nat \ {0}
    /\ {Longest, Misreading} \subseteq Nat
    /\ Honor \in BOOLEAN /\ Rates \subseteq Nat /\ Rates # {}
    /\ \A e \in Event : {Win[e].start, Win[e].dur} \subseteq Nat

VARIABLES
    clock,       \* the time
    served,    \* server: the event list, in its order
    default,   \* server: the mRID of the DefaultDERControl, or NoMRID
    rate,      \* server: the advertised poll rate
    reachable, \* can the server be reached?
    walk,      \* the walk under way: [at, got, all]
    walkGood, walkHold, \* the scheduler
    lastPub,   \* lastPublishedStore
    handler,   \* the copy a rewalk request is about to publish, or Nothing
    gate,      \* when a rewalk request was last honored
    poke,      \* rewalkChan
    timerDue,       \* when the timer fires
    drift,     \* the error of its utility clock, set by the walk's reading
    retained   \* the broker's lexa/csip/control

serverVars == <<served, default, rate, reachable>>
walkVars == <<walk, walkGood, walkHold, lastPub, handler, gate, poke, timerDue, drift>>

NotYet == 0 - 1
NoWalk == [at |-> "idle", got |-> {}, all |-> 0]
Elements(seq) == {seq[i] : i \in DOMAIN seq}

\* ToActiveControl: an event carries its program's default along; at is the
\* server's time when the message is made.
ToActiveControl(control, t) ==
    [mrid |-> control.mrid, source |-> control.source, until |-> control.until,
     fallback |-> IF control.source = "event" THEN default ELSE NoMRID, at |-> t]
Nothing == [mrid |-> NoMRID, source |-> "nothing", until |-> 0, fallback |-> NoMRID, at |-> 0]
Garbage == [Nothing EXCEPT !.source = "garbage"]

\* effectiveInterval.
EffectiveInterval ==
    LET ceiling == IF Longest \in 1..MaxStaleness THEN Longest ELSE MaxStaleness
    IN  CASE ~Honor \/ rate = 0 \/ rate < Base -> Base
          [] Honor /\ rate # 0 /\ rate >= Base -> IF rate > ceiling THEN ceiling ELSE rate

\* The loop ends a walk and sets its timer.
Rested == walk' = NoWalk /\ timerDue' = clock + EffectiveInterval

\* Loop: the timer fires, or a rewalk request is pending.
DueNow == walk = NoWalk /\ (clock >= timerDue \/ poke \/ clock = LeaseTime)
Overdue == clock >= timerDue \/ poke \/ walk # NoWalk

\* The page the server answers ?s=from&l=PageSize with.
Page(from) ==
    SubSeq(served, from + 1,
           IF from + PageSize > Len(served) THEN Len(served) ELSE from + PageSize)

FirstPage ==
    [at  |-> IF Len(Page(0)) >= Len(served) THEN "assembled" ELSE "paging",
     got |-> Elements(Page(0)), all |-> Len(served)]

\* Discover down to the first page of the controls.
BeginWalk ==
    /\ DueNow
    /\ reachable
    /\ poke' = FALSE
    /\ walk' = FirstPage
    /\ UNCHANGED <<walkGood, walkHold, lastPub, handler, gate, timerDue, drift>>

\* fetchPagedList: one more page, from behind those collected (an entry seen
\* before is dropped), until all are collected or a page adds none.
NextPage ==
    /\ walk.at = "paging"
    /\ reachable
    /\ LET got == walk.got \cup Elements(Page(Cardinality(walk.got)))
       IN  walk' = [walk EXCEPT !.got = got,
                                !.at = IF got = walk.got \/ Cardinality(got) >= walk.all
                                       THEN "assembled" ELSE "paging"]
    /\ UNCHANGED <<walkGood, walkHold, lastPub, handler, gate, poke, timerDue, drift>>

\* A fetch fails, on the first page or between two: nothing is published.
MutWalkFails ==
    /\ ~reachable
    /\ DueNow \/ walk.at = "paging"
    /\ poke' = IF walk = NoWalk THEN FALSE ELSE poke
    /\ IF walk = NoWalk THEN Rested ELSE walk' = [walk EXCEPT !.at = "assembled"] /\ UNCHANGED timerDue
    /\ UNCHANGED <<walkGood, walkHold, lastPub, handler, gate, drift>>
WalkFails ==
    /\ ~reachable
    /\ DueNow \/ walk.at = "paging"
    /\ poke' = IF walk = NoWalk THEN FALSE ELSE poke
    /\ Rested
    /\ UNCHANGED <<walkGood, walkHold, lastPub, handler, gate, drift>>

\* What the walk found, as the scheduler takes it.
Found ==
    [NoTree EXCEPT !.found = TRUE, !.listed = walk.got, !.default = default]

\* RunOnce after a successful walk, the time read as t: evaluate and publish.
\* tree: what it found, or NoTree when the registration PIN is not confirmed.
\* acked: did the publish return in time?  reached: did it reach the broker?
Published(tree, t, acked, reached) ==
    /\ walk.at = "assembled"
    /\ LET resolved == Resolve(tree, Win, t)
           holding  == Holding(walkHold, walkGood, tree, t)
           result   == FailClosed(resolved, walkGood, holding, tree, t)
           message  == ToActiveControl(result.active, t)
       IN  /\ walkGood' = result.lastGood
           /\ walkHold' = holding
           /\ lastPub' = IF acked THEN message ELSE lastPub
           /\ retained' = IF reached THEN message ELSE retained
    /\ drift' = t - clock
    /\ Rested
    /\ UNCHANGED <<handler, gate, poke>>

\* handleRewalkRequest, up to the copy of the cached control: at most one
\* request in nbRewalkRateLimit, which is shorter than a unit of time.
RewalkRequested ==
    /\ handler = Nothing
    /\ IF gate = clock THEN UNCHANGED <<handler, gate, poke>>
       ELSE /\ gate' = clock
            /\ handler' = IF lastPub = Nothing THEN Nothing ELSE [lastPub EXCEPT !.at = clock + drift]
            /\ poke' = IF lastPub = Nothing THEN TRUE ELSE poke
    /\ UNCHANGED <<walk, walkGood, walkHold, lastPub, timerDue, drift>>

\* handleRewalkRequest, from the publish of the copy on.
RewalkPublished ==
    /\ handler # Nothing
    /\ retained' = handler
    /\ lastPub' = handler
    /\ handler' = Nothing
    /\ poke' = TRUE
    /\ UNCHANGED <<walk, walkGood, walkHold, gate, timerDue, drift>>

\* A new process walks at once; only the broker remembers.
FreshWalk ==
    /\ walk' = NoWalk
    /\ walkGood' = NoControl
    /\ walkHold' = NoHold
    /\ lastPub' = Nothing
    /\ handler' = Nothing
    /\ gate' = NotYet
    /\ poke' = FALSE
    /\ timerDue' = clock
    /\ drift' = 0

InitWalk ==
    /\ clock = 0
    /\ served = <<>>
    /\ default \in {NoMRID, DefaultMRID}
    /\ rate \in Rates
    /\ reachable = TRUE
    /\ walk = NoWalk
    /\ walkGood = NoControl
    /\ walkHold = NoHold
    /\ lastPub = Nothing
    /\ handler = Nothing
    /\ gate = NotYet
    /\ poke = FALSE
    /\ timerDue = 0
    /\ drift = 0
    /\ retained = Nothing

-----------------------------------------------------------------------------
(* What the hub holds of the utility's control (cmd/hub/state.go): the     *)
(* last ActiveControl that arrived, the utility's time anchored at its     *)
(* arrival, and the debounced expiry that ends it when the publisher is    *)
(* silent.  A control older than a bound at its arrival is enforced all    *)
(* the same, and lexa-northbound is asked to repeat what it knows.         *)
(*                                                                         *)
(* Between two arrivals the anchored clock runs on the monotonic clock, so *)
(* its error is constant: skew is the hub's utility time less the true     *)
(* one.  Before the first arrival the hub reads its own clock, taken to be *)
(* right.  At most one request leaves in rewalkRateLimit, which is shorter *)
(* than a unit of time.                                                    *)

CONSTANTS
    MaxAge,   \* retained_adoption_max_age_s
    HubConfirm \* DebouncedExpiry.Confirm

ASSUME CacheAssumption == MaxAge \in Nat \ {0} /\ HubConfirm \in Nat \ {0, 1}

VARIABLES
    control, \* lastCSIP, or Nothing
    skew,    \* the error of the hub's utility time
    count,   \* consecutive expired readings
    asked,   \* when a rewalk was last requested
    request  \* is a rewalk request on its way?

cacheVars == <<control, skew, count, asked, request>>

ControlIsReal(m) == m.source \in {"event", "default"}

\* requestRewalkLocked.
Requested(needed) ==
    IF needed /\ asked # clock THEN asked' = clock /\ request' = TRUE
    ELSE UNCHANGED <<asked, request>>

\* onCSIPControl, or the decode-error handler of the same topic.  The age is
\* judged by the previous anchor.
OnControl(m) ==
    /\ IF m = Garbage THEN UNCHANGED <<control, skew>>
       ELSE control' = m /\ skew' = m.at - clock
    /\ Requested(m = Garbage \/ (ControlIsReal(m) /\ clock + skew - m.at > MaxAge))
    /\ UNCHANGED count

\* The DefaultDERControl an event carries, as a control of its own.
Fallback(m) ==
    [mrid |-> m.fallback, source |-> "default", until |-> 0, fallback |-> NoMRID, at |-> m.at]

\* ReadSystemState: the debounced expiry.
MutExpiry ==
    /\ LET expired == Expired(control, clock + skew)
           over    == expired /\ count + 1 >= HubConfirm
       IN  /\ count' = IF ~expired THEN 0 ELSE IF over THEN HubConfirm ELSE count + 1
           /\ control' = IF over /\ control.fallback # NoMRID THEN Fallback(control) ELSE control
    /\ UNCHANGED <<skew, asked, request>>
Expiry ==
    /\ LET expired == Expired(control, clock + skew)
           over    == expired /\ count + 1 >= HubConfirm
       IN  /\ count' = IF ~expired THEN 0 ELSE IF over THEN HubConfirm ELSE count + 1
           /\ control' = CASE over /\ control.fallback # NoMRID -> Fallback(control)
                           [] over /\ control.fallback = NoMRID -> Nothing
                           [] ~over -> control
    /\ UNCHANGED <<skew, asked, request>>

\* A new process subscribes and is given what is retained.
FreshCache(m) ==
    LET known == m \notin {Nothing, Garbage}
        old   == ControlIsReal(m) /\ clock - m.at > MaxAge
    IN  /\ control' = IF known THEN m ELSE Nothing
        /\ skew' = IF known THEN m.at - clock ELSE 0
        /\ count' = 0
        /\ asked' = IF old \/ m = Garbage THEN clock ELSE NotYet
        /\ request' = (request \/ old \/ m = Garbage)

InitCache ==
    /\ control = Nothing
    /\ skew = 0
    /\ count = 0
    /\ asked = NotYet
    /\ request = FALSE

-----------------------------------------------------------------------------
(* Both in one: the control from the list to the enforcement. *)

CONSTANTS
    Troubles,              \* the sets of troubles behaviours may have
    MaxEdits, MaxMishaps  \* bounds

VARIABLES
    trouble, \* this behaviour's troubles
    ticked,  \* has the hub ticked since time last passed?
    gone,    \* the events the server has withdrawn
    saved,   \* what the broker last wrote to disk
    odd,     \* ghost: why the hub may lawfully be behind the server
    edits, mishaps  \* what is left of the bounds

envVars == <<trouble, gone, saved, edits, mishaps>>
leaseVars == <<clock, served, default, rate, reachable, walk, walkGood, walkHold, lastPub, handler,
          gate, poke, timerDue, drift, retained, control, skew, count, asked, request, trouble,
          ticked, gone, saved, odd, edits, mishaps>>

Befalls(kind) == kind \in trouble /\ mishaps > 0 /\ mishaps' = mishaps - 1

-----------------------------------------------------------------------------
WalkStep ==
    /\ BeginWalk \/ NextPage \/ WalkFails
    /\ UNCHANGED <<clock, serverVars, retained, cacheVars, ticked, odd, envVars>>

\* The walk's message reaches the broker and, subscribed, the hub.
WalkPublishes ==
    /\ Published(Found, clock, TRUE, TRUE)
    /\ OnControl(retained')
    /\ odd' = odd \ (IF handler = Nothing THEN {"shifted", "overtaken", "restored", "glitched"}
                     ELSE {"restored", "glitched"})
    /\ UNCHANGED <<clock, serverVars, ticked, envVars>>

\* One walk of the behaviour reads the server's time wrong.
PublishGlitched ==
    /\ "glitch" \in trouble /\ mishaps > 0 /\ mishaps' = 0
    /\ Published(Found, clock + Misreading, TRUE, TRUE)
    /\ OnControl(retained')
    /\ odd' = odd \cup {"glitched"}
    /\ UNCHANGED <<clock, serverVars, ticked, trouble, gone, saved, edits>>

\* The registration PIN cannot be confirmed: the control in force is held.
PublishFrozen ==
    /\ Befalls("pin")
    /\ Published(NoTree, clock, TRUE, TRUE)
    /\ OnControl(retained')
    /\ UNCHANGED <<clock, serverVars, ticked, odd, trouble, gone, saved, edits>>

\* The publish is given up: it arrives all the same, or it does not.
PublishTimesOut ==
    /\ Befalls("publish")
    /\ \/ /\ Published(Found, clock, FALSE, TRUE)
          /\ OnControl(retained')
          /\ odd' = odd \cup {"overtaken"}
       \/ /\ Published(Found, clock, FALSE, FALSE)
          /\ UNCHANGED <<cacheVars, odd>>
    /\ UNCHANGED <<clock, serverVars, ticked, trouble, gone, saved, edits>>

HandlesRewalk ==
    /\ request
    /\ request' = FALSE
    /\ RewalkRequested
    /\ UNCHANGED <<clock, serverVars, retained, control, skew, count, asked, ticked, odd, envVars>>

\* The copy may have been overtaken by the walk's own publish.
RewalkPublishes ==
    /\ RewalkPublished
    /\ OnControl(retained')
    /\ odd' = IF handler.mrid = lastPub.mrid THEN odd ELSE odd \cup {"overtaken"}
    /\ UNCHANGED <<clock, serverVars, ticked, envVars>>

HubTicks ==
    /\ ~ticked
    /\ ticked' = TRUE
    /\ Expiry
    /\ UNCHANGED <<clock, serverVars, walkVars, retained, odd, envVars>>

\* Everything that is due is done within a unit of time.
TimePasses ==
    /\ clock < LeaseTime
    /\ ticked /\ ~Overdue /\ handler = Nothing /\ ~request
    /\ clock' = clock + 1
    /\ ticked' = FALSE
    /\ UNCHANGED <<serverVars, walkVars, retained, cacheVars, odd, envVars>>

-----------------------------------------------------------------------------
(* The server's list. *)

Edits(list) ==
    /\ edits > 0
    /\ edits' = edits - 1
    /\ served' = list
    /\ UNCHANGED <<clock, default, rate, reachable, walkVars, retained, cacheVars, ticked,
                   trouble, saved, mishaps>>
Adds(e) ==
    /\ e \notin gone \cup Elements(served)
    /\ Edits(Append(served, e))
    /\ UNCHANGED <<gone, odd>>
Withdraws(e) ==
    /\ \E i \in DOMAIN served :
          /\ served[i] = e
          /\ Edits(SubSeq(served, 1, i - 1) \o SubSeq(served, i + 1, Len(served)))
    /\ gone' = gone \cup {e}
    /\ odd' = IF walk = NoWalk THEN odd ELSE odd \cup {"shifted"}

-----------------------------------------------------------------------------
(* Trouble. *)

Outage ==
    /\ reachable
    /\ Befalls("outage")
    /\ reachable' = FALSE
    /\ UNCHANGED <<clock, served, default, rate, walkVars, retained, cacheVars, ticked,
                   odd, trouble, gone, saved, edits>>
OutageEnds ==
    /\ ~reachable
    /\ reachable' = TRUE
    /\ UNCHANGED <<clock, served, default, rate, walkVars, retained, cacheVars, ticked,
                   odd, envVars>>

Resubscribes ==
    /\ retained # Nothing
    /\ Befalls("resubscribe")
    /\ OnControl(retained)
    /\ UNCHANGED <<clock, serverVars, walkVars, retained, ticked, odd, trouble, gone, saved, edits>>

BrokerSaves ==
    /\ "broker" \in trouble
    /\ saved # retained
    /\ saved' = retained
    /\ UNCHANGED <<clock, serverVars, walkVars, retained, cacheVars, ticked, odd, trouble,
                   gone, edits, mishaps>>
BrokerRestarts ==
    /\ Befalls("broker")
    /\ retained' \in {saved, Garbage}
    /\ IF retained' = Nothing THEN UNCHANGED cacheVars ELSE OnControl(retained')
    /\ odd' = odd \cup {"restored"}
    /\ UNCHANGED <<clock, serverVars, walkVars, ticked, trouble, gone, saved, edits>>

NorthboundStartsAnew ==
    /\ Befalls("restart")
    /\ FreshWalk
    /\ UNCHANGED <<clock, serverVars, retained, cacheVars, ticked, odd, trouble, gone, saved, edits>>
HubStartsAnew ==
    /\ Befalls("restart")
    /\ FreshCache(retained)
    /\ UNCHANGED <<clock, serverVars, walkVars, retained, ticked, odd, trouble, gone, saved, edits>>

-----------------------------------------------------------------------------
InitLease ==
    /\ InitWalk
    /\ InitCache
    /\ trouble \in Troubles
    /\ ticked = FALSE
    /\ gone = {}
    /\ saved = Nothing
    /\ odd = {}
    /\ edits = MaxEdits
    /\ mishaps = MaxMishaps

NextLease ==
    \/ WalkStep \/ WalkPublishes \/ PublishGlitched \/ PublishFrozen \/ PublishTimesOut
    \/ HandlesRewalk \/ RewalkPublishes
    \/ HubTicks \/ TimePasses
    \/ \E e \in Event : Adds(e) \/ Withdraws(e)
    \/ Outage \/ OutageEnds \/ Resubscribes \/ BrokerSaves \/ BrokerRestarts
    \/ NorthboundStartsAnew \/ HubStartsAnew

\* The walk loop and the engine never stop, an outage ends, time passes.
FairLease ==
    /\ WF_walk(DueNow /\ reachable /\ walk' = FirstPage)
    /\ WF_walk(walk' = NoWalk)
    /\ WF_reachable(~reachable /\ reachable' = TRUE)
    /\ WF_clock(clock < LeaseTime /\ clock' = clock + 1)
SpecLease == InitLease /\ [][NextLease]_leaseVars /\ FairLease

-----------------------------------------------------------------------------
(* Properties. *)

Outranked(e, by) == by \in Elements(served) /\ Created[by] > Created[e]

\* The hub lets go of an event in its window only because the utility withdrew
\* it or has a later one: not for an outage, a page that fails, a reading of
\* the clock, a PIN not confirmed, a restart of either process.  Excepted: a list that shrank under
\* the walk, a copy that overtook a newer message, an older message a broker
\* came back with, a misstated time where the debounce is no longer than a walk.
Excused(o) ==
    \/ o \cap {"shifted", "overtaken", "restored"} # {}
    \/ "glitched" \in o /\ HubConfirm <= EffectiveInterval + 1
ReleasedForCause ==
    [][\A e \in Event :
          control.mrid = e /\ control'.mrid # e /\ InWindow(Win[e], clock) =>
              \/ e \notin Elements(served)
              \/ Outranked(e, control'.mrid)
              \/ Excused(odd) \/ Excused(odd')]_leaseVars

\* An event that is over ends within the debounce of its end, or of the last
\* message that repeated it, although nobody says so; unless a redelivered
\* message set the hub's utility time back.
EndsOnTime ==
    control.source = "event" /\ skew >= 0 =>
        \/ clock <= control.until + HubConfirm
        \/ clock <= control.at + HubConfirm

\* In the end the hub enforces what the server's list says.
FollowsServer ==
    <>[](control.mrid = Resolve([NoTree EXCEPT !.found = TRUE, !.listed = Elements(served),
                                               !.default = default], Win, clock).mrid)
=============================================================================
