------------------------------ MODULE Scheduler ------------------------------
(***************************************************************************)
(* The DER event scheduler of lexa-northbound (internal/northbound/        *)
(* scheduler): which control is in force, given what one discovery walk    *)
(* served and the server's time.  A walk yields a tree:                    *)
(*   found      did it return any program?                                 *)
(*   listed     the events of the highest-priority program                 *)
(*   cancelled  those with currentStatus 6                                 *)
(*   garbled    the controls that fail the plausibility gate               *)
(*   default    the mRID of the program's DefaultDERControl, or NoMRID     *)
(* An event's effective window is drawn once from its randomisation and    *)
(* cached by mRID: win[e], a start and a duration.                         *)
(***************************************************************************)
EXTENDS Integers, FiniteSets

CONSTANTS
    Event,         \* the mRIDs of the events, as numbers in their string order
    DefaultMRID,   \* the mRID of the program's DefaultDERControl
    Created,       \* Created[e]: the event's creationTime
    Supersedable,  \* the events with potentiallySuperseded set
    Windows,       \* Windows[e]: the windows its randomisation may draw
    Confirm        \* consecutive expired readings that end an event

ASSUME SchedulerAssumption ==
    /\ Event \subseteq Nat \ {0} /\ IsFiniteSet(Event)
    /\ DefaultMRID \in Nat \ ({0} \cup Event)
    /\ Supersedable \subseteq Event
    /\ \A e \in Event : Created[e] \in Nat /\ Windows[e] # {}
    /\ Confirm \in Nat \ {0}

NoMRID == 0
NoControl == [mrid |-> NoMRID, source |-> "none", until |-> 0]
NoHold == [mrid |-> NoMRID, count |-> 0]
NoTree == [found |-> FALSE, listed |-> {}, cancelled |-> {}, garbled |-> {},
           default |-> NoMRID]

InWindow(w, t) == w.start <= t /\ t < w.start + w.dur

\* controlExpired: a default never expires by itself.
Expired(control, t) == control.until # 0 /\ t >= control.until

Live(tree) == tree.listed \ tree.cancelled

IsSuperseded(e, tree, win, t) ==
    \E o \in Live(tree) \ {e} : InWindow(win[o], t) /\ Created[o] > Created[e]

SupersededMRIDs(tree, win, t) ==
    {e \in Live(tree) : InWindow(win[e], t) /\ IsSuperseded(e, tree, win, t)}

\* activeEvent: of the events in their window, the latest created, then the
\* greatest mRID.
Candidates(tree, win, t) ==
    {e \in Live(tree) :
        InWindow(win[e], t) /\ ~(e \in Supersedable /\ IsSuperseded(e, tree, win, t))}
Outranks(a, b) == Created[a] > Created[b] \/ (Created[a] = Created[b] /\ a >= b)

EventControl(e, win) ==
    [mrid |-> e, source |-> "event", until |-> win[e].start + win[e].dur]
DefaultControl == [mrid |-> DefaultMRID, source |-> "default", until |-> 0]

Resolve(tree, win, t) ==
    LET able == Candidates(tree, win, t)
    IN  CASE tree.found /\ able # {} ->
               EventControl(CHOOSE e \in able : \A o \in able : Outranks(e, o), win)
          [] tree.found /\ able = {} /\ tree.default # NoMRID -> DefaultControl
          [] OTHER -> NoControl

\* The event (or default) is still in the highest-priority program's lists.
StillServed(tree, mrid) ==
    /\ tree.found /\ mrid # NoMRID
    /\ IF mrid \in tree.listed THEN mrid \notin tree.cancelled ELSE mrid = tree.default

\* The forward-step debounce: a still-served event that reads as expired.
Holding(hold, lastGood, tree, t) ==
    IF lastGood.source = "event" /\ StillServed(tree, lastGood.mrid) /\ Expired(lastGood, t)
    THEN [mrid  |-> lastGood.mrid,
          count |-> IF hold.mrid = lastGood.mrid THEN hold.count + 1 ELSE 1]
    ELSE NoHold
HoldsExpired(holding) == holding.count \in 1..(Confirm - 1)

\* failClosed: the control to apply, and the control to remember.
FailClosed(resolved, lastGood, holding, tree, t) ==
    LET stands    == lastGood # NoControl /\ ~Expired(lastGood, t)
        served    == StillServed(tree, lastGood.mrid)
        held      == [active |-> lastGood, lastGood |-> lastGood]
        adopted   == [active |-> resolved, lastGood |-> resolved]
        garbled   == resolved # NoControl /\ resolved.mrid \in tree.garbled
        clockBack == lastGood.source = "event" /\ stands /\ served
    IN  CASE garbled -> IF stands THEN held ELSE [active |-> NoControl, lastGood |-> NoControl]
          [] ~garbled /\ resolved.source = "event" -> adopted
          [] ~garbled /\ resolved.source = "default" ->
               IF clockBack \/ HoldsExpired(holding) THEN held ELSE adopted
          [] resolved = NoControl ->
               IF \/ stands /\ (tree.found => served)
                  \/ tree.found /\ HoldsExpired(holding)
               THEN held
               ELSE [active |-> NoControl, lastGood |-> NoControl]

\* RejectHook fires for what this walk served, not for what is held instead.
Rejected(resolved, tree) == resolved # NoControl /\ resolved.mrid \in tree.garbled
=============================================================================
