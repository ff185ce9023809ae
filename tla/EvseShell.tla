----------------------------- MODULE EvseShell ------------------------------
(***************************************************************************)
(* One configured charging station in lexa-ocpp: the EVSE reconciler shell *)
(* (cmd/ocpp/reconcile_shell.go) and the bridge that folds the station's   *)
(* messages and carries the shell's profiles to it (cmd/ocpp/main.go,      *)
(* bridge16.go), with the hub's documents and the station around it.       *)
(*                                                                         *)
(* What is hard: a profile is an asynchronous call, given up after 10 s    *)
(* and possibly taken later; a station that is gone makes every call a     *)
(* success; samples are folded under one mutex and fed under another, in   *)
(* that order; and divergence is one-sided.  A current is a small number;   *)
(* Rated, the station's maximum, stands for no limit.  Every document of   *)
(* the hub has an opinion on Connect, so the last one is never carried.    *)
(***************************************************************************)
EXTENDS ReconcilerCore

CONSTANTS
    Amps,       \* the limits the hub may command; Rated is a release
    Rated,
    MaxSeq,     \* bound on the hub's documents
    MaxLate,    \* bound on calls given up and still on their way
    MaxEvents,  \* bound on faults, restarts and charging sessions, none of
    LastEvent,  \* which is after this time
    MaxTime     \* bound on the clock: room for a retry after the last event

ASSUME EvseAssumption ==
    /\ Field = {"MaxCurrentA"}
    /\ Amps \subseteq Level /\ {0, Rated} \subseteq Level
    /\ \A a \in Level : 0 <= a /\ a <= Rated
    /\ {MaxSeq, MaxLate, MaxEvents, LastEvent, MaxTime} \subseteq Nat

VARIABLES
    r, now,
    desiredMaxA,        \* the shell's copy of the standing limit, or NoAmps
    setpoint,           \* desiredSetpointW # nil: a discharge, so 0 A
    reconnectPending,
    connected,          \* stationState.connected
    currentA,           \* stationState.currentA
    sample,             \* a current folded, on its way to the shell
    greeting,           \* onConnect between its two steps
    socket,             \* "up", "dead" (not noticed yet) or "down"
    profile,            \* the station's TxDefaultProfile; Rated: none
    late,               \* calls given up, not taken by the station yet
    demand,             \* what the vehicle would draw
    seq, retained,      \* the hub's next number, the broker's document
    unread,             \* retained is yet to be delivered
    standing,           \* ghost: the document adopted, or NoDoc
    spoilt,             \* ghost: the last write failed, or carried the
                        \* setpoint of a refused document
    events              \* faults, restarts and sessions so far

shellVars == <<r, desiredMaxA, setpoint, standing>>
callVars == <<profile, late, spoilt, events>>
bridgeVars == <<connected, currentA, sample, greeting, reconnectPending>>
hubVars == <<seq, retained, unread>>
evseVars == <<shellVars, callVars, bridgeVars, socket, demand, hubVars, now>>

NoAmps == -1
NoSample == [amps |-> -1]
NoDoc == [seq |-> -1]

\* What ApplyEVSECommand publishes: a limit, a cease beside one, or a discharge
\* setpoint, and always an opinion on Connect.
Bodies == [amps : Amps, setpoint : {FALSE}, connect : {TRUE}]
          \cup [amps : {Rated}, setpoint : {FALSE}, connect : {FALSE}]
          \cup [amps : {Rated}, setpoint : {TRUE}, connect : {TRUE}]
Document(body, s, at) == [body |-> body, seq |-> s, issuedAt |-> at]

Drawn == IF demand > profile THEN profile ELSE demand

\* Something happens that no one of lexa-ocpp decides.
Event == now <= LastEvent /\ events < MaxEvents /\ events' = events + 1
-----------------------------------------------------------------------------
(* The shell.                                                              *)

\* The current handed to the core: "disconnect WINS", and a discharge is no
\* more than a suspended charge.
Fold(body) == IF ~body.connect \/ body.setpoint THEN 0 ELSE body.amps

CoreDocument(doc) ==
    [mrid |-> NoMRID, seq |-> doc.seq, issuedAt |-> doc.issuedAt,
     fields |-> [f \in Field |-> Fold(doc.body)], finite |-> TRUE]

\* The bridge's call for a limit: a release clears the profile, a standing
\* setpoint takes the place of any other limit.
Call(amps, sp) == IF amps >= Rated THEN Rated ELSE IF sp THEN 0 ELSE amps

\* Apply and ApplyClear: success without a call when the station is gone;
\* otherwise accepted, refused, or given up with the call still queued.  A
\* station answers its calls in order, and a dead socket answers none.
Apply(write, amps, sp) ==
    IF write = NoWrite \/ ~connected
    THEN UNCHANGED callVars
    ELSE \/ /\ socket = "up" /\ late = <<>>
            /\ profile' = Call(amps, sp)
            /\ spoilt' = (Call(amps, sp) # Call(amps, FALSE))
            /\ UNCHANGED <<late, events>>
         \/ /\ Event /\ spoilt' = TRUE
            /\ late' \in {late} \cup IF Len(late) = MaxLate THEN {}
                                     ELSE {Append(late, Call(amps, sp))}
            /\ UNCHANGED profile
         \/ /\ socket # "up" /\ spoilt' = TRUE
            /\ UNCHANGED <<profile, late, events>>

Refused(res) == \E i \in 1..Len(res.reports) :
                   res.reports[i].kind = "RejectedDoc"

\* setDesired: a refused document still leaves its setpoint in the shell.
SetDesiredEvse(doc) ==
    LET res == SetDesired(r, CoreDocument(doc), now)
    IN  /\ r' = res.r
        /\ setpoint' = doc.body.setpoint
        /\ IF Refused(res)
           THEN UNCHANGED <<desiredMaxA, standing>>
           ELSE /\ desiredMaxA' = res.r.fields["MaxCurrentA"]
                /\ standing' = doc
        /\ Apply(res.write, Fold(doc.body), doc.body.setpoint)

\* Mutant: a current over the limit is read as the limit.
MutReadback(a) == IF a > Rated THEN a ELSE desiredMaxA

Readback(a) == IF a > desiredMaxA THEN a ELSE desiredMaxA

\* observe: a pending reconnect reasserts, then the sample is assessed, with
\* the limit in place of anything under it.  The core may ask for both writes:
\* they carry the same limit and are one call here.
ObserveEvse ==
    LET first == IF reconnectPending THEN Reconnected(r, now) ELSE Idle(r)
        second == Observe(first.r,
                    [read |-> IF desiredMaxA = NoAmps THEN NoOpinion
                              ELSE [f \in Field |-> Readback(sample.amps)],
                     connected |-> sample.connected, plausible |-> TRUE,
                     finite |-> TRUE], now)
    IN  /\ sample # NoSample /\ sample' = NoSample
        /\ reconnectPending' = FALSE
        /\ r' = second.r
        /\ Apply(IF second.write = NoWrite THEN first.write ELSE second.write,
                 desiredMaxA, setpoint)
        /\ UNCHANGED <<desiredMaxA, setpoint, standing, connected, currentA,
                       greeting, socket, demand, hubVars, now>>

\* tick: every 60 s.
TickEvse ==
    LET res == Tick(r, now)
    IN  /\ r' = res.r
        /\ Apply(res.write, desiredMaxA, setpoint)
        /\ UNCHANGED <<desiredMaxA, setpoint, standing, bridgeVars, socket,
                       demand, hubVars, now>>

Deliver ==
    /\ unread /\ unread' = FALSE
    /\ SetDesiredEvse(retained)
    /\ UNCHANGED <<bridgeVars, socket, demand, seq, retained, now>>
-----------------------------------------------------------------------------
(* The bridge.                                                             *)

\* onConnect: the station is taken for connected ...
StationConnects ==
    /\ socket = "down" /\ socket' = "up"
    /\ connected' = TRUE /\ greeting' = TRUE
    /\ UNCHANGED <<shellVars, callVars, currentA, sample, reconnectPending,
                   demand, hubVars, now>>

\* Mutant: the shell is not told of a station that comes back.
MutMarkReconnected ==
    /\ greeting /\ greeting' = FALSE
    /\ UNCHANGED <<shellVars, callVars, reconnectPending, connected, currentA,
                   sample, socket, demand, hubVars, now>>

\* ... and the shell is told, with an atomic flag.
MarkReconnected ==
    /\ greeting /\ greeting' = FALSE
    /\ reconnectPending' = TRUE
    /\ UNCHANGED <<shellVars, callVars, connected, currentA, sample, socket,
                   demand, hubVars, now>>

\* onDisconnect: the calls still queued are dropped with the socket.
StationLeaves ==
    /\ socket = "dead" /\ ~greeting
    /\ socket' = "down" /\ connected' = FALSE /\ late' = <<>>
    /\ UNCHANGED <<shellVars, profile, spoilt, events, currentA, sample,
                   greeting, reconnectPending, demand, hubVars, now>>

FoldCurrent(a) ==
    /\ socket = "up" /\ ~greeting /\ sample = NoSample
    /\ currentA' = a /\ sample' = [amps |-> a, connected |-> connected]

\* OnMeterValues, OnTransactionEvent and their 1.6 twins fold a current under
\* the bridge's mutex and feed the shell outside it.
Meter ==
    /\ FoldCurrent(Drawn)
    /\ UNCHANGED <<shellVars, callVars, connected, greeting, reconnectPending,
                   socket, demand, hubVars, now>>

\* A current that cannot be true is left out, and the last one fed again.
MeterCorrupt ==
    /\ Event /\ FoldCurrent(currentA)
    /\ UNCHANGED <<shellVars, profile, late, spoilt, connected, greeting,
                   reconnectPending, socket, demand, hubVars, now>>

\* A session starts, or ends with a current of zero.
Session ==
    /\ Event
    /\ \/ demand = 0 /\ demand' = Rated /\ UNCHANGED <<currentA, sample>>
       \/ demand # 0 /\ demand' = 0 /\ FoldCurrent(0)
    /\ UNCHANGED <<shellVars, profile, late, spoilt, connected, greeting,
                   reconnectPending, socket, hubVars, now>>
-----------------------------------------------------------------------------
(* The station, the hub, the process and the clock.                        *)

\* The station gets to a call that was given up, and takes or refuses it.
StationTakes ==
    /\ socket = "up" /\ late # <<>>
    /\ late' = Tail(late) /\ profile' \in {profile, Head(late)}
    /\ UNCHANGED <<shellVars, spoilt, events, bridgeVars, socket, demand,
                   hubVars, now>>

\* The connection breaks unnoticed; with a reboot the profile is lost.
StationFault ==
    /\ socket = "up" /\ Event
    /\ socket' = "dead" /\ profile' \in {profile, Rated}
    /\ UNCHANGED <<shellVars, late, spoilt, bridgeVars, demand, hubVars, now>>

HubPublishes ==
    /\ ~unread /\ unread' = TRUE
    /\ seq <= MaxSeq /\ seq' = seq + 1
    /\ \E body \in Bodies : retained' = Document(body, seq, now)
    /\ UNCHANGED <<shellVars, callVars, bridgeVars, socket, demand, now>>

HubRestarts ==
    /\ Event /\ seq' = 0
    /\ UNCHANGED <<shellVars, profile, late, spoilt, bridgeVars, socket, demand,
                   retained, unread, now>>

\* lexa-ocpp starts over: the sockets are gone, the retained document is
\* delivered again, whatever its age.
RestartEvse ==
    /\ r' = New /\ desiredMaxA' = NoAmps /\ setpoint' = FALSE
    /\ standing' = NoDoc /\ spoilt' = FALSE /\ late' = <<>>
    /\ connected' = FALSE /\ currentA' = 0 /\ sample' = NoSample
    /\ greeting' = FALSE /\ reconnectPending' = FALSE
    /\ socket' = "down" /\ unread' = TRUE
    /\ UNCHANGED <<profile, demand, seq, retained, now>>

Advance ==
    /\ now < MaxTime /\ now' = now + 1
    /\ UNCHANGED <<shellVars, callVars, bridgeVars, socket, demand, hubVars>>

\* lexa-ocpp starts with a document retained for it.
InitEvse ==
    /\ r = New /\ desiredMaxA = NoAmps /\ setpoint = FALSE
    /\ standing = NoDoc /\ spoilt = FALSE /\ late = <<>> /\ events = 0
    /\ connected = FALSE /\ currentA = 0 /\ sample = NoSample
    /\ greeting = FALSE /\ reconnectPending = FALSE
    /\ socket = "down" /\ demand = 0 /\ profile \in Amps \cup {Rated}
    /\ seq = 1 /\ now = 1 /\ unread = TRUE
    /\ \E body \in Bodies : retained = Document(body, 0, 0)

NextEvse ==
    \/ Deliver \/ ObserveEvse \/ TickEvse \/ StationConnects \/ MarkReconnected
    \/ StationLeaves \/ Meter \/ MeterCorrupt \/ Session \/ StationTakes
    \/ StationFault \/ HubPublishes \/ HubRestarts \/ Advance
    \/ Event /\ RestartEvse

\* Handlers get on, the broker delivers, a station connects again and meters,
\* and time passes.
FairEvse ==
    /\ WF_evseVars(Deliver) /\ WF_evseVars(ObserveEvse)
    /\ WF_evseVars(StationConnects) /\ WF_evseVars(MarkReconnected)
    /\ WF_evseVars(StationLeaves) /\ WF_evseVars(Meter)
    /\ WF_evseVars(StationTakes) /\ WF_evseVars(Advance)

SpecEvse == InitEvse /\ [][NextEvse]_evseVars /\ FairEvse
-----------------------------------------------------------------------------
Wanted ==
    IF ~standing.body.connect \/ standing.body.setpoint THEN 0
    ELSE standing.body.amps

\* A station that is reached holds the profile of the document the shell
\* adopted last, a cease before any current, unless the last write failed or a
\* call given up is still on its way: reboots, restarts and disconnects in
\* which every write is a success without effect are made good by the reassert.
ProfileInForce ==
    (standing # NoDoc /\ socket = "up" /\ connected /\ ~greeting
       /\ ~reconnectPending /\ ~spoilt /\ late = <<>>)
        => profile = Wanted

\* Once faults, documents and sessions are over, the vehicle draws no more than
\* the standing limit, whatever was refused, given up, taken late or lost:
\* "the reconcile core retries per its backoff".
LimitObeyed == <>[](standing # NoDoc => Drawn <= Wanted)
=============================================================================
