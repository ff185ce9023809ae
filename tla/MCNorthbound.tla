---------------------------- MODULE MCNorthbound ----------------------------
(***************************************************************************)
(* lexa-northbound for TLC: the responses to a utility's events, and the   *)
(* life of a control between its server and the hub, each by itself while  *)
(* the other rests: part tells which one a behaviour is about.             *)
(*                                                                         *)
(* Two events, the later created one superseding the earlier one.          *)
(***************************************************************************)
EXTENDS Responses, Lease

VARIABLE part

CreatedAt == <<1, 2>>

\* Responses: the first event has a randomised end.
WindowsOf == <<{[start |-> 1, dur |-> d] : d \in {1, 2}}, {[start |-> 2, dur |-> 1]}>>

\* Lease: the later event lies within the first, on pages of one entry.
WinOf == <<[start |-> 1, dur |-> 8], [start |-> 1, dur |-> 1]>>
TroubleSets == {{}, {"resubscribe"}, {"outage", "restart"}, {"broker"}, {"glitch"}, {"pin"},
                {"outage", "publish"}}
-----------------------------------------------------------------------------
InitNorthbound ==
    /\ part \in {"responses", "lease"}
    /\ Init
    /\ (part = "lease") = (tree.default = NoMRID)
    /\ InitLease
    /\ (trouble = {}) = (part = "responses")
    /\ part = "responses" => default = NoMRID
    /\ (default = NoMRID) = (rate = 0)

NextNorthbound ==
    \/ part = "responses" /\ Next /\ UNCHANGED <<part, leaseVars>>
    \/ part = "lease" /\ NextLease /\ UNCHANGED <<part, vars>>

\* A part that rests is owed nothing.
FairNorthbound ==
    /\ WF_beat(part = "responses" /\ beat' = ~beat)
    /\ WF_vars(part = "responses" /\ Tick)
    /\ WF_walk(part = "lease" /\ DueNow /\ reachable /\ walk' = FirstPage)
    /\ WF_walk(part = "lease" /\ walk' = NoWalk)
    /\ WF_reachable(part = "lease" /\ ~reachable /\ reachable' = TRUE)
    /\ WF_clock(part = "lease" /\ clock < LeaseTime /\ clock' = clock + 1)

\* A control is let go, and an event reported as completed, only for a cause:
\* one anomaly of a walk, an outage or a restart is none.
OnlyForCause == OneAnomalyNeverUnseats /\ EndCodeIsHonest /\ ReleasedForCause

\* In the end every event that started is reported to have ended, and the hub
\* enforces what the server's list says.
NorthboundSettles == StartedEventsEnd /\ FollowsServer

SpecNorthbound ==
    InitNorthbound /\ [][NextNorthbound]_<<part, vars, leaseVars>> /\ FairNorthbound
=============================================================================
