------------------------------ MODULE MCCloud ------------------------------
(***************************************************************************)
(* The three parts of the way to the cloud for TLC, each checked by itself *)
(* while the other two rest: part tells which one a behaviour is about.    *)
(*                                                                         *)
(* Uplink: two streams share the lower class.  Downlink: one kind sent in  *)
(* a flood; every kind, well formed and not; the app and the cloud at      *)
(* once.                                                                   *)
(***************************************************************************)
EXTENDS Uplink, Downlink, Journal

VARIABLE part

cloudPartVars == <<part, vars, downlinkVars, journalVars>>

MCClasses == 0..1
MCClassOf == [events |-> 0, plan |-> 1, health |-> 1]
MCStream == DOMAIN MCClassOf

MCScene(kinds, flaws, commands, requests, n) ==
    [kinds |-> kinds, flaws |-> flaws, commands |-> commands,
     requests |-> requests, faults |-> n]
MCResting == MCScene({}, {}, 0, {}, 0)
MCScenes ==
    {MCScene({"mode"}, {}, 3, {}, 1),
     MCScene({"mode", "chargenow", "diag"}, Flaws, 2, {}, 1),
     MCScene({"mode"}, {}, 1, Requests, 1),
     MCResting}

InitCloud ==
    /\ part \in {"uplink", "downlink", "journal"}
    /\ Init /\ InitDownlink /\ InitJournal
    /\ (scene = MCResting) = (part # "downlink")

NextCloud ==
    \/ part = "uplink" /\ Next /\ UNCHANGED <<part, downlinkVars, journalVars>>
    \/ part = "downlink" /\ NextDownlink /\ UNCHANGED <<part, vars, journalVars>>
    \/ part = "journal" /\ NextJournal /\ UNCHANGED <<part, vars, downlinkVars>>

\* A part that rests is owed nothing.
FairCloud ==
    /\ WF_<<pc, up>>(CASE part = "uplink" -> BatcherMoves /\ UNCHANGED up
                       [] part = "downlink" -> SessionComes /\ UNCHANGED pc
                       [] OTHER -> FALSE)
    /\ WF_was(part = "downlink" /\ PollSucceeds)

\* The spool drains, and in the end the hub listens to the cloud again, unless
\* its subscription was lost without a word.
CloudSettles ==
    /\ Drains
    /\ <>[](part = "downlink" => listening \/ deaf)

SpecCloud == InitCloud /\ [][NextCloud]_cloudPartVars /\ FairCloud
=============================================================================
