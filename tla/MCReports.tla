------------------------------ MODULE MCReports ------------------------------
(***************************************************************************)
(* What the utility is told and the sessions it is told over, for TLC: the *)
(* site report, the alarm edges, the rotation of the sessions' CA and the  *)
(* watch over the certificates, each by itself while the others rest: part *)
(* tells which one a behaviour is about.                                   *)
(***************************************************************************)
EXTENDS SiteReport, AlarmEvents, Rotation

VARIABLE part

reportVars == <<part, siteVars, alarmVars, rotationVars, certVars>>

MCOrder == <<"discovery", "response">>

\* A part that rests stays in one of its first states.
InitReports ==
    /\ part \in {"site", "alarms", "rotation", "cert"}
    /\ InitSite /\ (part # "site" => server.offers = Resources)
    /\ InitAlarms /\ (part # "alarms" => ~bit)
    /\ InitRotation
    /\ InitCert /\ (part # "cert" => expires = [c \in Files |-> Horizon])

NextReports ==
    \/ part = "site" /\ NextSite /\ UNCHANGED <<part, alarmVars, rotationVars, certVars>>
    \/ part = "alarms" /\ NextAlarms /\ UNCHANGED <<part, siteVars, rotationVars, certVars>>
    \/ part = "rotation" /\ NextRotation /\ UNCHANGED <<part, siteVars, alarmVars, certVars>>
    \/ part = "cert" /\ NextCert /\ UNCHANGED <<part, siteVars, alarmVars, rotationVars>>

\* A part that rests is owed nothing.
FairReports ==
    /\ WF_siteVars(part = "site" /\ OnMeasurement)
    /\ WF_siteVars(part = "site" /\ GoesStale)
    /\ WF_siteVars(part = "site" /\ Minute)
    /\ WF_siteVars(part = "site" /\ PublishIfDue)
    /\ WF_siteVars(part = "site" /\ Harvest)
    /\ WF_siteVars(part = "site" /\ OnWalk)
    /\ WF_siteVars(part = "site" /\ frozen /\ PinVerdict)
    /\ \A g \in Threads : WF_siteVars(part = "site" /\ Batch(g))
    /\ WF_alarmVars(part = "alarms" /\ OnSample)
    /\ WF_alarmVars(part = "alarms" /\ PathFound)
    /\ WF_alarmVars(part = "alarms" /\ HandleLogEvent)
    /\ WF_rotationVars(part = "rotation" /\ (ReadSentinel \/ Probe \/ Consume))
    /\ SF_rotationVars(part = "rotation" /\ Swap)
    /\ \A f \in Fetchers : WF_rotationVars(part = "rotation" /\ Answered(f))

SpecReports == InitReports /\ [][NextReports]_reportVars /\ FairReports

\* In the end the utility is told what the devices do, of each alarm and each
\* breach what is true, and no sentinel goes without an answer.
UtilityIsToldTheTruth ==
    <>[](/\ part = "site" => StatusIsTrue
         /\ part = "alarms" => \A src \in Sources : InStep(src)
         /\ part = "rotation" => sentinel = NoSentinel)
=============================================================================
