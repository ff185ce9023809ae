------------------------------- MODULE MCOcpp -------------------------------
(***************************************************************************)
(* lexa-ocpp for TLC: the shell over one configured charging station, and  *)
(* the pairing of two that are not, each by itself while the other rests:  *)
(* part tells which one a behaviour is about.                              *)
(***************************************************************************)
EXTENDS EvseShell, Pairing

VARIABLE part

ocppVars == <<part, evseVars, pairingVars>>

MCField == {"MaxCurrentA"}
MCTolerance == [f \in MCField |-> 0]
MCBackoff == <<1>>

InitOcpp ==
    /\ part \in {"evse", "pairing"}
    /\ InitEvse
    /\ part # "evse" => profile = Rated /\ retained = Document(CHOOSE b \in Bodies : TRUE, 0, 0)
    /\ InitPairing
    /\ part # "pairing" => surface = {}

NextOcpp ==
    \/ part = "evse" /\ NextEvse /\ UNCHANGED <<part, pairingVars>>
    \/ part = "pairing" /\ NextPairing /\ UNCHANGED <<part, evseVars>>

\* A part that rests is owed nothing.
FairOcpp ==
    /\ WF_evseVars(part = "evse" /\ Deliver)
    /\ WF_evseVars(part = "evse" /\ ObserveEvse)
    /\ WF_evseVars(part = "evse" /\ StationConnects)
    /\ WF_evseVars(part = "evse" /\ MarkReconnected)
    /\ WF_evseVars(part = "evse" /\ StationLeaves)
    /\ WF_evseVars(part = "evse" /\ Meter)
    /\ WF_evseVars(part = "evse" /\ StationTakes)
    /\ WF_evseVars(part = "evse" /\ Advance)
    /\ \A s \in Stations :
        /\ WF_pairingVars(part = "pairing" /\ Arrives("connect", s))
        /\ WF_pairingVars(part = "pairing" /\ Resolve(s))
        /\ SF_pairingVars(part = "pairing" /\ Boots(s) /\ ~limited)
        /\ \A kind \in Handlers \cup {"boot"} :
              WF_pairingVars(part = "pairing" /\ FoldIn(kind, s))
    /\ \A doc \in SUBSET Stations : WF_pairingVars(part = "pairing" /\ DoPublish(doc))
    /\ WF_pairingVars(part = "pairing" /\ SecondPasses)

\* A station ends at the limit the hub stated, and one that waits for the
\* installer is shown to him.
OcppSettles == LimitObeyed /\ WaitingIsSurfaced

SpecOcpp == InitOcpp /\ [][NextOcpp]_ocppVars /\ FairOcpp
=============================================================================
