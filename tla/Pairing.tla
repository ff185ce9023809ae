------------------------------ MODULE Pairing -------------------------------
(***************************************************************************)
(* Charging stations nobody has configured, at the gated lexa-ocpp         *)
(* (cmd/ocpp): the pairing gate with its persisted decisions (pairing.go), *)
(* the pending surface an installer decides from (pending.go), and the     *)
(* bridge's handlers of both OCPP versions, which ask the gate before they *)
(* take a station into plant state (main.go, bridge16.go).                 *)
(*                                                                         *)
(* Handlers run concurrently, the gate, the surface and the bridge have a  *)
(* mutex each, and a document is built under one and published outside it. *)
(***************************************************************************)
EXTENDS Naturals

CONSTANTS
    Stations,   \* stations that are in no configuration
    Lively,     \* those that are decided on and may lose their socket
    MaxTrouble  \* bound on decisions, disconnects and restarts

VARIABLES
    plugged,    \* stations with a socket
    decision,   \* the gate in memory: Stations -> "none", "approve", "deny"
    saved,      \* the allowlist file
    plant,      \* stationStates: Stations -> "absent", "offline", "online"
    entries,    \* pending.entries
    decided,    \* pending.configured: never tracked
    limited,    \* was a document published within the last second?
    flying,     \* documents built and not yet handed to the broker
    surface,    \* the retained pending document
    inside,     \* handlers past the gate: [kind, station]
    resolving,  \* decisions taken whose resolve has not run
    booted,     \* accepted at a boot on the socket they still have
    approvedAt, \* ghost: stations approved at some time
    trouble

pairingVars == <<plugged, decision, saved, plant, entries, decided, limited,
                 flying, surface, inside, resolving, booted, approvedAt, trouble>>
gateVars == <<decision, saved, resolving, approvedAt>>
surfaceVars == <<entries, decided, limited, flying>>

Trouble == trouble < MaxTrouble /\ trouble' = trouble + 1
-----------------------------------------------------------------------------
(* The pending surface.                                                    *)

Tracked(tracked, s) == IF s \in decided THEN tracked ELSE tracked \cup {s}

\* upsert and publishRateLimited: the document is dropped, not delayed, within
\* a second of the last.
Upsert(s) ==
    /\ entries' = Tracked(entries, s) /\ UNCHANGED decided
    /\ IF limited \/ s \in decided
       THEN UNCHANGED <<limited, flying>>
       ELSE limited' = TRUE /\ flying' = flying \cup {entries'}

\* resolve: the decision is on the surface at once.
Resolve(s) ==
    /\ s \in resolving /\ resolving' = resolving \ {s}
    /\ decided' = decided \cup {s} /\ entries' = entries \ {s}
    /\ limited' = TRUE /\ flying' = flying \cup {entries \ {s}}
    /\ UNCHANGED <<plugged, decision, saved, plant, surface, inside, booted,
                   approvedAt, trouble>>

\* doPublish, outside the mutex.
DoPublish(doc) ==
    /\ doc \in flying /\ flying' = flying \ {doc} /\ surface' = doc
    /\ UNCHANGED <<plugged, decision, saved, plant, entries, decided, limited,
                   inside, resolving, booted, approvedAt, trouble>>

SecondPasses ==
    /\ limited /\ limited' = FALSE
    /\ UNCHANGED <<plugged, decision, saved, plant, entries, decided, flying,
                   surface, inside, resolving, booted, approvedAt, trouble>>
-----------------------------------------------------------------------------
(* The handlers.                                                           *)

\* Mutant: the gate holds only what was denied.
MutAllowed(s) == decision[s] # "deny"

Allowed(s) == decision[s] = "approve"

Enter(kind, s) == inside' = inside \cup {[kind |-> kind, station |-> s]}

\* onConnect, OnStatusNotification, OnMeterValues and OnTransactionEvent ask the
\* gate: a stranger's are surfaced (its meter's dropped), a friend's go on.
Arrives(kind, s) ==
    /\ \A h \in inside : h.station # s
    /\ IF kind = "connect"
       THEN s \notin plugged /\ plugged' = plugged \cup {s}
       ELSE s \in plugged /\ UNCHANGED plugged
    /\ \/ /\ Allowed(s) /\ Enter(kind, s) /\ UNCHANGED surfaceVars
       \/ /\ ~Allowed(s) /\ kind # "meter" /\ Upsert(s) /\ UNCHANGED inside
    /\ UNCHANGED <<gateVars, plant, surface, booted, trouble>>

\* OnBootNotification: surfaced whatever the gate says of it.  A boot that is
\* not accepted is repeated every 60 s.
Boots(s) ==
    /\ s \in plugged /\ s \notin booted /\ \A h \in inside : h.station # s
    /\ Upsert(s)
    /\ IF Allowed(s) THEN Enter("boot", s) ELSE UNCHANGED inside
    /\ UNCHANGED <<plugged, gateVars, plant, surface, booted, trouble>>

\* The fold into plant state.  A boot takes a station for connected only if it
\* creates its state; onConnect always does, the other handlers never.
Folded(kind, s) ==
    CASE kind = "connect"                      -> "online"
      [] kind = "boot" /\ plant[s] = "absent"  -> "online"
      [] kind \in {"status", "meter"} /\ plant[s] = "absent" -> "offline"
      [] OTHER                                 -> plant[s]

FoldIn(kind, s) ==
    /\ [kind |-> kind, station |-> s] \in inside
    /\ inside' = inside \ {[kind |-> kind, station |-> s]}
    /\ plant' = [plant EXCEPT ![s] = Folded(kind, s)]
    /\ booted' = IF kind = "boot" /\ s \in plugged THEN booted \cup {s}
                 ELSE booted
    /\ IF kind \in {"connect", "status"} /\ plant[s] = "absent" THEN Upsert(s)
       ELSE UNCHANGED surfaceVars
    /\ UNCHANGED <<plugged, gateVars, surface, trouble>>

\* onDisconnect asks nobody.
Leaves(s) ==
    /\ s \in Lively /\ Trouble
    /\ s \in plugged /\ plugged' = plugged \ {s} /\ booted' = booted \ {s}
    /\ plant' = [plant EXCEPT ![s] = IF @ = "absent" THEN @ ELSE "offline"]
    /\ UNCHANGED <<gateVars, surfaceVars, surface, inside>>
-----------------------------------------------------------------------------
(* Decisions and restarts.                                                 *)

\* applyDecision: in force in memory even if it cannot be saved.
Decides(s, d) ==
    /\ s \in Lively /\ Trouble /\ resolving = {}
    /\ decision' = [decision EXCEPT ![s] = d]
    /\ saved' \in {decision', saved}
    /\ resolving' = {s}
    /\ approvedAt' = IF d = "approve" THEN approvedAt \cup {s} ELSE approvedAt
    /\ UNCHANGED <<plugged, plant, surfaceVars, surface, inside, booted>>

\* lexa-ocpp starts over: the decisions from the file, an empty document.
RestartPairing ==
    /\ plugged' = {} /\ booted' = {} /\ inside' = {} /\ resolving' = {}
    /\ decision' = saved /\ decided' = {s \in Stations : saved[s] # "none"}
    /\ plant' = [s \in Stations |-> "absent"]
    /\ entries' = {} /\ limited' = TRUE /\ flying' = {{}}
    /\ UNCHANGED <<saved, surface, approvedAt>>

InitPairing ==
    /\ plugged = {} /\ booted = {} /\ inside = {} /\ resolving = {}
    /\ decision = [s \in Stations |-> "none"] /\ saved = decision
    /\ decided = {} /\ plant = [s \in Stations |-> "absent"]
    /\ entries = {} /\ limited = TRUE /\ flying = {{}}
    /\ surface \in {{}, Stations} /\ approvedAt = {} /\ trouble = 0

Handlers == {"connect", "status", "meter"}

NextPairing ==
    \/ \E s \in Stations :
        \/ Resolve(s) \/ Boots(s) \/ Leaves(s)
        \/ \E kind \in Handlers : Arrives(kind, s)
        \/ \E kind \in Handlers \cup {"boot"} : FoldIn(kind, s)
        \/ \E d \in {"approve", "deny"} : Decides(s, d)
    \/ \E doc \in SUBSET Stations : DoPublish(doc)
    \/ SecondPasses
    \/ Trouble /\ RestartPairing

\* A station connects and boots until it is accepted, seconds pass, and what
\* was begun is ended.
FairPairing ==
    /\ \A s \in Stations :
        /\ WF_pairingVars(Arrives("connect", s)) /\ WF_pairingVars(Resolve(s))
        /\ SF_pairingVars(Boots(s) /\ ~limited)
        /\ \A kind \in Handlers \cup {"boot"} : WF_pairingVars(FoldIn(kind, s))
    /\ \A doc \in SUBSET Stations : WF_pairingVars(DoPublish(doc))
    /\ WF_pairingVars(SecondPasses)

SpecPairing == InitPairing /\ [][NextPairing]_pairingVars /\ FairPairing
-----------------------------------------------------------------------------
\* "A station the gate holds is never promoted to plant state": through both
\* mutexes, failed saves and restarts, no station is there that no one ever
\* approved.
StrangersStayOut == \A s \in Stations :
                       plant[s] # "absent" => s \in approvedAt

\* A station that waits for a decision is in the end always on the surface the
\* installer reads, although documents are dropped by the rate limit and may
\* overtake each other.
WaitingIsSurfaced ==
    \A s \in Stations :
        <>[](s \in plugged /\ decision[s] = "none") => <>[](s \in surface)
=============================================================================
