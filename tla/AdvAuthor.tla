----------------------------- MODULE AdvAuthor ------------------------------
(***************************************************************************)
(* The author of advanced-function documents in the hub (cmd/hub/adv.go):  *)
(* arbitration of the reactive modes of one control, correlation of the    *)
(* control with its curves, the capability mapping of one device, and the  *)
(* deduplicated, heartbeaten, optimistic publication of the result.        *)
(*                                                                         *)
(* A curve, a percentage, a power factor is a small number and Nil its      *)
(* absence.  The droop, the overlays, the ramps and the reversion window   *)
(* take the same path as the modes kept here and are left out; so is the   *)
(* alarm on an ignored mode, a counter.                                     *)
(***************************************************************************)
EXTENDS Integers, Sequences

CONSTANTS
    Controls,           \* what the utility may have in force
    Nil,                \* an absent value
    Heartbeat,          \* desiredHeartbeatInterval
    MaxSeqAdv           \* bound on the hub's documents

\* A set is named by the hash of its entries, and no name is NoControl's.
ASSUME ControlsAssumption ==
    /\ \A c \in Controls : "none" \notin {c.control.set, c.curves.set}
    /\ \A c, d \in Controls :
          c.control.set # "" /\ d.curves.set = c.control.set => d.curves.entries = c.curves.entries

VARIABLES
    minute,             \* the clock
    utility,            \* the control in force at the utility
    onBus,              \* the retained control and the retained curves
    lastHash,           \* the curve set lexa-northbound knows to be published
    seen,               \* the author's control and curves, or NoControl
    author,             \* advDocState: published, key, issuedAt, seq, pending
    wire,               \* documents handed to the client, oldest first
    retainedAdv         \* the broker's document, or NoDocument

authorVars == <<seen, author, wire, retainedAdv>>
walkVars == <<utility, onBus, lastHash>>

NoControl == [set |-> "none"]
NoDocument == [seq |-> -1]

NoEntries == [m \in {} |-> 0]
NoMode == [kind |-> "none", value |-> 0]
AllNull == [reactive |-> NoMode, trip |-> Nil, energize |-> Nil]

\* newAdvAuthor's state of one device.
FreshDoc == [published |-> FALSE, key |-> AllNull, issuedAt |-> 0, seq |-> 0]
NoPending == "none"
NewAuthor == [doc |-> FreshDoc, prev |-> FreshDoc, pending |-> NoPending]
-----------------------------------------------------------------------------
(* D7 arbitration and the capability mapping: pure.                        *)

ReactiveRank == [volt_var |-> 3, watt_var |-> 2, fixed_var |-> 1, fixed_pf |-> 0]

\* curvePlausible: a curve of no or too many points is dropped, not commanded.
Implausible == 0
Curve(entries, mode) ==
    IF mode \in DOMAIN entries /\ entries[mode] # Implausible THEN entries[mode]
    ELSE Nil

\* One fixed-PF slot: the inject half wins.
FixedPF(c) == IF c.pfInject # Nil THEN c.pfInject ELSE c.pfAbsorb

\* Every candidate of one control has that control's source, so the rank decides.
Candidates(c, entries) ==
    LET payload == [volt_var  |-> Curve(entries, "volt_var"),
                    watt_var  |-> Curve(entries, "watt_var"),
                    fixed_var |-> c.fixedVar,
                    fixed_pf  |-> FixedPF(c)]
    IN  {[kind |-> k, value |-> payload[k]] :
            k \in {m \in DOMAIN payload : payload[m] # Nil}}

Reactive(cands) ==
    IF cands = {} THEN NoMode
    ELSE CHOOSE w \in cands :
             \A d \in cands : ReactiveRank[w.kind] >= ReactiveRank[d.kind]

\* buildSiteAxes: no control in force releases everything.
SiteAxes(c, entries) ==
    IF c.source = "none" THEN AllNull
    ELSE [reactive |-> Reactive(Candidates(c, entries)),
          trip     |-> Curve(entries, "trip_lv"),
          energize |-> c.energize]

\* advCapabilityAxes: the legacy generation has no enter-service point, and an
\* unknown one nothing at all.
Capable(gen) == CASE gen = "7xx" -> {"reactive", "trip", "energize"}
                  [] gen = "12x" -> {"reactive", "trip"}
                  [] OTHER       -> {}

\* buildDeviceDoc: what the device cannot do stays null.
DeviceDoc(gen, site) ==
    [x \in DOMAIN site |-> IF x \in Capable(gen) THEN site[x] ELSE AllNull[x]]
-----------------------------------------------------------------------------
(* Correlation and publication.                                            *)

\* Mutant: whatever curves are at hand belong to the control.
MutInSync(s) == TRUE

\* matchedCurvesLocked: a control is one walk ahead of its curves, or behind.
InSync(s) == s.control.set = "" \/ s.curves.set = s.control.set

\* A control without a curve set has no curves, whatever the bus carries.
Entries(s) ==
    IF s.control.set = "" \/ s.curves = NoControl THEN NoEntries ELSE s.curves.entries

\* harvestLocked: a publish known to have failed restores the baseline it had
\* replaced, so that the same content is published again.
Harvested(a) ==
    CASE a.pending = "acked"  -> [a EXCEPT !.pending = NoPending]
      [] a.pending = "failed" -> [a EXCEPT !.pending = NoPending, !.doc = a.prev]
      [] OTHER                -> a

PublishDue(doc, key) ==
    ~doc.published \/ doc.key # key \/ minute - doc.issuedAt >= Heartbeat

\* publishDeviceLocked: the baseline moves before the outcome is known.
Published(a, key) ==
    [doc |-> [published |-> TRUE, key |-> key, issuedAt |-> minute,
              seq |-> a.doc.seq + 1],
     prev |-> a.doc, pending |-> "open"]

\* evaluateLocked: harvest, correlate, arbitrate, map, publish.
Evaluated(s, gen) ==
    LET a == Harvested(author)
        key == DeviceDoc(gen, SiteAxes(s.control, Entries(s)))
    IN  IF s.control # NoControl /\ InSync(s) /\ PublishDue(a.doc, key)
        THEN /\ a.doc.seq < MaxSeqAdv
             /\ author' = Published(a, key)
             /\ wire' = Append(wire, [body |-> key, seq |-> a.doc.seq,
                                      issuedAt |-> minute])
        ELSE /\ author' = a
             /\ UNCHANGED wire

\* OnControl and OnCurves: the two retained topics reach the hub one by one.
OnControl(gen) ==
    /\ seen.control # onBus.control
    /\ seen' = [seen EXCEPT !.control = onBus.control]
    /\ Evaluated(seen', gen)
    /\ UNCHANGED <<walkVars, retainedAdv>>

OnCurves(gen) ==
    /\ seen.curves # onBus.curves
    /\ seen' = [seen EXCEPT !.curves = onBus.curves]
    /\ Evaluated(seen', gen)
    /\ UNCHANGED <<walkVars, retainedAdv>>

\* The author's own ticker.
Evaluate(gen) ==
    /\ \/ author.pending \in {"acked", "failed"}
       \/ PublishDue(author.doc, author.doc.key)
    /\ seen.control # NoControl
    /\ Evaluated(seen, gen)
    /\ UNCHANGED <<seen, walkVars, retainedAdv>>

\* The broker takes a document; the one the author waits for is the last.
Reaches ==
    /\ wire # <<>>
    /\ retainedAdv' = Head(wire)
    /\ wire' = Tail(wire)
    /\ author' = IF Len(wire) = 1 /\ author.pending = "open"
                 THEN [author EXCEPT !.pending = "acked"] ELSE author
    /\ UNCHANGED <<seen, walkVars>>

\* The link refuses a document: it is not delivered and the author learns so.
Refused ==
    /\ Len(wire) = 1 /\ author.pending = "open"
    /\ wire' = <<>>
    /\ author' = [author EXCEPT !.pending = "failed"]
    /\ UNCHANGED <<seen, walkVars, retainedAdv>>

\* No acknowledgement within the budget; the client delivers all the same.
GivenUp ==
    /\ Len(wire) = 1 /\ author.pending = "open"
    /\ author' = [author EXCEPT !.pending = "failed"]
    /\ UNCHANGED <<seen, walkVars, wire, retainedAdv>>

\* The hub starts again: the retained topics are delivered anew.
HubRestarts ==
    /\ seen' = [control |-> NoControl, curves |-> NoControl]
    /\ author' = NewAuthor
    /\ wire' = <<>>
    /\ UNCHANGED <<walkVars, retainedAdv>>

\* Curves.Publish records a set once its publication is confirmed.
Recorded(out) == IF out = "sent" THEN utility.curves.set ELSE lastHash

\* RunOnce publishes the control, then its curves if they are not the set last
\* recorded; either may be lost, and a late one is delivered but not recorded.
WalkPublishes(controlSent, out) ==
    /\ onBus' = [control |-> IF controlSent THEN utility.control
                             ELSE onBus.control,
                 curves |-> IF lastHash = utility.curves.set \/ out = "lost"
                            THEN onBus.curves ELSE utility.curves]
    /\ lastHash' = IF lastHash = utility.curves.set THEN lastHash
                   ELSE Recorded(out)
    /\ UNCHANGED <<utility, authorVars>>

\* The utility puts another control in force.
Commands(c) ==
    /\ c # utility
    /\ utility' = c
    /\ UNCHANGED <<onBus, lastHash, authorVars>>

InitAuthor ==
    /\ utility \in Controls
    /\ onBus = [control |-> NoControl, curves |-> NoControl]
    /\ lastHash = "unknown"
    /\ seen = [control |-> NoControl, curves |-> NoControl]
    /\ author = NewAuthor
    /\ wire = <<>>
    /\ retainedAdv = NoDocument
=============================================================================
