---------------------------- MODULE AlarmEvents ----------------------------
(* Alarm edges for the utility: the hub's detector (cmd/hub/logevent.go)   *)
(* turns alarm bits and breach alerts into LogEvents, and northbound's     *)
(* poster (internal/northbound/logevent) POSTs each at most twice.         *)
(*                                                                         *)
(* One device with one mapped alarm bit, and the site's breach episodes    *)
(* under one control.                                                      *)
EXTENDS Integers, Sequences

CONSTANTS Floor,        \* the rate floor, in poll intervals
          MaxFlips,     \* changes of the bit and of the breach
          MaxTroubles   \* lost samples, losses, retries, restarts

ASSUME AlarmAssumption == /\ Floor \in Nat \ {0}
                          /\ MaxFlips \in Nat /\ MaxTroubles \in Nat

VARIABLES bit,          \* the device's alarm bit
          episode,      \* the breach: whether open, and its counter
          det,          \* the detector
          sent,         \* history: device edges published, and the last one
          wire,         \* edges on their way to northbound
          poster,       \* northbound: whether it has a path, what it confirmed
          utility,       \* what the utility was told last, and how often
          excused,      \* history: sources whose story has a gap
          left          \* flips and troubles left

alarmVars == <<bit, episode, det, sent, wire, poster, utility, excused, left>>

Sources == {"dev", "site"}
MaxWire == 2

NoDetector == [seeded |-> FALSE, reported |-> FALSE, since |-> Floor,
               latched |-> FALSE]

FreshPoster == [path |-> FALSE, seen |-> {}]

InitAlarms ==
    /\ bit \in BOOLEAN
    /\ episode = [open |-> FALSE, n |-> 0]
    /\ det = NoDetector
    /\ sent = [n |-> 0, last |-> FALSE] /\ wire = << >> /\ poster = FreshPoster
    /\ utility = [last |-> [s \in Sources |-> FALSE], told |-> << >>]
    /\ excused = {}
    /\ left = [flips |-> MaxFlips, troubles |-> MaxTroubles]

Trouble == /\ left.troubles > 0
           /\ left' = [left EXCEPT !.troubles = @ - 1]

Flip == /\ left.flips > 0
        /\ left' = [left EXCEPT !.flips = @ - 1]

----------------------------------------------------------------------------
(* The detector. A device edge gets a key of its own; a site edge's key is *)
(* the episode's id and the edge.                                          *)

Edge(src, key, alarm) == [src |-> src, key |-> key, alarm |-> alarm]

EpisodeKey(n, alarm) == <<"site", n, alarm>>

(* Published once and never again: there is no baseline to roll back.      *)
Publish(e) == Len(wire) < MaxWire /\ wire' = Append(wire, e)

BitFlips ==
    /\ Flip /\ bit' = ~bit
    /\ UNCHANGED <<episode, det, sent, wire, poster, utility, excused>>

(* A transition inside the rate floor leaves the bit as reported, so that  *)
(* a later sample finds it again.                                          *)

Suppressed(sample) == det

(* The first sample is the baseline; the clock moves with the polls.       *)
OnSample ==
    /\ LET since == IF det.since < Floor THEN det.since + 1 ELSE Floor
       IN  \/ /\ ~det.seeded
              /\ det' = [det EXCEPT !.seeded = TRUE, !.reported = bit]
              /\ excused' = IF bit # sent.last
                            THEN excused \cup {"dev"} ELSE excused
              /\ UNCHANGED <<sent, wire>>
           \/ /\ det.seeded /\ bit = det.reported
              /\ det' = [det EXCEPT !.since = since]
              /\ UNCHANGED <<sent, wire, excused>>
           \/ /\ det.seeded /\ bit # det.reported /\ since < Floor
              /\ det' = [Suppressed(bit) EXCEPT !.since = since]
              /\ UNCHANGED <<sent, wire, excused>>
           \/ /\ det.seeded /\ bit # det.reported /\ since = Floor
              /\ det' = [det EXCEPT !.reported = bit, !.since = 0]
              /\ sent' = [n |-> sent.n + 1, last |-> bit]
              /\ Publish(Edge("dev", <<"dev", sent'.n, bit>>, bit))
              /\ UNCHANGED excused
    /\ UNCHANGED <<bit, episode, poster, utility, left>>

(* A breach opens or closes an episode, or moves on to another control     *)
(* without a clear: then the alarm is already out.                         *)
OnBreachAlert ==
    /\ Flip
    /\ \/ /\ episode' = [open |-> TRUE, n |-> episode.n + 1]
          /\ det' = [det EXCEPT !.latched = TRUE]
          /\ IF det.latched THEN UNCHANGED wire
             ELSE Publish(Edge("site", EpisodeKey(episode'.n, TRUE), TRUE))
       \/ /\ episode.open
          /\ episode' = [episode EXCEPT !.open = FALSE]
          /\ det' = [det EXCEPT !.latched = FALSE]
          /\ Publish(Edge("site", EpisodeKey(episode.n, FALSE), FALSE))
    /\ UNCHANGED <<bit, sent, poster, utility, excused>>

(* The open episode and its counter come back from the snapshot; without   *)
(* an open one the counter starts over and the ids may be used again.      *)
DetectorRestarts ==
    /\ Trouble
    /\ det' = NoDetector
    /\ episode' = IF episode.open THEN episode ELSE [episode EXCEPT !.n = 0]
    /\ excused' = IF ~episode.open /\ episode.n > 0
                  THEN excused \cup {"site"} ELSE excused
    /\ UNCHANGED <<bit, sent, wire, poster, utility>>

----------------------------------------------------------------------------
(* The poster.                                                             *)

PathFound ==
    /\ poster' = [poster EXCEPT !.path = TRUE]
    /\ UNCHANGED <<bit, episode, det, sent, wire, utility, excused, left>>

AfterPosts(e, times) ==
    [utility EXCEPT !.last[e.src] = e.alarm,
                   !.told = @ \o [i \in 1 .. times |-> e.key]]

(* Only a confirmed POST is remembered.                                    *)
MutConfirmed(e) == poster

Confirmed(e) == [poster EXCEPT !.seen = @ \cup {e.key}]

Dropped(e) == excused' = excused \cup {e.src}

(* An edge is a repeat, has nowhere to go, or is POSTed: at once, again    *)
(* after a lost answer (it is there twice, and is excused), or in vain, as *)
(* it is while egress is suspended.                                        *)
HandleLogEvent ==
    /\ wire # << >>
    /\ LET e == Head(wire)
       IN  \/ /\ e.key \in poster.seen
              /\ UNCHANGED <<poster, utility, excused, left>>
           \/ /\ e.key \notin poster.seen /\ ~poster.path
              /\ Dropped(e)
              /\ UNCHANGED <<poster, utility, left>>
           \/ /\ e.key \notin poster.seen /\ poster.path
              /\ utility' = AfterPosts(e, 1) /\ poster' = Confirmed(e)
              /\ UNCHANGED <<excused, left>>
           \/ /\ e.key \notin poster.seen /\ poster.path /\ Trouble
              /\ \/ /\ utility' = AfterPosts(e, 2) /\ poster' = Confirmed(e)
                    /\ excused' = excused \cup {"twice"}
                 \/ Dropped(e) /\ UNCHANGED <<utility, poster>>
    /\ wire' = Tail(wire)
    /\ UNCHANGED <<bit, episode, det, sent>>

(* The broker hands an edge over again whose acknowledgement was lost.     *)
Redelivered ==
    /\ wire # << >> /\ Len(wire) < MaxWire /\ Trouble
    /\ wire' = <<Head(wire)>> \o wire
    /\ UNCHANGED <<bit, episode, det, sent, poster, utility, excused>>

PosterRestarts ==
    /\ Trouble
    /\ poster' = FreshPoster
    /\ excused' = excused \cup {"twice"}
    /\ UNCHANGED <<bit, episode, det, sent, wire, utility>>

NextAlarms ==
    \/ BitFlips \/ OnSample \/ OnBreachAlert \/ DetectorRestarts
    \/ PathFound \/ HandleLogEvent \/ Redelivered \/ PosterRestarts

FairAlarms == /\ WF_alarmVars(OnSample) /\ WF_alarmVars(PathFound)
              /\ WF_alarmVars(HandleLogEvent)

SpecAlarms == InitAlarms /\ [][NextAlarms]_alarmVars /\ FairAlarms

----------------------------------------------------------------------------

(* However fast the bit flaps and the episodes change, what the utility    *)
(* was told last of a source becomes what is true of it, unless an edge    *)
(* was dropped or a restart lost the baseline it would have come from      *)
(* (logevent.go observeBits, OnBreachAlert).                               *)
InStep(src) ==
    src \in excused
        \/ utility.last[src] = IF src = "dev" THEN bit ELSE episode.open

(* Without a lost answer or a restart of the poster no edge is told twice, *)
(* whatever the broker repeats (logevent.go Manager.seen).                 *)
ToldOnce ==
    "twice" \notin excused
        => \A i, j \in DOMAIN utility.told :
              utility.told[i] = utility.told[j] => i = j
=============================================================================
