----------------------------- MODULE SiteReport -----------------------------
(***************************************************************************)
(* What the utility is told about the site: the hub folds its devices'     *)
(* samples into one retained report (cmd/hub/dersite.go), and northbound   *)
(* PUTs that report's ratings and settings when they change and its status *)
(* on every walk (internal/northbound/derreport).                          *)
(*                                                                         *)
(* The site is one battery. Northbound's two goroutines, the               *)
(* subscription's and the walk's, share the report and the record of what  *)
(* was PUT last; the session's mutex makes each PUT one step.              *)
(***************************************************************************)
EXTENDS Integers, Sequences, FiniteSets

CONSTANTS MaxChanges,     \* changes of the site in a behaviour
          MaxSiteFaults     \* failed publishes, PUTs, restarts and moves

ASSUME SiteAssumption == MaxChanges \in Nat /\ MaxSiteFaults \in Nat

VARIABLES truth,        \* what the devices are doing: power, rating, up
          meas,         \* the hub's latest sample of each device
          base,         \* the hub's change-detect baseline
          pending,      \* the publish in flight, at most one
          topic,        \* the retained report
          nb,           \* northbound: report, recorded hash, hrefs, skips
          job,          \* what each of its goroutines is doing
          frozen,       \* the egress gate
          server,       \* where the resources are, and what they hold
          spoiled,      \* history: why the record may be untrue
          budget        \* changes and faults left

siteVars == <<truth, meas, base, pending, topic, nb, job,
              frozen, server, spoiled, budget>>

Threads == {"sub", "walk"}
Resources == {"cap", "set"}
Nowhere == 0

(* Units of a minute: a changed report may follow after one, an unchanged  *)
(* one after Heartbeat.                                                    *)
MinRepublish == 1
Heartbeat == 2

NoReport == [cap |-> 0, status |-> {}, avail |-> {}]

NoStorage == -1000

----------------------------------------------------------------------------
(* The report. The rating is the configured one until the battery has said *)
(* its own; a sample counts for the status while it is fresh.              *)

Configured == 1

StatusOf(sample) == [connected |-> sample.fresh, operating |-> sample.fresh,
                     storage |-> IF sample.fresh THEN sample.w ELSE NoStorage]

(* Nothing is said of the availability while no sample is fresh.           *)
AvailableOf(sample) == IF sample.fresh THEN {sample.rated} ELSE {}

Report == [cap |-> meas.rated,
           status |-> {StatusOf(meas)}, avail |-> AvailableOf(meas)]

Unseen == [w |-> 1, rated |-> Configured, fresh |-> FALSE]

NoBase == [hash |-> NoReport, since |-> Heartbeat, ever |-> FALSE]

Idle == [at |-> "idle", cap |-> 0, ok |-> TRUE]

FreshNb == [report |-> NoReport, hash |-> 0,
            href |-> Nowhere, skip |-> {}]

InitSite ==
    /\ truth = [w |-> 1, rated |-> Configured, up |-> TRUE]
    /\ meas = Unseen
    /\ base = NoBase /\ pending = {} /\ topic = NoReport
    /\ nb = FreshNb /\ job = [g \in Threads |-> Idle]
    /\ frozen = FALSE
    /\ \E o \in {Resources, {"set"}} :
        server = [home |-> 1, offers |-> o, holds |-> [r \in Resources |-> 0],
                  status |-> {}, avail |-> {}]
    /\ spoiled = {}
    /\ budget = [changes |-> MaxChanges, faults |-> MaxSiteFaults]

GoesWrong == /\ budget.faults > 0
         /\ budget' = [budget EXCEPT !.faults = @ - 1]

Change == /\ budget.changes > 0
          /\ budget' = [budget EXCEPT !.changes = @ - 1]

----------------------------------------------------------------------------
(* The hub.                                                                *)

SiteChanges ==
    /\ Change
    /\ \/ truth' = [truth EXCEPT !.w = -@]
       \/ truth' = [truth EXCEPT !.rated = 3 - @]
       \/ truth' = [truth EXCEPT !.up = ~@]
    /\ UNCHANGED <<meas, base, pending, topic, nb, job, frozen, server,
                   spoiled>>

OnMeasurement ==
    /\ truth.up
    /\ meas' = [w |-> truth.w, rated |-> truth.rated, fresh |-> TRUE]
    /\ UNCHANGED <<truth, base, pending, topic, nb, job, frozen, server,
                   budget, spoiled>>

(* A device that is silent ages out; its rating does not.                  *)
GoesStale ==
    /\ ~truth.up /\ meas.fresh
    /\ meas' = [meas EXCEPT !.fresh = FALSE]
    /\ UNCHANGED <<truth, base, pending, topic, nb, job, frozen, server,
                   budget, spoiled>>

Minute ==
    /\ base.ever /\ base.since < Heartbeat
    /\ base' = [base EXCEPT !.since = @ + 1]
    /\ UNCHANGED <<truth, meas, pending, topic, nb, job, frozen,
                   server, budget, spoiled>>

Due == \/ ~base.ever
       \/ Report # base.hash /\ base.since >= MinRepublish
       \/ base.since >= Heartbeat

PublishIfDue ==
    /\ pending = {} /\ Due
    /\ pending' = {[rep |-> Report, prev |-> base]}
    /\ base' = [hash |-> Report, since |-> 0, ever |-> TRUE]
    /\ UNCHANGED <<truth, meas, topic, nb, job, frozen, server,
                   budget, spoiled>>

(* The baseline stays on the report that failed.                           *)

RolledBack(prev) == prev

(* A report whose ratings are the ones on record is not kept.              *)
MutKept(rep) == IF rep.cap = nb.hash THEN nb.report ELSE rep

Kept(rep) == rep

(* The report is retained, and the subscription's goroutine takes it.      *)
HandleDERSite(rep) ==
    /\ job["sub"].at = "idle"
    /\ topic' = rep
    /\ nb' = [nb EXCEPT !.report = Kept(rep)]
    /\ job' = IF rep.cap # nb.hash THEN [job EXCEPT !["sub"].at = "batch"]
              ELSE job

(* The broker's answer, or none in time: then the baseline goes back and   *)
(* the report may or may not have got through.                             *)
Harvest ==
    \E m \in pending :
        /\ pending' = {}
        /\ \/ /\ HandleDERSite(m.rep)
              /\ UNCHANGED <<base, budget>>
           \/ /\ GoesWrong
              /\ base' = RolledBack(m.prev)
              /\ HandleDERSite(m.rep) \/ UNCHANGED <<topic, nb, job>>
        /\ UNCHANGED <<truth, meas, frozen, server, spoiled>>

HubRestarts ==
    /\ GoesWrong
    /\ meas' = Unseen
    /\ base' = NoBase /\ pending' = {}
    /\ UNCHANGED <<truth, topic, nb, job, frozen, server, spoiled>>

----------------------------------------------------------------------------
(* Northbound.                                                             *)

(* A PUT reaches the server when it is sent where the resource is.         *)
Put(r, value) ==
    [server EXCEPT !.holds[r] = IF nb.href = server.home /\ r \in server.offers
                                THEN value ELSE @]

(* An availability nobody can derive is not sent, and the server keeps the *)
(* last one.                                                               *)
Told(rep) ==
    [server EXCEPT !.status = rep.status,
                   !.avail = IF rep.avail = {} THEN @ ELSE rep.avail]

(* The walk observes the hrefs, a changed one clearing the skips, and PUTs *)
(* the status where it found it; no report, no PUT. A frozen gate ends the *)
(* walk before it gets here.                                               *)
OnWalk ==
    /\ job["walk"].at = "idle" /\ ~frozen
    /\ nb' = IF nb.href = server.home THEN nb
             ELSE [nb EXCEPT !.href = server.home, !.skip = {}]
    /\ job' = IF nb.report = NoReport \/ nb.report.cap = nb.hash THEN job
              ELSE [job EXCEPT !["walk"].at = "batch"]
    /\ \/ /\ server' = IF nb.report = NoReport THEN server ELSE Told(nb.report)
          /\ UNCHANGED budget
       \/ GoesWrong /\ UNCHANGED server
    /\ UNCHANGED <<truth, meas, base, pending, topic, frozen, spoiled>>

Running == {g \in Threads : job[g].at \in {"cap", "set", "record"}}

(* A batch takes the report of the moment; nothing is sent while frozen.   *)
(* (A skip learnt while the server was elsewhere outlives its return to    *)
(* where the last walk saw it: only another href clears the skips.)        *)
BatchStarts(g) ==
    /\ job[g].at = "batch"
    /\ job' = [job EXCEPT ![g] =
                  IF frozen THEN Idle
                  ELSE [Idle EXCEPT !.at = "cap", !.cap = nb.report.cap]]
    /\ spoiled' = IF frozen THEN spoiled
                  ELSE (spoiled \cap {"failed"})
                       \cup {h \in {"beside"} : Running # {}}
                       \cup {h \in {"moved"} : \/ nb.href # server.home
                                              \/ nb.skip \cap server.offers # {}}
    /\ UNCHANGED <<truth, meas, base, pending, topic, nb, frozen,
                   server, budget>>

(* One resource that is not settled spoils the batch.                      *)
MutStillOk(g, ok) == ok

StillOk(g, ok) == job[g].ok /\ ok

(* One resource of the batch: sent and taken; sent and not offered there,  *)
(* which settles it too; failed twice, the server having taken it or not;  *)
(* skipped; or without an href.                                            *)
PutResource(g, r, next) ==
    LET Then(ok) == [job EXCEPT ![g].at = next, ![g].ok = StillOk(g, ok)]
        offered == nb.href = server.home /\ r \in server.offers
    IN  /\ job[g].at = r
        /\ \/ /\ r \in nb.skip
              /\ job' = Then(TRUE)
              /\ UNCHANGED <<server, nb, budget, spoiled>>
           \/ /\ r \notin nb.skip /\ nb.href = Nowhere
              /\ job' = Then(FALSE)
              /\ UNCHANGED <<server, nb, budget, spoiled>>
           \/ /\ r \notin nb.skip /\ nb.href # Nowhere
              /\ job' = Then(TRUE)
              /\ server' = Put(r, job[g].cap)
              /\ nb' = IF offered THEN nb ELSE [nb EXCEPT !.skip = @ \cup {r}]
              /\ UNCHANGED <<budget, spoiled>>
           \/ /\ r \notin nb.skip /\ nb.href # Nowhere
              /\ GoesWrong
              /\ job' = Then(FALSE)
              /\ server' = Put(r, job[g].cap) \/ UNCHANGED server
              /\ spoiled' = spoiled \cup {"failed"}
              /\ UNCHANGED nb
        /\ UNCHANGED <<truth, meas, base, pending, topic, frozen>>

(* The record follows a batch in which both were settled.                  *)
BatchEnds(g) ==
    /\ job[g].at = "record"
    /\ nb' = IF job[g].ok THEN [nb EXCEPT !.hash = job[g].cap] ELSE nb
    /\ spoiled' = IF job[g].ok THEN spoiled \ {"failed"} ELSE spoiled
    /\ job' = [job EXCEPT ![g] = Idle]
    /\ UNCHANGED <<truth, meas, base, pending, topic, frozen, server, budget>>

(* The PIN verdict of a walk closes the gate or opens it.                  *)
PinVerdict ==
    /\ job["walk"].at = "idle"
    /\ frozen \/ GoesWrong
    /\ frozen => UNCHANGED budget
    /\ frozen' = ~frozen
    /\ UNCHANGED <<truth, meas, base, pending, topic, nb, job,
                   server, spoiled>>

(* After a restart the broker hands the retained report over again.        *)
NorthboundRestarts ==
    /\ GoesWrong
    /\ nb' = [FreshNb EXCEPT !.report = topic]
    /\ job' = [g \in Threads |->
                  IF g = "sub" /\ topic # NoReport
                  THEN [Idle EXCEPT !.at = "batch"] ELSE Idle]
    /\ UNCHANGED <<truth, meas, base, pending, topic, frozen, server, spoiled>>

(* The server lays its tree out anew.                                      *)
TreeMoves ==
    /\ GoesWrong
    /\ server' = [server EXCEPT !.home = 3 - @,
                                !.holds = [r \in Resources |-> 0]]
    /\ spoiled' = spoiled \cup {"moved"}
    /\ UNCHANGED <<truth, meas, base, pending, topic, nb, job, frozen>>

Batch(g) == \/ BatchStarts(g)
            \/ PutResource(g, "cap", "set") \/ PutResource(g, "set", "record")
            \/ BatchEnds(g)

NextSite ==
    \/ SiteChanges
    \/ OnMeasurement \/ GoesStale
    \/ Minute \/ PublishIfDue \/ Harvest \/ HubRestarts
    \/ OnWalk
    \/ \E g \in Threads : Batch(g)
    \/ PinVerdict \/ NorthboundRestarts \/ TreeMoves

(* The goroutines run, the devices report, a frozen gate opens in the end. *)
FairSite ==
    /\ WF_siteVars(OnMeasurement) /\ WF_siteVars(GoesStale)
    /\ WF_siteVars(Minute) /\ WF_siteVars(PublishIfDue) /\ WF_siteVars(Harvest)
    /\ WF_siteVars(OnWalk)
    /\ WF_siteVars(frozen /\ PinVerdict)
    /\ \A g \in Threads : WF_siteVars(Batch(g))

SpecSite == InitSite /\ [][NextSite]_siteVars /\ FairSite

----------------------------------------------------------------------------

(* Through lost and half-lost publishes, failed PUTs, restarts of both     *)
(* services, freezes and moves of the server, what the utility is told of  *)
(* the site's state becomes what the devices do, and so does what it is    *)
(* told of their availability as long as anything is known of it           *)
(* (derreport.go OnWalk, dersite.go publishIfDue).                         *)
Observed == [w |-> truth.w, rated |-> truth.rated, fresh |-> truth.up]

StatusIsTrue ==
    /\ server.status = {StatusOf(Observed)}
    /\ AvailableOf(Observed) \in {{}, server.avail}

(* When no batch runs, none failed since the record was made or ran beside *)
(* another, and the server stayed where it was, then what northbound has   *)
(* on record as PUT is what every resource the server offers holds         *)
(* (derreport.go lastCapSetHash).                                          *)
RecordIsTrue ==
    (Running = {} /\ spoiled = {} /\ nb.hash # 0)
        => \A r \in server.offers : server.holds[r] = nb.hash
=============================================================================
