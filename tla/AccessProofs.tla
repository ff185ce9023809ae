---------------------------- MODULE AccessProofs ----------------------------
(***************************************************************************)
(* Proofs about northbound's dealings with the utility: the sessions       *)
(* through a rotation of certificates (Rotation), the watch over those     *)
(* that run out, what is on record as sent (SiteReport), the edges told    *)
(* (AlarmEvents), the end of a control nobody ends (Lease), and what the   *)
(* response tracker remembers (Responses), for any number of fetchers,     *)
(* CAs, events, faults and days.                                           *)
(***************************************************************************)
EXTENDS Rotation, SiteReport, AlarmEvents, Lease, Responses, SequenceTheorems,
        FiniteSetTheorems, WellFoundedInduction, TLAPS

(* Rotation.                                                               *)

Exchange == [kind : {"get", "post"}, by : Nat, try : {1, 2}]
Request == [id : Nat, form : Forms \cup {"none"}, ca : CAs]
WorkAt(places) == [at : places, i : DOMAIN Order, req : Request,
                   failed : SUBSET Fetchers, new : Nat]
Work == WorkAt({"idle", "probe", "swap", "consume"})

RotationTypes ==
    /\ client \in [Fetchers -> [ca : CAs, id : Nat]]
    /\ op \in [Fetchers -> Exchange \cup {NoOp}]
    /\ clients \in Nat
    /\ written \in Nat
    /\ sentinel \in Request
    /\ work \in Work

\* A client in use is no younger than the last one built, and the server takes
\* it unless it is older than the server's change.
ClientsAdmitted ==
    \A f \in Fetchers :
        /\ client[f].id <= clients
        /\ client[f].ca # root => client[f].id \in outdated

\* So is the one that was probed and waits for the fetcher's mutex.
NextAdmitted ==
    work.at = "swap" =>
        /\ work.new <= clients
        /\ work.req.ca # root => work.new \in outdated

RotationInv ==
    RotationTypes /\ ClientsAdmitted /\ NextAdmitted /\ NoFreedSessionInUse

LEMMA RotationStarts == InitRotation => RotationInv
  <1> SUFFICES ASSUME InitRotation PROVE RotationInv
    OBVIOUS
  <1>1. NoSentinel \in Request
    BY RotationAssumption DEF NoSentinel, Request
  <1>2. RotationTypes
    BY <1>1, RotationAssumption DEF InitRotation, RotationTypes, Resting, Work, WorkAt
  <1>3. ClientsAdmitted /\ NextAdmitted /\ NoFreedSessionInUse
    BY DEF InitRotation, ClientsAdmitted, NextAdmitted, NoFreedSessionInUse,
           Resting
  <1> QED
    BY <1>2, <1>3 DEF RotationInv

\* Exchanges begin on the fetcher's client and end; they replace none.
LEMMA ExchangeKeepsSessions ==
  ASSUME RotationInv, NEW f \in Fetchers,
         BeginOp(f) \/ Answered(f) \/ Broken(f)
  PROVE  RotationInv'
  <1>1. UNCHANGED <<root, client, sentinel, work, written, clients, outdated>>
    BY DEF BeginOp, Answered, Broken, OpsUnchanged
  <1>2. op \in [Fetchers -> Exchange \cup {NoOp}]
    BY DEF RotationInv, RotationTypes, Work, WorkAt
  <1>3. /\ op' \in [Fetchers -> Exchange \cup {NoOp}]
        /\ \A g \in Fetchers :
              \/ op'[g] = NoOp
              \/ op'[g] = op[g]
              \/ op'[g].by = client[g].id
    <2>1. CASE BeginOp(f)
      <3>1. client[f].id \in Nat
        BY DEF RotationInv, RotationTypes, Work, WorkAt
      <3> QED
        BY <2>1, <1>2, <3>1 DEF BeginOp, Exchange
    <2>2. CASE Answered(f)
      BY <2>2, <1>2 DEF Answered
    <2>3. CASE Broken(f)
      <3>1. op[f] \in Exchange /\ op[f].by = client[f].id
        BY <2>3, <1>2 DEF Broken, RotationInv, NoFreedSessionInUse
      <3>2. CASE op' = [op EXCEPT ![f].try = 2]
        BY <1>2, <3>1, <3>2 DEF Exchange
      <3>3. CASE op' = [op EXCEPT ![f] = NoOp]
        BY <1>2, <3>3
      <3> QED
        BY <2>3, <3>2, <3>3 DEF Broken
    <2> QED
      BY <2>1, <2>2, <2>3
  <1>4. RotationTypes'
    BY <1>1, <1>3 DEF RotationInv, RotationTypes, Work, WorkAt
  <1>5. NoFreedSessionInUse'
    BY <1>1, <1>3 DEF RotationInv, NoFreedSessionInUse
  <1> QED
    BY <1>1, <1>4, <1>5 DEF RotationInv, ClientsAdmitted, NextAdmitted

LEMMA OrderType ==
  /\ Len(Order) \in Nat \ {0} /\ DOMAIN Order = 1..Len(Order)
  /\ \A i \in DOMAIN Order : Order[i] \in Fetchers
  BY RotationAssumption DEF Fetchers

\* A round goes on with the next fetcher there is, or it ends.
LEMMA AfterType ==
  ASSUME NEW w \in Work
  PROVE  After(w) \in WorkAt({"probe", "consume"})
  <1>1. w.i # Len(Order) => w.i + 1 \in DOMAIN Order
    BY OrderType DEF Work, WorkAt
  <1> QED
    BY <1>1 DEF After, Work, WorkAt

\* The new client was probed against the server there is, or the server has
\* changed since.
LEMMA ProbeKeepsSessions ==
  ASSUME RotationInv, Probe
  PROVE  RotationInv'
  <1>1. UNCHANGED <<root, client, op, sentinel, written, outdated>>
    BY DEF Probe, RotatorUnchanged
  <1>2. CASE Probed /\ clients' = clients + 1
             /\ work' = [work EXCEPT !.at = "swap", !.new = clients + 1]
    <2>1. clients + 1 \in Nat /\ work \in Work
      BY DEF RotationInv, RotationTypes, Work, WorkAt
    <2>2. work' \in Work /\ work'.new = clients + 1 /\ work'.req.ca = root
      BY <1>2, <2>1 DEF Probed, Accepts, Work, WorkAt
    <2> QED
      BY <1>1, <1>2, <2>1, <2>2 DEF RotationInv, RotationTypes, Work, WorkAt,
         ClientsAdmitted, NextAdmitted, NoFreedSessionInUse
  <1>3. CASE UNCHANGED clients
             /\ work' = After([work EXCEPT !.failed = @ \cup {Order[work.i]}])
    <2> DEFINE w == [work EXCEPT !.failed = @ \cup {Order[work.i]}]
    <2>1. w \in Work
      BY OrderType DEF RotationInv, RotationTypes, Work, WorkAt
    <2>2. work' \in WorkAt({"probe", "consume"})
      BY <1>3, <2>1, AfterType
    <2> QED
      BY <1>1, <1>3, <2>2 DEF RotationInv, RotationTypes, Work, WorkAt, ClientsAdmitted,
                              NextAdmitted, NoFreedSessionInUse
  <1> QED
    BY <1>2, <1>3 DEF Probe

\* The swap waits for the exchange under way.
LEMMA SwapKeepsSessions ==
  ASSUME RotationInv, Swap
  PROVE  RotationInv'
  <1> DEFINE f == Order[work.i]
             new == [ca |-> work.req.ca, id |-> work.new]
  <1>1. /\ UNCHANGED <<root, op, sentinel, written, clients, outdated>>
        /\ client' = [client EXCEPT ![f] = new]
        /\ work' = After(work)
        /\ work.at = "swap" /\ op[f] = NoOp
    BY DEF Swap, RotatorUnchanged, MutexFree
  <1>2. f \in Fetchers
    BY OrderType DEF RotationInv, RotationTypes, Work, WorkAt
  <1>3. new \in [ca : CAs, id : Nat]
    BY DEF RotationInv, RotationTypes, Work, WorkAt, Request
  <1>4. work' \in WorkAt({"probe", "consume"})
    BY <1>1, AfterType DEF RotationInv, RotationTypes, Work, WorkAt
  <1> HIDE DEF f
  <1>5. RotationTypes'
    BY <1>1, <1>2, <1>3, <1>4 DEF RotationInv, RotationTypes, Work, WorkAt
  <1>6. ClientsAdmitted' /\ NextAdmitted'
    BY <1>1, <1>2, <1>4
       DEF RotationInv, RotationTypes, Work, WorkAt, ClientsAdmitted, NextAdmitted
  <1>7. NoFreedSessionInUse'
    BY <1>1, <1>2 DEF RotationInv, RotationTypes, Work, WorkAt, NoFreedSessionInUse
  <1> QED
    BY <1>5, <1>6, <1>7 DEF RotationInv

\* The other steps of the rotator and its script.
LEMMA SentinelKeepsSessions ==
  ASSUME RotationInv, ReadSentinel \/ Consume \/ WriteSentinel
  PROVE  RotationInv'
  <1>1. UNCHANGED <<root, client, op, clients, outdated>>
    BY DEF ReadSentinel, Consume, WriteSentinel, RotatorUnchanged
  <1>2. NoSentinel \in Request /\ 1 \in DOMAIN Order
    BY RotationAssumption, OrderType DEF NoSentinel, Request
  <1>3. work' \in Work /\ (work' = work \/ work'.at # "swap")
    <2>1. work \in Work /\ sentinel \in Request
      BY DEF RotationInv, RotationTypes, Work, WorkAt
    <2>2. Resting \in Work /\ Resting.at # "swap"
      BY <1>2 DEF Resting, Work, WorkAt
    <2>3. CASE ReadSentinel
      BY <2>1, <2>2, <2>3 DEF ReadSentinel, Work, WorkAt
    <2> QED
      BY <2>1, <2>2, <2>3 DEF Consume, WriteSentinel
  <1>4. sentinel' \in Request /\ written' \in Nat
    BY <1>2 DEF ReadSentinel, Consume, WriteSentinel, RotatorUnchanged,
                RotationInv, RotationTypes, Work, WorkAt, Request
  <1> QED
    BY <1>1, <1>3, <1>4 DEF RotationInv, RotationTypes, Work, WorkAt, ClientsAdmitted,
                            NextAdmitted, NoFreedSessionInUse

\* A server that changes outdates every client built so far.
LEMMA ServerMoveKeepsSessions ==
  ASSUME RotationInv, ServerMoves
  PROVE  RotationInv'
  <1>1. /\ UNCHANGED <<client, op, sentinel, work, written, clients>>
        /\ outdated' = 0..clients
    BY DEF ServerMoves
  <1> QED
    BY <1>1 DEF RotationInv, RotationTypes, Work, WorkAt, ClientsAdmitted, NextAdmitted,
                NoFreedSessionInUse

LEMMA RestartKeepsSessions ==
  ASSUME RotationInv, RestartNorthbound
  PROVE  RotationInv'
  <1>1. NoSentinel \in Request /\ 1 \in DOMAIN Order
    BY RotationAssumption, OrderType DEF NoSentinel, Request
  <1>2. RotationTypes'
    BY <1>1, RotationAssumption
       DEF RotationInv, RotationTypes, Work, WorkAt, RestartNorthbound, Resting
  <1>3. ClientsAdmitted' /\ NextAdmitted' /\ NoFreedSessionInUse'
    BY DEF RotationInv, RotationTypes, Work, WorkAt, RestartNorthbound, Resting,
           ClientsAdmitted, NextAdmitted, NoFreedSessionInUse
  <1> QED
    BY <1>2, <1>3 DEF RotationInv

LEMMA RotationStep == RotationInv /\ [NextRotation]_rotationVars => RotationInv'
  <1>1. RotationInv /\ UNCHANGED rotationVars => RotationInv'
    BY DEF RotationInv, RotationTypes, Work, WorkAt, ClientsAdmitted, NextAdmitted,
           NoFreedSessionInUse, rotationVars
  <1> QED
    BY <1>1, ExchangeKeepsSessions, ProbeKeepsSessions, SwapKeepsSessions,
       SentinelKeepsSessions, ServerMoveKeepsSessions, RestartKeepsSessions
       DEF NextRotation, CheckOnce

\* A rotation never costs a session the server would still accept, nor frees
\* a client under an exchange (rotate.go, fetcher.go's Reload), through
\* refused, failed and repeated requests, broken sessions and restarts.
THEOREM RotationCostsNothing == SpecRotation => []SessionsStand
  <1>1. RotationInv => SessionsStand
    BY DEF RotationInv, ClientsAdmitted, SessionsStand, StaysAdmitted, Accepts
  <1> QED
    BY <1>1, RotationStarts, RotationStep, PTL DEF SpecRotation
-----------------------------------------------------------------------------
(* The certificate watch.                                                  *)

CertTypes ==
    /\ today \in Nat /\ due \in Nat /\ issued \in Nat
    /\ expires \in [Files -> Int]

\* The next check is no more than a day away, and what the last one published
\* is what was so then, unless a file has been changed since.
CheckedThen ==
    /\ today <= due /\ due <= today + Day
    /\ today < due /\ issued < due - Day =>
          \A c \in Files :
              /\ expires[c] = Unreadable => status.level = "unreadable"
              /\ expires[c] <= due - Day =>
                    status.level \in {"expired", "unreadable"}
              /\ expires[c] # Unreadable
                 /\ expires[c] - (due - Day) <= WarnDays * Day =>
                    status.level # "ok"

CertInv == CertTypes /\ CheckedThen

LEMMA CertStarts == InitCert => CertInv
  BY CertAssumption DEF InitCert, CertInv, CertTypes, CheckedThen, Day

\* daysUntil rounds up what is left, and is over no later than the file is.
LEMMA DaysUntilBounds ==
  ASSUME CertTypes, NEW e \in Int
  PROVE  /\ DaysUntil(e) \in Int
         /\ e <= today => DaysUntil(e) <= 0
         /\ e - today <= WarnDays * Day => DaysUntil(e) <= WarnDays
  BY CertAssumption DEF CertTypes, DaysUntil, Day

\* The combination is of the sooner file.
LEMMA DaysLeftIsLeast ==
  ASSUME CertTypes, NEW readable \in SUBSET Files, readable # {}
  PROVE  /\ DaysLeft(readable) \in Int
         /\ \A c \in readable : DaysLeft(readable) <= DaysUntil(expires[c])
  <1> DEFINE days == {DaysUntil(expires[c]) : c \in readable}
             Least(d) == \A c \in readable : d <= DaysUntil(expires[c])
  <1>1. \A c \in readable : DaysUntil(expires[c]) \in Int
    BY DaysUntilBounds DEF CertTypes
  <1>2. \E d \in days : Least(d)
    <2>1. CASE readable = Files
      BY <1>1, <2>1 DEF Files
    <2>2. CASE \E c \in Files : readable = {c}
      BY <1>1, <2>2
    <2> QED
      BY <2>1, <2>2 DEF Files
  <1>3. DaysLeft(readable) = CHOOSE d \in days : Least(d)
    BY DEF DaysLeft
  <1>4. DaysLeft(readable) \in days /\ Least(DaysLeft(readable))
    BY <1>2, <1>3
  <1> QED
    BY <1>1, <1>4

\* A check tells the truth about now.
LEMMA CheckTellsTruth ==
  ASSUME CertTypes, NEW c \in Files
  PROVE  /\ expires[c] = Unreadable => Checked.level = "unreadable"
         /\ expires[c] <= today =>
               Checked.level \in {"expired", "unreadable"}
         /\ expires[c] # Unreadable
            /\ expires[c] - today <= WarnDays * Day =>
               Checked.level # "ok"
  <1> DEFINE readable == {f \in Files : expires[f] # Unreadable}
             d == DaysLeft(readable)
  <1>1. Checked.level = Level(readable)
    BY DEF Checked
  <1>2. CASE readable # Files
    <2> HIDE DEF readable
    <2>1. Level(readable) = "unreadable"
      BY <1>2 DEF Level
    <2> QED
      BY <1>1, <2>1
  <1>3. CASE readable = Files
    <2>1. d \in Int /\ d <= DaysUntil(expires[c])
      BY <1>3, DaysLeftIsLeast DEF Files
    <2>2. /\ expires[c] <= today => d <= 0
          /\ expires[c] - today <= WarnDays * Day => d <= WarnDays
      BY <2>1, DaysUntilBounds, CertAssumption DEF CertTypes
    <2>3. /\ d <= 0 => Level(readable) = "expired"
          /\ d <= WarnDays => Level(readable) \in {"expired", "expiring"}
      BY <1>3, <2>1, CertAssumption DEF Level
    <2>4. expires[c] # Unreadable
      BY <1>3
    <2> HIDE DEF d, readable
    <2> QED
      BY <1>1, <2>2, <2>3, <2>4
  <1> QED
    BY <1>2, <1>3

LEMMA CertStep == CertInv /\ [NextCert]_certVars => CertInv'
  <1> SUFFICES ASSUME CertInv, [NextCert]_certVars PROVE CertInv'
    OBVIOUS
  <1> USE DEF CertInv
  <1>1. CASE CheckCerts
    <2>1. CertTypes' /\ today < due' /\ due' - Day = today
      BY <1>1 DEF CheckCerts, CertTypes, Day
    <2>2. status' = Checked /\ today' = today /\ expires' = expires
      BY <1>1 DEF CheckCerts
    <2>3. \A c \in Files : /\ Unreadable' = Unreadable
                            /\ expires'[c] = expires[c]
                            /\ status'.level = Checked.level
      BY <2>2 DEF Unreadable
    <2>4. today' <= due' /\ due' <= today' + Day
      BY <1>1 DEF CheckCerts, CertTypes, Day
    <2>5. CertTypes
      OBVIOUS
    <2>6. \A c \in Files :
             /\ expires'[c] = Unreadable' => status'.level = "unreadable"
             /\ expires'[c] <= due' - Day =>
                   status'.level \in {"expired", "unreadable"}
             /\ expires'[c] # Unreadable'
                /\ expires'[c] - (due' - Day) <= WarnDays * Day =>
                   status'.level # "ok"
      <3> TAKE c \in Files
      <3>1. due' - Day = today /\ expires'[c] = expires[c]
            /\ status'.level = Checked.level /\ Unreadable' = Unreadable
        BY <2>1, <2>3
      <3> QED
        BY <2>5, <3>1, CheckTellsTruth
    <2>7. CheckedThen'
      BY <2>4, <2>6 DEF CheckedThen, Day
    <2> QED
      BY <2>1, <2>7
  <1>2. CASE HalfDay
    BY <1>2 DEF HalfDay, CertTypes, CheckedThen, Day, Unreadable
  <1>3. CASE RestartMonitor
    BY <1>3 DEF RestartMonitor, CertTypes, CheckedThen, Day
  <1>4. CASE ChangeFile
    <2>1. CertTypes'
      BY <1>4, CertAssumption DEF ChangeFile, CertTypes, Unreadable
    <2>2. ~(issued' < due' - Day)
      BY <1>4 DEF ChangeFile, CertTypes, CheckedThen, Day
    <2> QED
      BY <1>4, <2>1, <2>2 DEF ChangeFile, CertTypes, CheckedThen
  <1>5. CASE UNCHANGED certVars
    BY <1>5 DEF certVars, CertTypes, CheckedThen, Unreadable
  <1> QED
    BY <1>1, <1>2, <1>3, <1>4, <1>5 DEF NextCert

\* An expiry is reported no later than a day after it, and WarnDays ahead of it
\* less the day between two checks (certmon.go), for any number of days and
\* whatever files are replaced or unreadable in between.
THEOREM ExpiryIsNeverMissed == SpecCert => []ExpiryIsKnown
  <1>1. CertInv => ExpiryIsKnown
    BY CertAssumption
       DEF CertInv, CertTypes, CheckedThen, ExpiryIsKnown, Day, Unreadable
  <1> QED
    BY <1>1, CertStarts, CertStep, PTL DEF SpecCert
-----------------------------------------------------------------------------
(* What northbound has on record is what the server holds.  A batch that   *)
(* has done nothing wrong so far has left its rating wherever it has been; *)
(* this is known while no other batch runs beside it and the server is     *)
(* where the walk saw it.                                                  *)

Statuses == [connected : BOOLEAN, operating : BOOLEAN, storage : Int]
Reports == [cap : Int, status : SUBSET Statuses, avail : SUBSET Int]
Bases == [hash : Reports, since : Int, ever : BOOLEAN]
Places == {"idle", "batch", "cap", "set", "record"}

ReportTypes ==
    /\ truth \in [w : Int, rated : Int, up : BOOLEAN]
    /\ meas \in [w : Int, rated : Int, fresh : BOOLEAN]
    /\ base \in Bases /\ pending \subseteq [rep : Reports, prev : Bases]
    /\ topic \in Reports
    /\ nb \in [report : Reports, hash : Int, href : 0..2, skip : SUBSET Resources]
    /\ job \in [Threads -> [at : Places, cap : Int, ok : BOOLEAN]]
    /\ server \in [home : 1..2, offers : SUBSET Resources,
                   holds : [Resources -> Int], status : SUBSET Statuses,
                   avail : SUBSET Int]

\* Unless the server moved, northbound knows where it is, or has sent nothing.
KnowsServer ==
    "moved" \notin spoiled =>
        \/ Running = {} /\ nb.hash = 0
        \/ nb.href = server.home /\ nb.skip \cap server.offers = {}

AloneUnlessBeside ==
    "beside" \notin spoiled => \A g, h \in Running : g = h

\* What a batch that is all right has behind it.
BatchHolds ==
    "moved" \notin spoiled /\ "beside" \notin spoiled =>
        \A g \in Running :
            /\ "failed" \notin spoiled => job[g].ok
            /\ job[g].ok /\ job[g].at \in {"set", "record"} /\ "cap" \in server.offers
                  => server.holds["cap"] = job[g].cap
            /\ job[g].ok /\ job[g].at = "record" /\ "set" \in server.offers
                  => server.holds["set"] = job[g].cap

RecordInv ==
    ReportTypes /\ KnowsServer /\ AloneUnlessBeside /\ BatchHolds /\ RecordIsTrue

LEMMA RecordStarts == InitSite => RecordInv
  <1> SUFFICES ASSUME InitSite PROVE RecordInv
    OBVIOUS
  <1>1. NoReport \in Reports
    BY DEF NoReport, Reports
  <1>2. ReportTypes
    <2>1. /\ truth \in [w : Int, rated : Int, up : BOOLEAN]
          /\ meas \in [w : Int, rated : Int, fresh : BOOLEAN]
      BY DEF InitSite, Configured, Unseen
    <2>2. base \in Bases /\ pending \subseteq [rep : Reports, prev : Bases] /\ topic \in Reports
      BY <1>1 DEF InitSite, NoBase, Bases, Heartbeat
    <2>3. nb \in [report : Reports, hash : Int, href : 0..2, skip : SUBSET Resources]
      BY <1>1 DEF InitSite, FreshNb, Nowhere
    <2>4. job \in [Threads -> [at : Places, cap : Int, ok : BOOLEAN]]
      BY DEF InitSite, Idle, Places
    <2>5. PICK o \in {Resources, {"set"}} :
              server = [home |-> 1, offers |-> o, holds |-> [r \in Resources |-> 0],
                        status |-> {}, avail |-> {}]
      BY DEF InitSite
    <2>6. o \in SUBSET Resources
      BY <2>5 DEF Resources
    <2> QED
      BY <2>1, <2>2, <2>3, <2>4, <2>5, <2>6 DEF ReportTypes
  <1>3. Running = {} /\ nb.hash = 0
    BY DEF InitSite, Running, Idle, FreshNb
  <1> QED
    BY <1>2, <1>3 DEF RecordInv, KnowsServer, AloneUnlessBeside, BatchHolds, RecordIsTrue

\* A report is made of what the hub has measured.
LEMMA ReportIsOne == ReportTypes => Report \in Reports
  <1> SUFFICES ASSUME ReportTypes PROVE Report \in Reports
    OBVIOUS
  <1>1. meas.rated \in Int /\ meas.w \in Int /\ meas.fresh \in BOOLEAN
    BY DEF ReportTypes
  <1>2. StatusOf(meas) \in Statuses
    BY <1>1 DEF StatusOf, Statuses, NoStorage
  <1>3. AvailableOf(meas) \in SUBSET Int
    BY <1>1 DEF AvailableOf
  <1> QED
    BY <1>1, <1>2, <1>3 DEF Report, Reports

\* A step that leaves the record, the batches at work and the server's
\* resources as they are.
LEMMA RecordUntouched ==
  ASSUME RecordInv, ReportTypes',
         UNCHANGED spoiled,
         nb'.hash = nb.hash,
         \/ nb'.href = nb.href /\ nb'.skip = nb.skip
         \/ nb'.href = server.home /\ nb'.skip = {},
         server'.home = server.home, server'.offers = server.offers,
         server'.holds = server.holds,
         Running' = Running, \A g \in Running : job'[g] = job[g]
  PROVE  RecordInv'
  <1>1. KnowsServer'
    BY DEF RecordInv, KnowsServer
  <1>2. AloneUnlessBeside'
    BY DEF RecordInv, AloneUnlessBeside
  <1>3. BatchHolds'
    BY DEF RecordInv, BatchHolds
  <1>4. RecordIsTrue'
    BY DEF RecordInv, RecordIsTrue
  <1> QED
    BY <1>1, <1>2, <1>3, <1>4 DEF RecordInv

\* The hub's steps; a report that arrives may call for a batch.
LEMMA HubKeepsRecord ==
  ASSUME RecordInv,
         \/ SiteChanges \/ OnMeasurement \/ GoesStale \/ Minute
         \/ PublishIfDue \/ Harvest \/ HubRestarts \/ PinVerdict
  PROVE  RecordInv'
  <1>1. ReportTypes
    BY DEF RecordInv
  <1>2. CASE Harvest
    <2>1. UNCHANGED <<truth, meas, frozen, server, spoiled>>
      BY <1>2 DEF Harvest
    <2>2. PICK m \in pending :
            /\ pending' = {}
            /\ base' = base \/ base' = RolledBack(m.prev)
            /\ HandleDERSite(m.rep) \/ UNCHANGED <<topic, nb, job>>
      BY <1>2 DEF Harvest
    <2>3. m.rep \in Reports /\ m.prev \in Bases
      BY <1>1, <2>2 DEF ReportTypes
    <2>4. CASE UNCHANGED <<topic, nb, job>>
      <3>1. ReportTypes'
        BY <1>1, <2>1, <2>2, <2>3, <2>4 DEF ReportTypes, RolledBack
      <3>2. Running' = Running
        BY <2>4 DEF Running
      <3> QED
        BY <2>1, <2>4, <3>1, <3>2, RecordUntouched
    <2>5. CASE HandleDERSite(m.rep)
      <3>1. /\ topic' = m.rep /\ nb' = [nb EXCEPT !.report = m.rep]
            /\ job["sub"].at = "idle"
            /\ job' = job \/ job' = [job EXCEPT !["sub"].at = "batch"]
        BY <2>5 DEF HandleDERSite, Kept
      <3>2. ReportTypes'
        BY <1>1, <2>1, <2>2, <2>3, <3>1 DEF ReportTypes, RolledBack, Places, Threads
      <3>3. \A g \in Threads \ {"sub"} : job'[g] = job[g]
        BY <1>1, <3>1 DEF ReportTypes
      <3>4. job'["sub"].at \in {"idle", "batch"} /\ "sub" \in Threads
        BY <1>1, <3>1 DEF ReportTypes, Threads
      <3>5. Running' = Running /\ \A g \in Running : job'[g] = job[g]
        BY <3>1, <3>3, <3>4 DEF Running
      <3>6. nb'.hash = nb.hash /\ nb'.href = nb.href /\ nb'.skip = nb.skip
        BY <1>1, <3>1 DEF ReportTypes
      <3> QED
        BY <2>1, <3>2, <3>5, <3>6, RecordUntouched
    <2> QED
      BY <2>2, <2>4, <2>5
  <1>3. CASE SiteChanges \/ OnMeasurement \/ GoesStale \/ Minute \/ PublishIfDue
             \/ HubRestarts \/ PinVerdict
    <2>1. UNCHANGED <<topic, nb, job, server, spoiled>>
      BY <1>3 DEF SiteChanges, OnMeasurement, GoesStale, Minute, PublishIfDue,
                  HubRestarts, PinVerdict
    <2>2. /\ truth' \in [w : Int, rated : Int, up : BOOLEAN]
          /\ meas' \in [w : Int, rated : Int, fresh : BOOLEAN]
      <3>0. /\ truth \in [w : Int, rated : Int, up : BOOLEAN]
            /\ meas \in [w : Int, rated : Int, fresh : BOOLEAN]
            /\ truth.w \in Int /\ truth.rated \in Int /\ -truth.w \in Int
            /\ 3 - truth.rated \in Int
        BY <1>1 DEF ReportTypes
      <3>1. CASE SiteChanges
        <4>1. /\ meas' = meas
              /\ \/ truth' = [truth EXCEPT !.w = -truth.w]
                 \/ truth' = [truth EXCEPT !.rated = 3 - truth.rated]
                 \/ truth' = [truth EXCEPT !.up = ~truth.up]
          BY <3>1 DEF SiteChanges
        <4> QED
          BY <3>0, <4>1
      <3>2. CASE OnMeasurement \/ GoesStale
        <4>1. CASE OnMeasurement
          BY <3>0, <4>1 DEF OnMeasurement
        <4>2. CASE GoesStale
          BY <3>0, <4>2 DEF GoesStale
        <4> QED
          BY <3>2, <4>1, <4>2
      <3>3. CASE HubRestarts
        BY <1>1, <3>3 DEF ReportTypes, HubRestarts, Unseen, Configured
      <3>4. CASE Minute \/ PublishIfDue \/ PinVerdict
        BY <1>1, <3>4 DEF ReportTypes, Minute, PublishIfDue, PinVerdict
      <3> QED
        BY <1>3, <3>1, <3>2, <3>3, <3>4
    <2>3. base' \in Bases /\ pending' \subseteq [rep : Reports, prev : Bases]
      <3>1. CASE SiteChanges \/ OnMeasurement \/ GoesStale \/ PinVerdict
        BY <1>1, <3>1 DEF ReportTypes, SiteChanges, OnMeasurement, GoesStale, PinVerdict
      <3>2. CASE Minute
        BY <1>1, <3>2 DEF ReportTypes, Minute, Bases
      <3>3. CASE PublishIfDue
        BY <1>1, <3>3, ReportIsOne DEF ReportTypes, PublishIfDue, Bases
      <3>4. CASE HubRestarts
        BY <3>4 DEF HubRestarts, NoBase, NoReport, Heartbeat, Bases, Reports
      <3> QED
        BY <1>3, <3>1, <3>2, <3>3, <3>4
    <2>4. ReportTypes'
      BY <1>1, <2>1, <2>2, <2>3 DEF ReportTypes
    <2>5. Running' = Running
      BY <2>1 DEF Running
    <2> QED
      BY <2>1, <2>4, <2>5, RecordUntouched
  <1> QED
    BY <1>2, <1>3

\* The walk's step, a restart of northbound and a move of the server.
LEMMA WalkKeepsRecord ==
  ASSUME RecordInv, OnWalk PROVE RecordInv'
  <1>1. ReportTypes
    BY DEF RecordInv
  <1>2. UNCHANGED <<truth, meas, base, pending, topic, frozen, spoiled>>
    BY DEF OnWalk
  <1>3. \/ nb' = nb
        \/ nb' = [nb EXCEPT !.href = server.home, !.skip = {}]
    BY DEF OnWalk
  <1>4. /\ nb' \in [report : Reports, hash : Int, href : 0..2, skip : SUBSET Resources]
        /\ nb'.hash = nb.hash
        /\ \/ nb'.href = nb.href /\ nb'.skip = nb.skip
           \/ nb'.href = server.home /\ nb'.skip = {}
    <2>1. nb \in [report : Reports, hash : Int, href : 0..2, skip : SUBSET Resources]
      BY <1>1 DEF ReportTypes
    <2>2. server.home \in 1..2
      BY <1>1 DEF ReportTypes
    <2>3. server.home \in 0..2
      BY <2>2
    <2>4. CASE nb' = nb
      BY <2>1, <2>4
    <2>5. CASE nb' = [nb EXCEPT !.href = server.home, !.skip = {}]
      BY <2>1, <2>3, <2>5
    <2> QED
      BY <1>3, <2>4, <2>5
  <1>5. /\ job["walk"].at = "idle"
        /\ job' = job \/ job' = [job EXCEPT !["walk"].at = "batch"]
    BY DEF OnWalk
  <1>6. /\ job' \in [Threads -> [at : Places, cap : Int, ok : BOOLEAN]]
        /\ \A g \in Threads \ {"walk"} : job'[g] = job[g]
        /\ job'["walk"].at \in {"idle", "batch"} /\ "walk" \in Threads
    BY <1>1, <1>5 DEF ReportTypes, Threads, Places
  <1>7. Running' = Running /\ \A g \in Running : job'[g] = job[g]
    BY <1>5, <1>6 DEF Running
  <1>8. server' = server \/ server' = Told(nb.report)
    BY DEF OnWalk
  <1>9. /\ server' \in [home : 1..2, offers : SUBSET Resources,
                        holds : [Resources -> Int], status : SUBSET Statuses,
                        avail : SUBSET Int]
        /\ server'.home = server.home /\ server'.offers = server.offers
        /\ server'.holds = server.holds
    <2>1. nb.report \in Reports
      BY <1>1 DEF ReportTypes
    <2> QED
      BY <1>1, <1>8, <2>1 DEF ReportTypes, Told, Reports
  <1>10. ReportTypes'
    BY <1>1, <1>2, <1>4, <1>6, <1>9 DEF ReportTypes
  <1> QED
    BY <1>2, <1>4, <1>7, <1>9, <1>10, RecordUntouched

LEMMA UpheavalKeepsRecord ==
  ASSUME RecordInv, NorthboundRestarts \/ TreeMoves PROVE RecordInv'
  <1>1. ReportTypes
    BY DEF RecordInv
  <1>2. CASE NorthboundRestarts
    <2>1. UNCHANGED <<truth, meas, base, pending, topic, server, spoiled>>
      BY <1>2 DEF NorthboundRestarts
    <2>2. /\ nb' \in [report : Reports, hash : Int, href : 0..2, skip : SUBSET Resources]
          /\ nb'.hash = 0
      BY <1>1, <1>2 DEF NorthboundRestarts, FreshNb, Nowhere, ReportTypes
    <2>3. /\ job' \in [Threads -> [at : Places, cap : Int, ok : BOOLEAN]]
          /\ \A g \in Threads : job'[g].at \in {"idle", "batch"}
      <3> DEFINE Waiting == [Idle EXCEPT !.at = "batch"]
      <3>0. Idle \in [at : Places, cap : Int, ok : BOOLEAN] /\ Idle.at = "idle"
        BY DEF Idle, Places
      <3>1. Waiting \in [at : Places, cap : Int, ok : BOOLEAN] /\ Waiting.at = "batch"
        BY <3>0 DEF Places
      <3>2. job' = [g \in Threads |-> IF g = "sub" /\ topic # NoReport THEN Waiting ELSE Idle]
        BY <1>2 DEF NorthboundRestarts
      <3> HIDE DEF Waiting
      <3> QED
        BY <3>0, <3>1, <3>2
    <2>4. Running' = {}
      BY <2>3 DEF Running
    <2>5. ReportTypes'
      BY <1>1, <2>1, <2>2, <2>3 DEF ReportTypes
    <2> QED
      BY <2>2, <2>4, <2>5
         DEF RecordInv, KnowsServer, AloneUnlessBeside, BatchHolds, RecordIsTrue
  <1>3. CASE TreeMoves
    <2>1. /\ UNCHANGED <<truth, meas, base, pending, topic, nb, job>>
          /\ "moved" \in spoiled' /\ spoiled \subseteq spoiled'
      BY <1>3 DEF TreeMoves
    <2>2. server' \in [home : 1..2, offers : SUBSET Resources,
                       holds : [Resources -> Int], status : SUBSET Statuses,
                       avail : SUBSET Int]
      <3>1. server.home \in 1..2
        BY <1>1 DEF ReportTypes
      <3>2. 3 - server.home \in 1..2
        BY <3>1
      <3>3. server' = [server EXCEPT !.home = 3 - server.home,
                                     !.holds = [r \in Resources |-> 0]]
        BY <1>3 DEF TreeMoves
      <3>4. server \in [home : 1..2, offers : SUBSET Resources,
                        holds : [Resources -> Int], status : SUBSET Statuses,
                        avail : SUBSET Int]
        BY <1>1 DEF ReportTypes
      <3>5. [r \in Resources |-> 0] \in [Resources -> Int]
        OBVIOUS
      <3> QED
        BY <3>2, <3>3, <3>4, <3>5
    <2>3. Running' = Running
      BY <2>1 DEF Running
    <2>4. ReportTypes'
      BY <1>1, <2>1, <2>2 DEF ReportTypes
    <2> QED
      BY <2>1, <2>3, <2>4
         DEF RecordInv, KnowsServer, AloneUnlessBeside, BatchHolds, RecordIsTrue
  <1> QED
    BY <1>2, <1>3

\* The steps of a batch.
LEMMA StartKeepsRecord ==
  ASSUME RecordInv, NEW g \in Threads, BatchStarts(g) PROVE RecordInv'
  <1>1. ReportTypes
    BY DEF RecordInv
  <1>2. /\ UNCHANGED <<truth, meas, base, pending, topic, nb, server>>
        /\ job[g].at = "batch"
    BY DEF BatchStarts
  <1>3. CASE frozen
    <2>1. job' = [job EXCEPT ![g] = Idle] /\ spoiled' = spoiled
      BY <1>3 DEF BatchStarts
    <2>2. /\ job' \in [Threads -> [at : Places, cap : Int, ok : BOOLEAN]]
          /\ \A h \in Threads \ {g} : job'[h] = job[h]
          /\ job'[g].at = "idle"
      BY <1>1, <2>1 DEF ReportTypes, Idle, Places
    <2>3. Running' = Running /\ \A h \in Running : job'[h] = job[h]
      BY <1>2, <2>2 DEF Running
    <2>4. ReportTypes'
      BY <1>1, <1>2, <2>2 DEF ReportTypes
    <2> QED
      BY <1>2, <2>1, <2>3, <2>4, RecordUntouched
  <1>4. CASE ~frozen
    <2>1. /\ job' = [job EXCEPT ![g] = [Idle EXCEPT !.at = "cap", !.cap = nb.report.cap]]
          /\ spoiled' = (spoiled \cap {"failed"})
                       \cup {h \in {"beside"} : Running # {}}
                       \cup {h \in {"moved"} : \/ nb.href # server.home
                                              \/ nb.skip \cap server.offers # {}}
      BY <1>4 DEF BatchStarts
    <2>2. nb.report.cap \in Int
      BY <1>1 DEF ReportTypes, Reports
    <2>3. /\ job' \in [Threads -> [at : Places, cap : Int, ok : BOOLEAN]]
          /\ \A h \in Threads \ {g} : job'[h] = job[h]
          /\ job'[g].at = "cap" /\ job'[g].ok = TRUE
      BY <1>1, <2>1, <2>2 DEF ReportTypes, Idle, Places
    <2>4. Running' = Running \cup {g}
      BY <2>3 DEF Running
    <2>5. ReportTypes'
      BY <1>1, <1>2, <2>3 DEF ReportTypes
    <2>6. /\ "beside" \notin spoiled' => Running = {}
          /\ "moved" \notin spoiled' =>
                nb.href = server.home /\ nb.skip \cap server.offers = {}
      BY <2>1
    <2>7. KnowsServer'
      BY <1>2, <2>6 DEF KnowsServer
    <2>8. AloneUnlessBeside'
      BY <2>4, <2>6 DEF AloneUnlessBeside
    <2>9. BatchHolds'
      BY <2>3, <2>4, <2>6 DEF BatchHolds
    <2>10. RecordIsTrue'
      BY <2>4 DEF RecordIsTrue
    <2> QED
      BY <2>5, <2>7, <2>8, <2>9, <2>10 DEF RecordInv
  <1> QED
    BY <1>3, <1>4

LEMMA PutKeepsRecord ==
  ASSUME RecordInv, NEW g \in Threads,
         NEW r \in Resources, NEW next \in {"set", "record"},
         \/ r = "cap" /\ next = "set"
         \/ r = "set" /\ next = "record",
         PutResource(g, r, next)
  PROVE  RecordInv'
  <1> DEFINE Then(ok) == [job EXCEPT ![g].at = next, ![g].ok = StillOk(g, ok)]
             offered == nb.href = server.home /\ r \in server.offers
             taken == [server EXCEPT !.holds[r] = IF offered THEN job[g].cap ELSE @]
  <1>1. ReportTypes
    BY DEF RecordInv
  <1>2. UNCHANGED <<truth, meas, base, pending, topic>> /\ job[g].at = r
    BY DEF PutResource
  <1>3. /\ g \in Running /\ job[g].cap \in Int /\ job[g].ok \in BOOLEAN
        /\ job \in [Threads -> [at : Places, cap : Int, ok : BOOLEAN]]
    BY <1>1, <1>2 DEF ReportTypes, Running, Resources
  \* Whatever comes of it, the batch is at the next place, and is not better.
  <1>4. \A ok \in BOOLEAN : job' = Then(ok) =>
          /\ job' \in [Threads -> [at : Places, cap : Int, ok : BOOLEAN]]
          /\ \A h \in Threads \ {g} : job'[h] = job[h]
          /\ job'[g].at = next /\ job'[g].cap = job[g].cap
          /\ job'[g].ok = (job[g].ok /\ ok)
          /\ Running' = Running
    <2> SUFFICES ASSUME NEW ok \in BOOLEAN, job' = Then(ok)
                 PROVE  /\ job' \in [Threads -> [at : Places, cap : Int, ok : BOOLEAN]]
                        /\ \A h \in Threads \ {g} : job'[h] = job[h]
                        /\ job'[g].at = next /\ job'[g].cap = job[g].cap
                        /\ job'[g].ok = (job[g].ok /\ ok)
                        /\ Running' = Running
      OBVIOUS
    <2>1. StillOk(g, ok) \in BOOLEAN /\ StillOk(g, ok) = (job[g].ok /\ ok)
      BY <1>3 DEF StillOk
    <2>2. /\ job' \in [Threads -> [at : Places, cap : Int, ok : BOOLEAN]]
          /\ \A h \in Threads \ {g} : job'[h] = job[h]
          /\ job'[g].at = next /\ job'[g].cap = job[g].cap
          /\ job'[g].ok = StillOk(g, ok)
      BY <1>3, <2>1 DEF Places
    <2>3. Running' = Running
      BY <1>3, <2>2 DEF Running
    <2> QED
      BY <2>1, <2>2, <2>3
  <1>5. /\ taken \in [home : 1..2, offers : SUBSET Resources,
                      holds : [Resources -> Int], status : SUBSET Statuses,
                      avail : SUBSET Int]
        /\ taken.home = server.home /\ taken.offers = server.offers
        /\ \A q \in Resources \ {r} : taken.holds[q] = server.holds[q]
        /\ offered => taken.holds[r] = job[g].cap
    BY <1>1, <1>3 DEF ReportTypes
  <1>6. Put(r, job[g].cap) = taken
    BY DEF Put
  <1>7. \/ /\ r \in nb.skip /\ job' = Then(TRUE)
           /\ UNCHANGED <<server, nb, spoiled>>
        \/ /\ nb.href = Nowhere /\ job' = Then(FALSE)
           /\ UNCHANGED <<server, nb, spoiled>>
        \/ /\ job' = Then(TRUE) /\ server' = taken /\ spoiled' = spoiled
           /\ nb' = IF offered THEN nb ELSE [nb EXCEPT !.skip = @ \cup {r}]
        \/ /\ job' = Then(FALSE) /\ server' \in {server, taken} /\ nb' = nb
           /\ spoiled' = spoiled \cup {"failed"}
    BY <1>6 DEF PutResource
  <1> HIDE DEF Then, taken
  <1>8. /\ server' \in {server, taken}
        /\ spoiled \subseteq spoiled' /\ spoiled' \subseteq spoiled \cup {"failed"}
        /\ nb'.hash = nb.hash /\ nb'.href = nb.href
        /\ nb'.skip \subseteq nb.skip \cup ({r} \ {x \in {r} : offered})
        /\ nb' \in [report : Reports, hash : Int, href : 0..2, skip : SUBSET Resources]
    <2>1. nb \in [report : Reports, hash : Int, href : 0..2, skip : SUBSET Resources]
      BY <1>1 DEF ReportTypes
    <2>2. CASE nb' = nb
      BY <1>7, <2>1, <2>2
    <2>3. CASE nb' = [nb EXCEPT !.skip = nb.skip \cup {r}] /\ ~offered
      <3>1. server' \in {server, taken}
        BY <1>7
      <3>2. spoiled \subseteq spoiled' /\ spoiled' \subseteq spoiled \cup {"failed"}
        BY <1>7
      <3>3. /\ nb'.hash = nb.hash /\ nb'.href = nb.href
            /\ nb'.skip = nb.skip \cup {r}
            /\ nb' \in [report : Reports, hash : Int, href : 0..2, skip : SUBSET Resources]
        BY <2>1, <2>3
      <3> QED
        BY <2>3, <3>1, <3>2, <3>3
    <2>4. CASE offered
      <3>1. nb' = nb
        BY <1>7, <2>4
      <3> QED
        BY <2>2, <3>1
    <2>5. CASE ~offered
      <3>1. nb' = nb \/ nb' = [nb EXCEPT !.skip = nb.skip \cup {r}]
        BY <1>7, <2>5
      <3> QED
        BY <2>2, <2>3, <2>5, <3>1
    <2> QED
      BY <2>4, <2>5
  <1>9. /\ job' \in [Threads -> [at : Places, cap : Int, ok : BOOLEAN]]
        /\ \A h \in Threads \ {g} : job'[h] = job[h]
        /\ job'[g].at = next /\ job'[g].cap = job[g].cap
        /\ job'[g].ok => job[g].ok
        /\ Running' = Running
    BY <1>4, <1>7
  <1>10. ReportTypes'
    BY <1>1, <1>2, <1>5, <1>8, <1>9 DEF ReportTypes
  <1>11. server'.home = server.home /\ server'.offers = server.offers
         /\ \A q \in Resources \ {r} : server'.holds[q] = server.holds[q]
    BY <1>5, <1>8
  <1>12. KnowsServer'
    BY <1>3, <1>8, <1>9, <1>11 DEF RecordInv, KnowsServer
  <1>13. AloneUnlessBeside'
    BY <1>8, <1>9 DEF RecordInv, AloneUnlessBeside
  <1>14. BatchHolds'
    <2> SUFFICES ASSUME "moved" \notin spoiled', "beside" \notin spoiled',
                        NEW h \in Running
                 PROVE  /\ "failed" \notin spoiled' => job'[h].ok
                        /\ job'[h].ok /\ job'[h].at \in {"set", "record"}
                              /\ "cap" \in server'.offers
                              => server'.holds["cap"] = job'[h].cap
                        /\ job'[h].ok /\ job'[h].at = "record" /\ "set" \in server'.offers
                              => server'.holds["set"] = job'[h].cap
      BY <1>9 DEF BatchHolds
    <2>1. "moved" \notin spoiled /\ "beside" \notin spoiled
      BY <1>8
    <2>2. h = g
      BY <1>3, <2>1 DEF RecordInv, AloneUnlessBeside
    <2>3. nb.href = server.home /\ nb.skip \cap server.offers = {} /\ nb.href # Nowhere
      BY <1>1, <1>3, <2>1 DEF RecordInv, KnowsServer, ReportTypes, Nowhere
    <2>4. "failed" \notin spoiled' => job'[g].ok
      <3> SUFFICES ASSUME "failed" \notin spoiled' PROVE job'[g].ok
        OBVIOUS
      <3>1. job' = Then(TRUE)
        BY <1>7, <2>3
      <3>2. job[g].ok
        BY <1>3, <1>8, <2>1 DEF RecordInv, BatchHolds
      <3> QED
        BY <1>4, <3>1, <3>2
    <2>5. job'[g].ok /\ r \in server.offers => server'.holds[r] = job[g].cap
      <3> SUFFICES ASSUME job'[g].ok, r \in server.offers
                   PROVE  server'.holds[r] = job[g].cap
        OBVIOUS
      <3>1. job' # Then(FALSE)
        BY <1>4
      <3>2. server' = taken
        BY <1>7, <2>3, <3>1
      <3> QED
        BY <1>5, <2>3, <3>2
    <2>6. job[g].ok /\ job[g].at = "set" /\ "cap" \in server.offers
             => server.holds["cap"] = job[g].cap
      BY <1>3, <2>1 DEF RecordInv, BatchHolds
    <2>7. CASE r = "cap"
      BY <1>9, <1>11, <2>2, <2>4, <2>5, <2>7
    <2>8. CASE r = "set"
      BY <1>2, <1>9, <1>11, <2>2, <2>4, <2>5, <2>6, <2>8 DEF Resources
    <2> QED
      BY <2>7, <2>8 DEF Resources
  <1>15. RecordIsTrue'
    BY <1>3, <1>9 DEF RecordIsTrue
  <1> QED
    BY <1>10, <1>12, <1>13, <1>14, <1>15 DEF RecordInv

LEMMA EndKeepsRecord ==
  ASSUME RecordInv, NEW g \in Threads, BatchEnds(g) PROVE RecordInv'
  <1>1. ReportTypes
    BY DEF RecordInv
  <1>2. /\ UNCHANGED <<truth, meas, base, pending, topic, server>>
        /\ job[g].at = "record" /\ job' = [job EXCEPT ![g] = Idle]
        /\ nb' = IF job[g].ok THEN [nb EXCEPT !.hash = job[g].cap] ELSE nb
        /\ spoiled' = IF job[g].ok THEN spoiled \ {"failed"} ELSE spoiled
    BY DEF BatchEnds
  <1>3. /\ job' \in [Threads -> [at : Places, cap : Int, ok : BOOLEAN]]
        /\ \A h \in Threads \ {g} : job'[h] = job[h]
        /\ job'[g].at = "idle"
    BY <1>1, <1>2 DEF ReportTypes, Idle, Places
  <1>4. Running' = Running \ {g} /\ g \in Running
    BY <1>2, <1>3 DEF Running
  <1>5. /\ nb' \in [report : Reports, hash : Int, href : 0..2, skip : SUBSET Resources]
        /\ nb'.href = nb.href /\ nb'.skip = nb.skip
        /\ nb'.hash = IF job[g].ok THEN job[g].cap ELSE nb.hash
    BY <1>1, <1>2 DEF ReportTypes
  <1>6. ReportTypes'
    BY <1>1, <1>2, <1>3, <1>5 DEF ReportTypes
  <1>7. KnowsServer'
    BY <1>2, <1>4, <1>5 DEF RecordInv, KnowsServer
  <1>8. AloneUnlessBeside'
    BY <1>2, <1>4 DEF RecordInv, AloneUnlessBeside
  <1>9. "beside" \notin spoiled' => Running' = {}
    BY <1>2, <1>4 DEF RecordInv, AloneUnlessBeside
  <1>10. BatchHolds'
    BY <1>9 DEF BatchHolds
  <1>11. RecordIsTrue'
    <2> SUFFICES ASSUME spoiled' = {}, NEW r \in server.offers
                 PROVE  server.holds[r] = nb'.hash
      BY <1>2 DEF RecordIsTrue
    <2>1. "moved" \notin spoiled /\ "beside" \notin spoiled
      BY <1>2
    <2>2. job[g].ok
      <3> SUFFICES ASSUME ~job[g].ok PROVE FALSE
        OBVIOUS
      <3>1. "failed" \notin spoiled
        BY <1>2
      <3> QED
        BY <1>4, <2>1, <3>1 DEF RecordInv, BatchHolds
    <2>3. r \in {"cap", "set"}
      BY <1>1 DEF ReportTypes, Resources
    <2>4. server.holds[r] = job[g].cap
      BY <1>2, <1>4, <2>1, <2>2, <2>3 DEF RecordInv, BatchHolds
    <2> QED
      BY <1>5, <2>2, <2>4
  <1> QED
    BY <1>6, <1>7, <1>8, <1>10, <1>11 DEF RecordInv

\* When no batch runs, none failed since the record was made or ran beside
\* another, and the server stayed where it was, then what northbound has on
\* record is what every resource the server offers holds (derreport.go
\* lastCapSetHash), for any number of changes, failed and half-failed PUTs,
\* restarts and moves.
THEOREM RecordStaysTrue == SpecSite => []RecordIsTrue
  <1>1. RecordInv /\ [NextSite]_siteVars => RecordInv'
    <2> SUFFICES ASSUME RecordInv, [NextSite]_siteVars PROVE RecordInv'
      OBVIOUS
    <2>1. CASE UNCHANGED siteVars
      <3>1. Running' = Running
        BY <2>1 DEF siteVars, Running
      <3>2. ReportTypes'
        BY <2>1 DEF siteVars, RecordInv, ReportTypes
      <3> QED
        BY <2>1, <3>1, <3>2, RecordUntouched DEF siteVars
    <2>2. ASSUME NEW g \in Threads, Batch(g) PROVE RecordInv'
      <3>1. CASE BatchStarts(g)
        BY <2>2, <3>1, StartKeepsRecord
      <3>2. CASE PutResource(g, "cap", "set")
        <4>1. PICK r \in Resources, next \in {"set", "record"} :
                  r = "cap" /\ next = "set"
          BY DEF Resources
        <4>2. PutResource(g, r, next)
          BY <3>2, <4>1
        <4> QED
          BY <2>2, <4>1, <4>2, PutKeepsRecord
      <3>3. CASE PutResource(g, "set", "record")
        <4>1. PICK r \in Resources, next \in {"set", "record"} :
                  r = "set" /\ next = "record"
          BY DEF Resources
        <4>2. PutResource(g, r, next)
          BY <3>3, <4>1
        <4> QED
          BY <2>2, <4>1, <4>2, PutKeepsRecord
      <3>4. CASE BatchEnds(g)
        BY <2>2, <3>4, EndKeepsRecord
      <3> QED
        BY <2>2, <3>1, <3>2, <3>3, <3>4 DEF Batch
    <2> QED
      BY <2>1, <2>2, HubKeepsRecord, WalkKeepsRecord, UpheavalKeepsRecord DEF NextSite
  <1> QED
    BY <1>1, RecordStarts, PTL DEF SpecSite, RecordInv
-----------------------------------------------------------------------------
(* No edge is told twice.                                                  *)

ToldIsSeen ==
    "twice" \notin excused =>
        \A i \in DOMAIN utility.told : utility.told[i] \in poster.seen

ToldInv ==
    /\ \E K : utility.told \in Seq(K)
    /\ utility = [last |-> utility.last, told |-> utility.told]
    /\ poster = [path |-> poster.path, seen |-> poster.seen]
    /\ ToldIsSeen /\ ToldOnce

\* A POST under a key that nobody had confirmed before.
LEMMA PostKeepsTold ==
  ASSUME ToldInv, NEW e, NEW times \in {1, 2},
         utility' = AfterPosts(e, times), poster' = Confirmed(e),
         e.key \notin poster.seen,
         excused \subseteq excused',
         times = 2 => "twice" \in excused'
  PROVE  ToldInv'
  <1> DEFINE more == [i \in 1..times |-> e.key]
             said == utility.told
  <1>1. PICK K : said \in Seq(K)
    BY DEF ToldInv
  <1>2. said \in Seq(K \cup {e.key}) /\ more \in Seq(K \cup {e.key}) /\ Len(more) = times
    BY <1>1
  <1>3. /\ utility' = [last |-> utility'.last, told |-> said \o more]
        /\ poster' = [path |-> poster.path, seen |-> poster.seen \cup {e.key}]
    BY DEF ToldInv, AfterPosts, Confirmed
  <1>4. utility'.told = said \o more /\ poster'.seen = poster.seen \cup {e.key}
    BY <1>3
  <1>5. /\ said \o more \in Seq(K \cup {e.key})
        /\ Len(said \o more) = Len(said) + times
        /\ \A i \in 1..Len(said) + times :
              (said \o more)[i] = IF i <= Len(said) THEN said[i] ELSE more[i - Len(said)]
    BY <1>2, ConcatProperties
  <1> HIDE DEF said, more
  <1>6. Len(said) \in Nat /\ DOMAIN said = 1..Len(said)
    BY <1>1
  <1>7. /\ \E J : utility'.told \in Seq(J)
        /\ utility' = [last |-> utility'.last, told |-> utility'.told]
        /\ poster' = [path |-> poster'.path, seen |-> poster'.seen]
    BY <1>3, <1>4, <1>5
  <1>8. CASE times = 2
    BY <1>7, <1>8 DEF ToldInv, ToldIsSeen, ToldOnce
  <1>9. CASE times = 1 /\ "twice" \notin excused'
    <2>1. DOMAIN utility'.told = 1..(Len(said) + 1)
      BY <1>4, <1>5, <1>9
    <2>2. /\ \A i \in DOMAIN said : utility'.told[i] = said[i]
          /\ utility'.told[Len(said) + 1] = e.key
      <3>1. more[1] = e.key
        BY <1>9 DEF more
      <3>2. \A i \in DOMAIN said : i \in 1..Len(said) + times /\ i <= Len(said)
        BY <1>6, <1>9
      <3>3. /\ Len(said) + 1 \in 1..Len(said) + times
            /\ ~(Len(said) + 1 <= Len(said)) /\ (Len(said) + 1) - Len(said) = 1
        BY <1>6, <1>9
      <3> QED
        BY <1>4, <1>5, <3>1, <3>2, <3>3
    <2>3. \A i \in DOMAIN utility'.told : i \in DOMAIN said \/ i = Len(said) + 1
      BY <1>6, <2>1
    <2>4. \A i \in DOMAIN said : said[i] \in poster.seen
      BY <1>9 DEF ToldInv, ToldIsSeen, said
    <2>5. \A i, j \in DOMAIN said : said[i] = said[j] => i = j
      BY <1>9 DEF ToldInv, ToldOnce, said
    <2>6. ToldIsSeen'
      BY <1>4, <2>2, <2>3, <2>4 DEF ToldIsSeen
    <2>7. ToldOnce'
      <3> SUFFICES ASSUME NEW i \in DOMAIN utility'.told, NEW j \in DOMAIN utility'.told,
                          utility'.told[i] = utility'.told[j]
                   PROVE  i = j
        BY DEF ToldOnce
      <3> QED
        BY <2>2, <2>3, <2>4, <2>5
    <2> QED
      BY <1>7, <2>6, <2>7 DEF ToldInv
  <1>10. CASE "twice" \in excused'
    BY <1>7, <1>10 DEF ToldInv, ToldIsSeen, ToldOnce
  <1> QED
    BY <1>8, <1>9, <1>10

\* An edge the utility has confirmed is not POSTed again, however often the
\* broker hands it over and whatever the bits and the episodes do, unless an
\* answer was lost or the poster restarted (logevent.go Manager.seen).
THEOREM NoEdgeTwice == SpecAlarms => []ToldOnce
  <1>1. InitAlarms => ToldInv
    <2> SUFFICES ASSUME InitAlarms PROVE ToldInv
      OBVIOUS
    <2>1. utility.told = << >> /\ << >> \in Seq({}) /\ DOMAIN utility.told = {}
      BY DEF InitAlarms
    <2> QED
      BY <2>1 DEF InitAlarms, ToldInv, ToldIsSeen, ToldOnce, FreshPoster
  <1>2. ToldInv /\ [NextAlarms]_alarmVars => ToldInv'
    <2> SUFFICES ASSUME ToldInv, [NextAlarms]_alarmVars PROVE ToldInv'
      OBVIOUS
    <2>1. ASSUME UNCHANGED <<utility, poster>>, excused \subseteq excused'
          PROVE  ToldInv'
      BY <2>1 DEF ToldInv, ToldIsSeen, ToldOnce
    <2>2. CASE \/ UNCHANGED alarmVars \/ BitFlips \/ OnSample \/ OnBreachAlert
               \/ DetectorRestarts \/ Redelivered
      <3>1. UNCHANGED <<utility, poster>> /\ excused \subseteq excused'
        BY <2>2 DEF alarmVars, BitFlips, OnSample, OnBreachAlert, DetectorRestarts,
                    Redelivered
      <3> QED
        BY <2>1, <3>1
    <2>3. CASE PathFound
      <3>1. /\ UNCHANGED <<utility, excused>>
            /\ poster' = [path |-> TRUE, seen |-> poster.seen]
        BY <2>3 DEF PathFound, ToldInv
      <3> QED
        BY <3>1 DEF ToldInv, ToldIsSeen, ToldOnce
    <2>4. CASE PosterRestarts
      <3>1. UNCHANGED utility /\ "twice" \in excused' /\ poster' = [path |-> FALSE, seen |-> {}]
        BY <2>4 DEF PosterRestarts, FreshPoster
      <3> QED
        BY <3>1 DEF ToldInv, ToldIsSeen, ToldOnce
    <2>5. CASE HandleLogEvent
      <3>1. PICK e :
              \/ UNCHANGED <<utility, poster>> /\ excused \subseteq excused'
              \/ /\ e.key \notin poster.seen /\ UNCHANGED excused
                 /\ utility' = AfterPosts(e, 1) /\ poster' = Confirmed(e)
              \/ /\ e.key \notin poster.seen /\ excused' = excused \cup {"twice"}
                 /\ utility' = AfterPosts(e, 2) /\ poster' = Confirmed(e)
        BY <2>5 DEF HandleLogEvent, Dropped
      <3>2. CASE UNCHANGED <<utility, poster>> /\ excused \subseteq excused'
        BY <2>1, <3>2
      <3>3. CASE /\ e.key \notin poster.seen /\ UNCHANGED excused
                 /\ utility' = AfterPosts(e, 1) /\ poster' = Confirmed(e)
        BY <3>3, PostKeepsTold
      <3>4. CASE /\ e.key \notin poster.seen /\ excused' = excused \cup {"twice"}
                 /\ utility' = AfterPosts(e, 2) /\ poster' = Confirmed(e)
        BY <3>4, PostKeepsTold
      <3> QED
        BY <3>1, <3>2, <3>3, <3>4
    <2> QED
      BY <2>2, <2>3, <2>4, <2>5 DEF NextAlarms
  <1> QED
    BY <1>1, <1>2, PTL DEF SpecAlarms, ToldInv

-----------------------------------------------------------------------------
(* The life of a control: who orders it, how a message about it is made,   *)
(* and how the hub counts once it is over.                                 *)

ControlSources == {"event", "default", "none", "nothing", "garbage"}
ControlSound(c) ==
    /\ c \in [mrid : Nat, source : ControlSources, until : Nat]
    /\ c.source = "event" => c.until > 0
MessageSound(m) ==
    /\ m \in [mrid : Nat, source : ControlSources, until : Nat, fallback : Nat, at : Int]
    /\ m.source = "event" => m.until > 0

LeaseTypes ==
    /\ clock \in Nat /\ {drift, skew} \subseteq Int /\ count \in Nat /\ ticked \in BOOLEAN
    /\ default \in {NoMRID, DefaultMRID}
    /\ served \in Seq(Event)
    /\ walk \in [at : {"idle", "paging", "assembled"}, got : SUBSET Event, all : Nat]
    /\ ControlSound(walkGood)
    /\ MessageSound(control) /\ MessageSound(retained) /\ MessageSound(saved)
    /\ MessageSound(lastPub) /\ MessageSound(handler)

\* Among finitely many events one outranks all.
LEMMA OneOutranks ==
  ASSUME NEW able \in SUBSET Event, able # {}
  PROVE  \E e \in able : \A o \in able : Outranks(e, o)
  <1>1. IsFiniteSet(able) /\ \A e \in Event : e \in Nat /\ Created[e] \in Nat
    <2>1. IsFiniteSet(Event)
      BY SchedulerAssumption
    <2> QED
      BY <2>1, FS_Subset, SchedulerAssumption
  <1> DEFINE Top(X) == \E e \in X : \A o \in X : Outranks(e, o)
             Bad == {X \in FiniteSubsetsOf(able) : X # {} /\ ~Top(X)}
  <1>2. IsWellFoundedOn(StrictSubsetOrdering(able), FiniteSubsetsOf(able))
    BY FS_StrictSubsetOrderingWellFounded
  <1>3. ASSUME Bad # {} PROVE FALSE
    <2>1. PICK X \in Bad : \A Y \in Bad : ~(<<Y, X>> \in StrictSubsetOrdering(able))
      <3>1. Bad \subseteq FiniteSubsetsOf(able)
        OBVIOUS
      <3> HIDE DEF Bad
      <3> QED
        BY <1>2, <1>3, <3>1, WFMin
    <2>2. X \subseteq able /\ IsFiniteSet(X) /\ X # {} /\ ~Top(X)
      BY <2>1 DEF FiniteSubsetsOf
    <2>3. PICK x : x \in X
      BY <2>2
    <2> DEFINE Y == X \ {x}
    <2>4. Y \in FiniteSubsetsOf(able) /\ <<Y, X>> \in StrictSubsetOrdering(able)
      BY <2>2, <2>3, FS_RemoveElement DEF FiniteSubsetsOf, StrictSubsetOrdering
    <2>5. Y = {} \/ Top(Y)
      BY <2>1, <2>4
    <2>6. x \in Nat /\ Created[x] \in Nat /\ \A o \in X : o \in Nat /\ Created[o] \in Nat
      BY <1>1, <2>2, <2>3
    <2>7. CASE Y = {}
      <3>1. X = {x}
        BY <2>3, <2>7
      <3>2. Outranks(x, x)
        BY <2>6 DEF Outranks
      <3> QED
        BY <2>2, <3>1, <3>2
    <2>8. CASE Top(Y)
      <3>1. PICK m \in Y : \A o \in Y : Outranks(m, o)
        BY <2>8
      <3>2. m \in X /\ \A o \in X : o = x \/ o \in Y
        BY <3>1
      <3> HIDE DEF Y
      <3>3. CASE Outranks(x, m)
        <4>1. \A o \in X : Outranks(x, o)
          BY <2>3, <2>6, <3>1, <3>2, <3>3 DEF Outranks
        <4> QED
          BY <2>2, <2>3, <4>1
      <3>4. CASE Outranks(m, x)
        BY <2>2, <3>1, <3>2, <3>4
      <3>5. Outranks(x, m) \/ Outranks(m, x)
        BY <2>6, <3>2 DEF Outranks
      <3> QED
        BY <3>3, <3>4, <3>5
    <2> QED
      BY <2>5, <2>7, <2>8
  <1>4. able \in FiniteSubsetsOf(able)
    BY <1>1 DEF FiniteSubsetsOf
  <1>5. Bad = {} => Top(able)
    BY <1>4
  <1> QED
    BY <1>3, <1>5

LEMMA ResolveSound ==
  ASSUME NEW got \in SUBSET Event, NEW d \in {NoMRID, DefaultMRID}, NEW found \in BOOLEAN,
         NEW cancelled, NEW garbled, NEW t \in Int
  PROVE  LET walked == [found |-> found, listed |-> got, cancelled |-> cancelled,
                        garbled |-> garbled, default |-> d]
             res == Resolve(walked, Win, t)
         IN  /\ ControlSound(res)
             /\ res.source = "event" \/ res.source = "default" \/ res = NoControl
  <1> DEFINE walked == [found |-> found, listed |-> got, cancelled |-> cancelled,
                        garbled |-> garbled, default |-> d]
             able == Candidates(walked, Win, t)
             best == CHOOSE e \in able : \A o \in able : Outranks(e, o)
             res == Resolve(walked, Win, t)
  <1>1. able \subseteq Event /\ \A e \in able : InWindow(Win[e], t)
    BY DEF Candidates, Live
  <1>2. ControlSound(NoControl) /\ ControlSound(DefaultControl) /\ DefaultControl.source = "default"
    BY SchedulerAssumption DEF ControlSound, NoControl, DefaultControl, NoMRID, ControlSources
  <1>3. ASSUME able # {} PROVE ControlSound(EventControl(best, Win)) /\ EventControl(best, Win).source = "event"
    <2>1. \E e \in able : \A o \in able : Outranks(e, o)
      BY <1>1, <1>3, OneOutranks
    <2> HIDE DEF able
    <2>2. best \in able
      BY <2>1
    <2> HIDE DEF best
    <2>3. best \in Event /\ InWindow(Win[best], t) /\ best \in Nat
      BY <1>1, <2>2, SchedulerAssumption
    <2>4. Win[best].start \in Nat /\ Win[best].dur \in Nat
      BY <2>3, WalkAssumption
    <2>5. Win[best].start + Win[best].dur > 0 /\ Win[best].start + Win[best].dur \in Nat
      BY <2>3, <2>4 DEF InWindow
    <2> QED
      BY <2>3, <2>5 DEF ControlSound, EventControl, ControlSources
  <1>4. \/ able # {} /\ res = EventControl(best, Win)
        \/ res = DefaultControl
        \/ res = NoControl
    <2> HIDE DEF able, walked
    <2> QED
      BY DEF Resolve, able
  <1> HIDE DEF able, best, walked, res
  <1>5. ControlSound(res) /\ (res.source = "event" \/ res.source = "default" \/ res = NoControl)
    BY <1>2, <1>3, <1>4
  <1> QED
    BY <1>5 DEF res, walked

LEMMA FailClosedChooses ==
  ASSUME NEW res, res.source = "event" \/ res.source = "default" \/ res = NoControl,
         NEW good, NEW holding, NEW walked, NEW t
  PROVE  LET out == FailClosed(res, good, holding, walked, t)
         IN  out.active = out.lastGood /\ out.active \in {NoControl, good, res}
  <1> DEFINE out == FailClosed(res, good, holding, walked, t)
             none == [active |-> NoControl, lastGood |-> NoControl]
             held == [active |-> good, lastGood |-> good]
             adopted == [active |-> res, lastGood |-> res]
  <1>1. out \in {none, held, adopted}
    <2>1. res = NoControl => res.source = "none"
      BY DEF NoControl
    <2> QED
      BY <2>1 DEF FailClosed
  <1> HIDE DEF out
  <1> QED
    BY <1>1 DEF out

LEMMA FailClosedSound ==
  ASSUME NEW res, ControlSound(res), res.source = "event" \/ res.source = "default" \/ res = NoControl,
         NEW good, ControlSound(good), NEW holding, NEW walked, NEW t
  PROVE  LET out == FailClosed(res, good, holding, walked, t)
         IN  ControlSound(out.active) /\ ControlSound(out.lastGood)
  <1> DEFINE out == FailClosed(res, good, holding, walked, t)
  <1>1. ControlSound(NoControl)
    BY DEF ControlSound, NoControl, NoMRID, ControlSources
  <1>2. out.active = out.lastGood /\ out.active \in {NoControl, good, res}
    BY FailClosedChooses
  <1> HIDE DEF out
  <1> QED
    BY <1>1, <1>2 DEF out

LEMMA PublishedSound ==
  ASSUME LeaseTypes, NEW walked, walked = Found \/ walked = NoTree, NEW t \in Int,
         NEW acked \in BOOLEAN, NEW reached \in BOOLEAN, Published(walked, t, acked, reached)
  PROVE  /\ ControlSound(walkGood') /\ MessageSound(lastPub') /\ MessageSound(retained')
         /\ walk' = NoWalk /\ drift' \in Int /\ handler' = handler
  <1> DEFINE res == Resolve(walked, Win, t)
             holding == Holding(walkHold, walkGood, walked, t)
             out == FailClosed(res, walkGood, holding, walked, t)
             m == ToActiveControl(out.active, t)
  <1>1. /\ walkGood' = out.lastGood
        /\ lastPub' = IF acked THEN m ELSE lastPub
        /\ retained' = IF reached THEN m ELSE retained
        /\ drift' = t - clock /\ walk' = NoWalk /\ handler' = handler
    BY DEF Published, Rested
  <1>2. \E got \in SUBSET Event, found \in BOOLEAN, d \in {NoMRID, DefaultMRID} :
           walked = [found |-> found, listed |-> got, cancelled |-> {}, garbled |-> {}, default |-> d]
    <2>1. CASE walked = NoTree
      BY <2>1 DEF NoTree
    <2>2. CASE walked = Found
      <3>1. walk.got \in SUBSET Event /\ default \in {NoMRID, DefaultMRID}
        BY DEF LeaseTypes
      <3>2. walked = [found |-> TRUE, listed |-> walk.got, cancelled |-> {}, garbled |-> {}, default |-> default]
        BY <2>2 DEF Found, NoTree
      <3> QED
        BY <3>1, <3>2
    <2> QED
      BY <2>1, <2>2
  <1>3. ControlSound(res) /\ (res.source = "event" \/ res.source = "default" \/ res = NoControl)
    BY <1>2, ResolveSound
  <1>4. ControlSound(walkGood)
    BY DEF LeaseTypes
  <1> HIDE DEF res, holding
  <1>5. ControlSound(out.active) /\ ControlSound(out.lastGood)
    BY <1>3, <1>4, FailClosedSound
  <1> HIDE DEF out
  <1>6. MessageSound(m) /\ m.source = out.active.source
    <2>1. default \in Nat /\ NoMRID \in Nat
      BY SchedulerAssumption DEF LeaseTypes, NoMRID
    <2> QED
      BY <1>5, <2>1 DEF MessageSound, ControlSound, ToActiveControl
  <1>7. clock \in Int /\ MessageSound(lastPub) /\ MessageSound(retained)
    BY DEF LeaseTypes
  <1> HIDE DEF m
  <1>8. MessageSound(lastPub') /\ MessageSound(retained')
    BY <1>1, <1>6, <1>7
  <1> QED
    BY <1>1, <1>5, <1>7, <1>8

-----------------------------------------------------------------------------
(* The debounce.                                                           *)

\* When the control is over, as far as anybody has said.
Over == IF control.until > control.at THEN control.until ELSE control.at
\* From then on every tick of the hub is counted.
Counting ==
    control.source = "event" /\ skew >= 0 /\ clock > Over =>
        /\ clock - Over <= count + 1 /\ clock - Over <= HubConfirm
        /\ ticked => clock - Over <= count /\ count < HubConfirm

LeaseInv == LeaseTypes /\ Counting

LEMMA ControlArrives ==
  ASSUME LeaseInv, NEW m, MessageSound(m), OnControl(m), UNCHANGED <<clock, ticked>>
  PROVE  /\ MessageSound(control') /\ skew' \in Int /\ count' = count /\ Counting'
  <1>1. CASE m = Garbage
    <2>1. control' = control /\ skew' = skew /\ count' = count
      BY <1>1 DEF OnControl
    <2> QED
      BY <2>1 DEF LeaseInv, LeaseTypes, Counting, Over
  <1>2. CASE m # Garbage
    <2>1. control' = m /\ skew' = m.at - clock /\ count' = count
      BY <1>2 DEF OnControl
    <2>2. clock \in Nat /\ m.at \in Int /\ m.until \in Nat
      BY DEF LeaseInv, LeaseTypes, MessageSound
    <2>3. skew' >= 0 => ~(clock' > Over')
      BY <2>1, <2>2 DEF Over
    <2> QED
      BY <2>1, <2>2, <2>3 DEF Counting
  <1> QED
    BY <1>1, <1>2

LEMMA ExpiryCounts ==
  ASSUME LeaseInv, ~ticked, ticked' = TRUE, clock' = clock, Expiry
  PROVE  /\ MessageSound(control') /\ count' \in Nat /\ skew' = skew /\ Counting'
  <1> DEFINE expired == Expired(control, clock + skew)
             over == expired /\ count + 1 >= HubConfirm
  <1>1. /\ count' = IF ~expired THEN 0 ELSE IF over THEN HubConfirm ELSE count + 1
        /\ control' = CASE over /\ control.fallback # NoMRID -> Fallback(control)
                        [] over /\ control.fallback = NoMRID -> Nothing
                        [] ~over -> control
        /\ skew' = skew
    BY DEF Expiry
  <1>2. /\ clock \in Nat /\ skew \in Int /\ count \in Nat /\ MessageSound(control)
        /\ control.until \in Nat /\ control.at \in Int /\ control.fallback \in Nat
        /\ HubConfirm \in Nat
    BY CacheAssumption DEF LeaseInv, LeaseTypes, MessageSound
  <1>3. expired <=> control.until # 0 /\ clock + skew >= control.until
    BY DEF Expired
  <1> HIDE DEF expired
  <1>4. CASE over
    <2>1. control' = Fallback(control) \/ control' = Nothing
      BY <1>1, <1>4
    <2>2. MessageSound(Fallback(control)) /\ MessageSound(Nothing)
      BY <1>2 DEF MessageSound, Fallback, Nothing, NoMRID, ControlSources
    <2>3. control'.source # "event"
      BY <2>1 DEF Fallback, Nothing
    <2>4. count' \in Nat
      BY <1>1, <1>2
    <2> QED
      BY <1>1, <2>1, <2>2, <2>3, <2>4 DEF Counting
  <1>5. CASE ~over
    <2>1. control' = control /\ count' = IF ~expired THEN 0 ELSE count + 1
      BY <1>1, <1>5
    <2>2. ASSUME control.source = "event", skew >= 0, clock > Over
          PROVE  expired /\ clock - Over <= count + 1 /\ clock - Over <= HubConfirm
      <3>1. control.until > 0 /\ clock >= control.until
        BY <1>2, <2>2 DEF MessageSound, Over
      <3>2. clock - Over <= count + 1 /\ clock - Over <= HubConfirm
        BY <2>2 DEF LeaseInv, Counting
      <3>3. control.until # 0 /\ clock + skew >= control.until
        BY <1>2, <2>2, <3>1
      <3>4. expired
        BY <1>3, <3>3, Zenon
      <3> QED
        BY <3>2, <3>4
    <2>3. expired => count + 1 < HubConfirm
      BY <1>2, <1>5
    <2>4. Over' = Over
      BY <2>1 DEF Over
    <2>5. Counting'
      <3>1. Over \in Int /\ clock' = clock /\ skew' = skew /\ ticked'
        BY <1>1, <1>2 DEF Over
      <3> SUFFICES ASSUME control.source = "event", skew >= 0, clock > Over
                   PROVE  /\ clock - Over <= count' + 1 /\ clock - Over <= HubConfirm
                          /\ clock - Over <= count' /\ count' < HubConfirm
        BY <2>1, <2>4, <3>1 DEF Counting
      <3>2. count' = count + 1 /\ count' < HubConfirm
        BY <2>1, <2>2, <2>3
      <3> QED
        BY <1>2, <2>2, <3>1, <3>2
    <2> QED
      BY <1>1, <1>2, <2>1, <2>5
  <1> QED
    BY <1>4, <1>5

LEMMA TimeCounts ==
  ASSUME LeaseInv, TimePasses
  PROVE  LeaseInv'
  <1>1. /\ clock' = clock + 1 /\ ticked /\ ticked' = FALSE
        /\ UNCHANGED <<serverVars, walkVars, retained, cacheVars, saved>>
    BY DEF TimePasses, envVars
  <1>2. /\ clock \in Nat /\ count \in Nat /\ HubConfirm \in Nat /\ HubConfirm >= 2
        /\ control.until \in Nat /\ control.at \in Int
    BY CacheAssumption DEF LeaseInv, LeaseTypes, MessageSound
  <1>3. Over' = Over /\ Over \in Int
    BY <1>1, <1>2 DEF Over, cacheVars
  <1>4. LeaseTypes'
    <2>1. clock' \in Nat
      BY <1>1, <1>2
    <2> QED
      BY <1>1, <2>1 DEF LeaseInv, LeaseTypes, serverVars, walkVars, cacheVars
  <1>5. Counting'
    <2>1. control' = control /\ skew' = skew /\ count' = count
      BY <1>1 DEF cacheVars
    <2>2. ASSUME control.source = "event", skew >= 0, clock + 1 > Over
          PROVE  clock + 1 - Over <= count + 1 /\ clock + 1 - Over <= HubConfirm
      <3>1. CASE clock > Over
        <4>1. clock - Over <= count /\ count < HubConfirm
          BY <1>1, <2>2, <3>1 DEF LeaseInv, Counting
        <4> QED
          BY <1>2, <1>3, <4>1
      <3>2. CASE ~(clock > Over)
        BY <1>2, <1>3, <2>2, <3>2
      <3> QED
        BY <3>1, <3>2
    <2>3. /\ control'.source = control.source /\ skew' = skew /\ clock' = clock + 1
          /\ Over' = Over /\ count' = count
      BY <1>1, <1>3, <2>1
    <2>4. control'.source = "event" /\ skew' >= 0 /\ clock' > Over' =>
             clock' - Over' <= count' + 1 /\ clock' - Over' <= HubConfirm
      <3>1. control.source = "event" /\ skew >= 0 /\ clock + 1 > Over =>
               clock + 1 - Over <= count + 1 /\ clock + 1 - Over <= HubConfirm
        BY <2>2
      <3> QED
        BY <1>2, <1>3, <2>3, <3>1
    <2>5. ~ticked'
      BY <1>1, Zenon
    <2>6. ~ticked' => (Counting' <=>
             (control'.source = "event" /\ skew' >= 0 /\ clock' > Over' =>
                clock' - Over' <= count' + 1 /\ clock' - Over' <= HubConfirm))
      BY Zenon DEF Counting
    <2> QED
      BY <2>4, <2>5, <2>6, Zenon
  <1> QED
    BY <1>4, <1>5 DEF LeaseInv

\* Steps that touch neither the hub's control nor its clock.
LEMMA QuietLease ==
  ASSUME LeaseInv, UNCHANGED <<clock, control, skew, count, ticked>>, LeaseTypes'
  PROVE  LeaseInv'
  BY DEF LeaseInv, Counting, Over

LEMMA NothingSound ==
  /\ MessageSound(Nothing) /\ MessageSound(Garbage) /\ ControlSound(NoControl)
  /\ Nothing.source = "nothing" /\ Garbage # Nothing
  BY DEF MessageSound, ControlSound, Nothing, Garbage, NoControl, NoMRID, ControlSources

\* A message reaches the hub, and nothing else about it changes.
LEMMA ArrivalKeeps ==
  ASSUME LeaseInv, NEW m, MessageSound(m), OnControl(m), UNCHANGED <<clock, ticked, default, served>>,
         walk' \in [at : {"idle", "paging", "assembled"}, got : SUBSET Event, all : Nat],
         drift' \in Int, ControlSound(walkGood'),
         MessageSound(retained'), MessageSound(saved'), MessageSound(lastPub'), MessageSound(handler')
  PROVE  LeaseInv'
  <1>1. MessageSound(control') /\ skew' \in Int /\ count' = count /\ Counting'
    BY ControlArrives
  <1>2. LeaseTypes'
    BY <1>1 DEF LeaseInv, LeaseTypes
  <1> QED
    BY <1>1, <1>2 DEF LeaseInv

\* The walk.
LEMMA PageOfEvents ==
  ASSUME LeaseTypes, NEW n \in Nat
  PROVE  Elements(Page(n)) \subseteq Event
  <1> DEFINE final == IF n + PageSize > Len(served) THEN Len(served) ELSE n + PageSize
  <1>1. served \in Seq(Event) /\ PageSize \in Nat /\ Len(served) \in Nat
    BY WalkAssumption DEF LeaseTypes
  <1>2. final \in Nat /\ final <= Len(served)
    BY <1>1
  <1>3. Page(n) = SubSeq(served, n + 1, final)
    BY DEF Page
  <1> HIDE DEF final
  <1>4. \A i \in DOMAIN Page(n) : Page(n)[i] \in Event
    <2>1. CASE n + 1 > final
      <3>1. Page(n) = <<>>
        BY <1>1, <1>2, <1>3, <2>1
      <3> QED
        BY <3>1
    <2>2. CASE n + 1 <= final
      <3>1. Page(n) \in Seq(Event)
        BY <1>1, <1>2, <1>3, <2>2
      <3> QED
        BY <3>1
    <2> QED
      BY <1>2, <2>1, <2>2
  <1> QED
    BY <1>4 DEF Elements

LEMMA WalkKeeps ==
  ASSUME LeaseInv, WalkStep
  PROVE  LeaseInv'
  <1>1. /\ UNCHANGED <<clock, control, skew, count, ticked>>
        /\ UNCHANGED <<served, default, retained, saved, lastPub, handler, walkGood, drift>>
    BY DEF WalkStep, BeginWalk, NextPage, WalkFails, serverVars, cacheVars, envVars
  <1>2. LeaseTypes
    BY DEF LeaseInv
  <1>3. walk' \in [at : {"idle", "paging", "assembled"}, got : SUBSET Event, all : Nat]
    <2>1. CASE BeginWalk
      <3>1. walk' = FirstPage
        BY <2>1 DEF BeginWalk
      <3>2. Elements(Page(0)) \subseteq Event /\ Len(served) \in Nat
        BY <1>2, PageOfEvents DEF LeaseTypes
      <3> QED
        BY <3>1, <3>2 DEF FirstPage
    <2>2. CASE NextPage
      <3>1. walk.got \in SUBSET Event /\ walk.all \in Nat
        BY <1>2 DEF LeaseTypes
      <3>2. Cardinality(walk.got) \in Nat
        <4>1. IsFiniteSet(walk.got)
          BY <3>1, SchedulerAssumption, FS_Subset
        <4> QED
          BY <4>1, FS_CardinalityType
      <3> DEFINE got == walk.got \cup Elements(Page(Cardinality(walk.got)))
      <3>3. got \in SUBSET Event
        BY <1>2, <3>1, <3>2, PageOfEvents
      <3>4. \E a \in {"paging", "assembled"} : walk' = [walk EXCEPT !.got = got, !.at = a]
        BY <2>2 DEF NextPage
      <3> HIDE DEF got
      <3>5. walk \in [at : {"idle", "paging", "assembled"}, got : SUBSET Event, all : Nat]
        BY <1>2 DEF LeaseTypes
      <3> QED
        BY <3>3, <3>4, <3>5
    <2>3. CASE WalkFails
      BY <2>3 DEF WalkFails, Rested, NoWalk
    <2> QED
      BY <2>1, <2>2, <2>3 DEF WalkStep
  <1>4. LeaseTypes'
    BY <1>1, <1>2, <1>3 DEF LeaseTypes
  <1> QED
    BY <1>1, <1>4, QuietLease

\* A publish of the walk: it reaches the hub, or nobody.
LEMMA PublishedKeeps ==
  ASSUME LeaseInv, NEW walked, walked = Found \/ walked = NoTree, NEW t \in Int,
         NEW acked \in BOOLEAN, NEW reached \in BOOLEAN, Published(walked, t, acked, reached),
         OnControl(retained') \/ (UNCHANGED cacheVars),
         UNCHANGED <<clock, ticked, default, served, saved>>
  PROVE  LeaseInv'
  <1>1. LeaseTypes
    BY DEF LeaseInv
  <1>2. /\ ControlSound(walkGood') /\ MessageSound(lastPub') /\ MessageSound(retained')
        /\ walk' = NoWalk /\ drift' \in Int /\ handler' = handler
    BY <1>1, PublishedSound
  <1>3. walk' \in [at : {"idle", "paging", "assembled"}, got : SUBSET Event, all : Nat]
    BY <1>2 DEF NoWalk
  <1>4. MessageSound(handler') /\ MessageSound(saved')
    BY <1>1, <1>2 DEF LeaseTypes
  <1>5. CASE OnControl(retained')
    BY <1>2, <1>3, <1>4, <1>5, ArrivalKeeps
  <1>6. CASE UNCHANGED cacheVars
    <2>1. UNCHANGED <<clock, control, skew, count, ticked>>
      BY <1>6 DEF cacheVars
    <2>2. LeaseTypes'
      BY <1>1, <1>2, <1>3, <1>4, <2>1 DEF LeaseTypes
    <2> QED
      BY <2>1, <2>2, QuietLease
  <1> QED
    BY <1>5, <1>6

LEMMA PublishKeeps ==
  ASSUME LeaseInv, WalkPublishes \/ PublishGlitched \/ PublishFrozen \/ PublishTimesOut
  PROVE  LeaseInv'
  <1>1. UNCHANGED <<clock, ticked, default, served, saved>>
    BY DEF WalkPublishes, PublishGlitched, PublishFrozen, PublishTimesOut, serverVars, envVars
  <1>2. clock \in Int /\ clock + Misreading \in Int
    BY WalkAssumption DEF LeaseInv, LeaseTypes
  <1>3. \E walked \in {Found, NoTree}, t \in Int, acked, reached \in BOOLEAN :
           /\ Published(walked, t, acked, reached)
           /\ OnControl(retained') \/ UNCHANGED cacheVars
    <2>1. CASE WalkPublishes
      BY <1>2, <2>1 DEF WalkPublishes
    <2>2. CASE PublishGlitched
      BY <1>2, <2>2 DEF PublishGlitched
    <2>3. CASE PublishFrozen
      BY <1>2, <2>3 DEF PublishFrozen
    <2>4. CASE PublishTimesOut
      BY <1>2, <2>4 DEF PublishTimesOut
    <2> QED
      BY <2>1, <2>2, <2>3, <2>4
  <1> QED
    BY <1>1, <1>3, PublishedKeeps

LEMMA RewalkKeeps ==
  ASSUME LeaseInv, HandlesRewalk \/ RewalkPublishes
  PROVE  LeaseInv'
  <1>1. LeaseTypes
    BY DEF LeaseInv
  <1>2. CASE HandlesRewalk
    <2>1. /\ UNCHANGED <<clock, control, skew, count, ticked>>
          /\ UNCHANGED <<served, default, retained, saved, lastPub, walk, walkGood, drift>>
      BY <1>2 DEF HandlesRewalk, RewalkRequested, serverVars, envVars
    <2>2. MessageSound(handler')
      <3>1. MessageSound(lastPub) /\ MessageSound(handler) /\ clock + drift \in Int
        BY <1>1 DEF LeaseTypes
      <3>2. MessageSound([lastPub EXCEPT !.at = clock + drift])
        BY <3>1 DEF MessageSound
      <3>3. handler' \in {handler, Nothing, [lastPub EXCEPT !.at = clock + drift]}
        BY <1>2 DEF HandlesRewalk, RewalkRequested
      <3> QED
        BY <3>1, <3>2, <3>3, NothingSound
    <2>3. LeaseTypes'
      BY <1>1, <2>1, <2>2 DEF LeaseTypes
    <2> QED
      BY <2>1, <2>3, QuietLease
  <1>3. CASE RewalkPublishes
    <2>1. /\ UNCHANGED <<clock, ticked, default, served, saved, walk, drift, walkGood>>
          /\ retained' = handler /\ lastPub' = handler /\ handler' = Nothing
          /\ OnControl(retained')
      BY <1>3 DEF RewalkPublishes, RewalkPublished, serverVars, envVars
    <2>2. /\ MessageSound(retained') /\ MessageSound(lastPub') /\ MessageSound(handler')
          /\ MessageSound(saved') /\ ControlSound(walkGood') /\ drift' \in Int
          /\ walk' \in [at : {"idle", "paging", "assembled"}, got : SUBSET Event, all : Nat]
      BY <1>1, <2>1, NothingSound DEF LeaseTypes
    <2> QED
      BY <2>1, <2>2, ArrivalKeeps
  <1> QED
    BY <1>2, <1>3

LEMMA TickKeeps ==
  ASSUME LeaseInv, HubTicks
  PROVE  LeaseInv'
  <1>1. /\ ~ticked /\ ticked' = TRUE /\ Expiry
        /\ UNCHANGED <<clock, served, default, retained, saved, lastPub, handler, walk, walkGood, drift>>
    BY DEF HubTicks, serverVars, walkVars, envVars
  <1>2. MessageSound(control') /\ count' \in Nat /\ skew' = skew /\ Counting'
    BY <1>1, ExpiryCounts
  <1>3. ticked' \in BOOLEAN
    BY <1>1, Zenon
  <1>4. LeaseTypes'
    BY <1>1, <1>2, <1>3 DEF LeaseInv, LeaseTypes
  <1> QED
    BY <1>2, <1>4 DEF LeaseInv

LEMMA ListKeeps ==
  ASSUME LeaseInv, NEW e \in Event, Adds(e) \/ Withdraws(e)
  PROVE  LeaseInv'
  <1>1. LeaseTypes
    BY DEF LeaseInv
  <1>2. served \in Seq(Event)
    BY <1>1 DEF LeaseTypes
  <1>3. \E list \in Seq(Event) : Edits(list)
    <2>1. CASE Adds(e)
      <3>1. Append(served, e) \in Seq(Event)
        BY <1>2
      <3> QED
        BY <2>1, <3>1 DEF Adds
    <2>2. CASE Withdraws(e)
      <3>1. PICK i \in DOMAIN served :
               Edits(SubSeq(served, 1, i - 1) \o SubSeq(served, i + 1, Len(served)))
        BY <2>2 DEF Withdraws
      <3>2. i \in 1 .. Len(served) /\ Len(served) \in Nat
        BY <1>2
      <3>3. SubSeq(served, 1, i - 1) \in Seq(Event) /\ SubSeq(served, i + 1, Len(served)) \in Seq(Event)
        BY <1>2, <3>2
      <3>4. SubSeq(served, 1, i - 1) \o SubSeq(served, i + 1, Len(served)) \in Seq(Event)
        BY <3>3
      <3> QED
        BY <3>1, <3>4
    <2> QED
      BY <2>1, <2>2
  <1>4. PICK list \in Seq(Event) : Edits(list)
    BY <1>3
  <1>5. /\ UNCHANGED <<clock, control, skew, count, ticked>> /\ served' = list
        /\ UNCHANGED <<default, retained, saved, lastPub, handler, walk, walkGood, drift>>
    BY <1>4 DEF Edits, walkVars, cacheVars
  <1>6. LeaseTypes'
    BY <1>1, <1>5 DEF LeaseTypes
  <1> QED
    BY <1>5, <1>6, QuietLease

LEMMA TroubleKeeps ==
  ASSUME LeaseInv,
         \/ Outage \/ OutageEnds \/ Resubscribes \/ BrokerSaves \/ BrokerRestarts
         \/ NorthboundStartsAnew \/ HubStartsAnew
  PROVE  LeaseInv'
  <1>1. LeaseTypes
    BY DEF LeaseInv
  <1>2. /\ MessageSound(retained) /\ MessageSound(saved) /\ MessageSound(lastPub)
        /\ MessageSound(handler) /\ ControlSound(walkGood) /\ drift \in Int /\ clock \in Nat
        /\ walk \in [at : {"idle", "paging", "assembled"}, got : SUBSET Event, all : Nat]
    BY <1>1 DEF LeaseTypes
  <1>3. CASE Outage \/ OutageEnds
    <2>1. /\ UNCHANGED <<clock, control, skew, count, ticked>>
          /\ UNCHANGED <<served, default, retained, saved, lastPub, handler, walk, walkGood, drift>>
      BY <1>3 DEF Outage, OutageEnds, walkVars, cacheVars, envVars
    <2>2. LeaseTypes'
      BY <1>1, <2>1 DEF LeaseTypes
    <2> QED
      BY <2>1, <2>2, QuietLease
  <1>4. CASE Resubscribes
    <2>1. /\ OnControl(retained)
          /\ UNCHANGED <<clock, ticked, served, default, retained, saved, lastPub, handler, walk, walkGood, drift>>
      BY <1>4 DEF Resubscribes, walkVars, serverVars
    <2> QED
      BY <1>2, <2>1, ArrivalKeeps
  <1>5. CASE BrokerSaves
    <2>1. /\ UNCHANGED <<clock, control, skew, count, ticked>> /\ saved' = retained
          /\ UNCHANGED <<served, default, retained, lastPub, handler, walk, walkGood, drift>>
      BY <1>5 DEF BrokerSaves, walkVars, cacheVars, serverVars
    <2>2. LeaseTypes'
      BY <1>1, <2>1 DEF LeaseTypes
    <2> QED
      BY <2>1, <2>2, QuietLease
  <1>6. CASE BrokerRestarts
    <2>1. /\ retained' \in {saved, Garbage}
          /\ (retained' = Nothing /\ UNCHANGED cacheVars) \/ OnControl(retained')
          /\ UNCHANGED <<clock, ticked, served, default, saved, lastPub, handler, walk, walkGood, drift>>
      BY <1>6 DEF BrokerRestarts, walkVars, serverVars
    <2>2. MessageSound(retained')
      BY <1>2, <2>1, NothingSound
    <2>3. CASE OnControl(retained')
      BY <1>2, <2>1, <2>2, <2>3, ArrivalKeeps
    <2>4. CASE UNCHANGED cacheVars
      <3>1. UNCHANGED <<clock, control, skew, count, ticked>>
        BY <2>1, <2>4 DEF cacheVars
      <3>2. LeaseTypes'
        BY <1>1, <2>1, <2>2, <3>1 DEF LeaseTypes
      <3> QED
        BY <3>1, <3>2, QuietLease
    <2> QED
      BY <2>1, <2>3, <2>4
  <1>7. CASE NorthboundStartsAnew
    <2>1. /\ UNCHANGED <<clock, control, skew, count, ticked, served, default, retained, saved>>
          /\ walk' = NoWalk /\ walkGood' = NoControl /\ lastPub' = Nothing /\ handler' = Nothing /\ drift' = 0
      BY <1>7 DEF NorthboundStartsAnew, FreshWalk, cacheVars, serverVars
    <2>2. LeaseTypes'
      BY <1>1, <2>1, NothingSound DEF LeaseTypes, NoWalk
    <2> QED
      BY <2>1, <2>2, QuietLease
  <1>8. CASE HubStartsAnew
    <2>1. /\ UNCHANGED <<clock, ticked, served, default, retained, saved, lastPub, handler, walk, walkGood, drift>>
          /\ \/ control' = retained /\ skew' = retained.at - clock
             \/ control' = Nothing /\ skew' = 0
          /\ count' = 0
      BY <1>8 DEF HubStartsAnew, FreshCache, walkVars, serverVars
    <2>2. MessageSound(control') /\ skew' \in Int /\ count' \in Nat
      BY <1>2, <2>1, NothingSound DEF MessageSound
    <2>3. LeaseTypes'
      BY <1>1, <2>1, <2>2 DEF LeaseTypes
    <2>4. Counting'
      <3>1. CASE control' = Nothing
        BY <3>1, NothingSound DEF Counting
      <3>2. CASE control' = retained /\ skew' = retained.at - clock
        <4>1. retained.at \in Int /\ retained.until \in Nat
          BY <1>2 DEF MessageSound
        <4>2. skew' >= 0 => ~(clock' > Over')
          BY <1>2, <2>1, <3>2, <4>1 DEF Over
        <4> QED
          BY <4>2 DEF Counting
      <3> QED
        BY <2>1, <3>1, <3>2
    <2> QED
      BY <2>3, <2>4 DEF LeaseInv
  <1> QED
    BY <1>3, <1>4, <1>5, <1>6, <1>7, <1>8

LEMMA LeaseStarts ==
  ASSUME InitLease
  PROVE  LeaseInv
  <1>1. /\ clock = 0 /\ served = <<>> /\ default \in {NoMRID, DefaultMRID} /\ walk = NoWalk
        /\ walkGood = NoControl /\ lastPub = Nothing /\ handler = Nothing /\ drift = 0
        /\ retained = Nothing /\ control = Nothing /\ skew = 0 /\ count = 0 /\ saved = Nothing
    BY DEF InitLease, InitWalk, InitCache
  <1>2. ticked \in BOOLEAN
    BY Zenon DEF InitLease
  <1>3. LeaseTypes
    BY <1>1, <1>2, NothingSound DEF LeaseTypes, NoWalk
  <1>4. Counting
    BY <1>1, NothingSound DEF Counting
  <1> QED
    BY <1>3, <1>4 DEF LeaseInv

LEMMA LeaseStep ==
  ASSUME LeaseInv, [NextLease]_leaseVars
  PROVE  LeaseInv'
  <1>1. CASE WalkStep
    BY <1>1, WalkKeeps
  <1>2. CASE WalkPublishes \/ PublishGlitched \/ PublishFrozen \/ PublishTimesOut
    BY <1>2, PublishKeeps
  <1>3. CASE HandlesRewalk \/ RewalkPublishes
    BY <1>3, RewalkKeeps
  <1>4. CASE HubTicks
    BY <1>4, TickKeeps
  <1>5. CASE TimePasses
    BY <1>5, TimeCounts
  <1>6. CASE \E e \in Event : Adds(e) \/ Withdraws(e)
    BY <1>6, ListKeeps
  <1>7. CASE \/ Outage \/ OutageEnds \/ Resubscribes \/ BrokerSaves \/ BrokerRestarts
             \/ NorthboundStartsAnew \/ HubStartsAnew
    BY <1>7, TroubleKeeps
  <1>8. CASE UNCHANGED leaseVars
    BY <1>8 DEF leaseVars, LeaseInv, LeaseTypes, Counting, Over
  <1> QED
    BY <1>1, <1>2, <1>3, <1>4, <1>5, <1>6, <1>7, <1>8 DEF NextLease

\* An event that is over ends within the debounce of its end, or of the last
\* message that repeated it, whatever becomes of the server, the broker and
\* lexa-northbound (ReadSystemState: the debounced expiry of cmd/hub/state.go).
THEOREM ControlsEndOnTime == SpecLease => []EndsOnTime
  <1>1. InitLease => LeaseInv
    BY LeaseStarts
  <1>2. LeaseInv /\ [NextLease]_leaseVars => LeaseInv'
    BY LeaseStep
  <1>3. LeaseInv => EndsOnTime
    <2> SUFFICES ASSUME LeaseInv, control.source = "event", skew >= 0
                 PROVE  clock <= control.until + HubConfirm \/ clock <= control.at + HubConfirm
      BY DEF EndsOnTime
    <2>1. /\ clock \in Nat /\ control.until \in Nat /\ control.at \in Int /\ HubConfirm \in Nat
      BY CacheAssumption DEF LeaseInv, LeaseTypes, MessageSound
    <2>2. clock > Over => clock - Over <= HubConfirm
      BY DEF LeaseInv, Counting
    <2>3. Over = control.until \/ Over = control.at
      BY DEF Over
    <2> QED
      BY <2>1, <2>2, <2>3
  <1> QED
    BY <1>1, <1>2, <1>3, PTL DEF SpecLease
-----------------------------------------------------------------------------
(* What the tracker remembers (Responses).                                 *)

Statused == [Event -> StatusCodes \cup {NoStatus}]
Memory == [posted : Statused, active : Event \cup {NoMRID}, alerted : SUBSET Key,
           confirmed : SUBSET Key, epi : EpisodeState]
Stored == [posted : Statused, alerted : SUBSET Key, epi : EpisodeState]
LogFile == [state : Stored, torn : BOOLEAN, lines : Nat, ate : BOOLEAN]
Ears == [last : Statused, greeted : SUBSET Event, told : SUBSET Key]
Entries ==
    [op : {"posted"}, mrid : Event, status : StatusCodes]
        \cup [op : {"alerted"}, keys : SUBSET Key] \cup [op : {"clear"}]
        \cup [op : {"episode"}, epi : EpisodeState]
\* What is known of an event was told to the server, its receipt first.
MemKnown(m, ears) ==
    /\ \A e \in Event : m.posted[e] # NoStatus => e \in ears.greeted
    /\ m.active \in ears.greeted \cup {NoMRID}
    /\ m.epi.mrid \in ears.greeted \cup {NoMRID}
    /\ m.confirmed \subseteq ears.told
StoredKnown(st, ears) ==
    /\ \A e \in Event : /\ st.posted[e] # NoStatus => e \in ears.greeted
                        /\ ~Terminal(st.posted[e])
    /\ st.epi.mrid \in ears.greeted \cup {NoMRID}
    /\ st.alerted \subseteq ears.told
Receipted(ears) == \A e \in Event : ears.last[e] # NoStatus => e \in ears.greeted
EntryKnown(entry, ears) ==
    /\ entry.op = "posted" => entry.mrid \in ears.greeted
    /\ entry.op = "episode" => entry.epi.mrid \in ears.greeted \cup {NoMRID}
Louder(new, old) == old.greeted \subseteq new.greeted /\ old.told \subseteq new.told

\* What loading the log would give.
LogSays(log, mem) ==
    ~log.ate => log.state.posted = OpenPosted(mem.posted) /\ log.state.epi = mem.epi
AlertsKept(log, mem) == ~log.ate => log.state.alerted = mem.confirmed

\* A step as a crash may leave it, before or after the server heard it.
SoundSteps ==
    {step \in [entry : Entries, log : LogFile, before : Ears, after : Ears] :
        /\ StoredKnown(step.log.state, step.before) /\ StoredKnown(step.log.state, step.after)
        /\ Receipted(step.before) /\ Receipted(step.after)}
Runs == [mem : Memory, log : LogFile, ears : Ears, steps : Seq(SoundSteps)]
RunSound(run) ==
    /\ run \in Runs
    /\ MemKnown(run.mem, run.ears) /\ StoredKnown(run.log.state, run.ears)
    /\ Receipted(run.ears)
    /\ LogSays(run.log, run.mem)
\* Between two calls the episode is the active event's.
RunGood(run) ==
    /\ RunSound(run)
    /\ AlertsKept(run.log, run.mem)
    /\ run.mem.active = run.mem.epi.mrid
Goes(run, new) == RunGood(new) /\ Louder(new.ears, run.ears)

LEMMA HeardSound ==
  ASSUME NEW ears \in Ears, NEW entry \in Entries
  PROVE  /\ Heard(ears, entry) \in Ears /\ Louder(Heard(ears, entry), ears)
         /\ Receipted(ears) /\ EntryKnown(entry, Heard(ears, entry)) => Receipted(Heard(ears, entry))
  <1> DEFINE h == Heard(ears, entry)
  <1>1. CASE entry.op = "posted"
    <2>1. entry.mrid \in Event /\ entry.status \in StatusCodes
      BY <1>1 DEF Entries
    <2>2. /\ h.last = [ears.last EXCEPT ![entry.mrid] = entry.status]
          /\ h.greeted \in {ears.greeted, ears.greeted \cup {entry.mrid}}
          /\ h.told = ears.told
          /\ h = [last |-> h.last, greeted |-> h.greeted, told |-> h.told]
      BY <1>1 DEF Heard
    <2> HIDE DEF h
    <2>3. h \in Ears
      <3>1. h.last \in Statused /\ h.greeted \subseteq Event /\ h.told \subseteq Key
        BY <2>1, <2>2 DEF Ears, Statused
      <3> QED
        BY <2>2, <3>1 DEF Ears
    <2>4. Receipted(ears) /\ entry.mrid \in h.greeted => Receipted(h)
      BY <2>1, <2>2 DEF Receipted, Ears, Statused
    <2> QED
      BY <1>1, <2>2, <2>3, <2>4 DEF Louder, EntryKnown, h
  <1>2. CASE entry.op # "posted"
    <2>1. /\ h.last = ears.last /\ h.greeted = ears.greeted
          /\ h.told \in {ears.told, ears.told \cup entry.keys}
          /\ h.told # ears.told => entry.op = "alerted"
          /\ h = [last |-> h.last, greeted |-> h.greeted, told |-> h.told]
      BY <1>2 DEF Heard
    <2>2. entry.op = "alerted" => entry.keys \subseteq Key
      BY DEF Entries
    <2> HIDE DEF h
    <2>3. h \in Ears
      <3>1. h.last \in Statused /\ h.greeted \subseteq Event /\ h.told \subseteq Key
        BY <2>1, <2>2 DEF Ears
      <3> QED
        BY <2>1, <3>1 DEF Ears
    <2> QED
      BY <2>1, <2>3 DEF Louder, Receipted, h
  <1> QED
    BY <1>1, <1>2

LEMMA NothingEnds == ~Terminal(NoStatus) /\ NoStatus \notin StatusCodes
  BY DEF Terminal, NoStatus, Completed, Cancelled, Superseded, PartialOptOut, NoParticipation,
         StatusCodes, Received, Started, RejectedInvalid

LEMMA ApplySound ==
  ASSUME NEW st \in Stored, NEW entry \in Entries, NEW ears \in Ears, StoredKnown(st, ears),
         EntryKnown(entry, Heard(ears, entry))
  PROVE  ApplyEntry(st, entry) \in Stored /\ StoredKnown(ApplyEntry(st, entry), Heard(ears, entry))
  <1> DEFINE h == Heard(ears, entry)
             new == ApplyEntry(st, entry)
  <1>1. h \in Ears /\ Louder(h, ears)
    BY HeardSound
  <1>2. /\ new.posted = [e \in Event |-> IF entry.op = "posted" /\ entry.mrid = e
                                         THEN Settled(entry.status) ELSE st.posted[e]]
        /\ new.alerted = CASE entry.op = "alerted" -> st.alerted \cup entry.keys
                           [] entry.op = "clear" -> {} [] OTHER -> st.alerted
        /\ new.epi = IF entry.op = "episode" THEN entry.epi ELSE st.epi
        /\ new = [posted |-> new.posted, alerted |-> new.alerted, epi |-> new.epi]
    BY DEF ApplyEntry
  <1>3. /\ entry.op = "posted" => entry.status \in StatusCodes
        /\ entry.op = "alerted" => entry.keys \subseteq Key
        /\ entry.op = "episode" => entry.epi \in EpisodeState
    BY DEF Entries
  <1>4. entry.op = "alerted" => h.told = ears.told \cup entry.keys
    BY DEF Heard
  <1>5. \A s \in StatusCodes : Settled(s) \in StatusCodes \cup {NoStatus} /\ ~Terminal(Settled(s))
    BY NothingEnds DEF Settled
  <1> HIDE DEF h, new
  <1>6. new.posted \in Statused
    BY <1>2, <1>3, <1>5 DEF Statused, Stored
  <1>7. \A e \in Event : /\ new.posted[e] # NoStatus => e \in h.greeted
                         /\ ~Terminal(new.posted[e])
    <2> TAKE e \in Event
    <2>1. new.posted[e] = IF entry.op = "posted" /\ entry.mrid = e
                          THEN Settled(entry.status) ELSE st.posted[e]
      BY <1>2
    <2>2. CASE entry.op = "posted" /\ entry.mrid = e
      BY <1>3, <1>5, <2>1, <2>2 DEF EntryKnown, h
    <2>3. CASE ~(entry.op = "posted" /\ entry.mrid = e)
      BY <1>1, <2>1, <2>3 DEF StoredKnown, Louder
    <2> QED
      BY <2>2, <2>3
  <1>8. new.alerted \subseteq Key /\ new.alerted \subseteq h.told
    BY <1>1, <1>2, <1>3, <1>4 DEF Stored, StoredKnown, Louder
  <1>9. new.epi \in EpisodeState /\ new.epi.mrid \in h.greeted \cup {NoMRID}
    BY <1>1, <1>2, <1>3 DEF Stored, StoredKnown, Louder, EntryKnown, h
  <1>10. new \in Stored
    BY <1>2, <1>6, <1>8, <1>9 DEF Stored
  <1> QED
    BY <1>7, <1>8, <1>9, <1>10 DEF StoredKnown, h, new

LEMMA SnapshotSound ==
  ASSUME NEW mem \in Memory, NEW ears \in Ears, MemKnown(mem, ears)
  PROVE  /\ Snapshot(mem) \in Stored /\ StoredKnown(Snapshot(mem), ears)
         /\ Snapshot(mem).posted = OpenPosted(mem.posted)
         /\ Snapshot(mem).alerted = mem.confirmed /\ Snapshot(mem).epi = mem.epi
  <1>1. /\ OpenPosted(mem.posted) \in Statused
        /\ \A e \in Event : /\ OpenPosted(mem.posted)[e] # NoStatus => e \in ears.greeted
                            /\ ~Terminal(OpenPosted(mem.posted)[e])
    BY NothingEnds DEF OpenPosted, Settled, Statused, Memory, MemKnown
  <1> QED
    BY <1>1 DEF Snapshot, Stored, StoredKnown, Memory, MemKnown

LEMMA WrittenSound ==
  ASSUME NEW log \in LogFile, NEW entry \in Entries, NEW mem \in Memory, NEW ears \in Ears,
         StoredKnown(log.state, ears), EntryKnown(entry, Heard(ears, entry)),
         MemKnown(mem, Heard(ears, entry))
  PROVE  LET new == Written(log, entry, mem)
         IN  /\ new \in LogFile /\ StoredKnown(new.state, Heard(ears, entry))
             /\ \/ new.ate
                \/ new.state = Snapshot(mem)
                \/ ~log.ate /\ new.state = ApplyEntry(log.state, entry)
  <1> DEFINE app == Append1(log, entry)
             h == Heard(ears, entry)
             fresh == [state |-> Snapshot(mem), torn |-> FALSE, lines |-> 1, ate |-> FALSE]
             next == ApplyEntry(log.state, entry)
  <1>1. h \in Ears /\ Louder(h, ears)
    BY HeardSound
  <1>2. log.state \in Stored /\ log.lines \in Nat /\ {log.torn, log.ate} \subseteq BOOLEAN
    BY DEF LogFile
  <1>3. next \in Stored /\ StoredKnown(next, h)
    BY <1>2, ApplySound
  <1>4. StoredKnown(log.state, h)
    BY <1>1 DEF StoredKnown, Louder
  <1>5. Snapshot(mem) \in Stored /\ StoredKnown(Snapshot(mem), h)
    BY <1>1, SnapshotSound
  <1>6. /\ app = [state |-> app.state, torn |-> FALSE, lines |-> log.lines + 1, ate |-> app.ate]
        /\ app.state = IF log.torn THEN log.state ELSE next
        /\ app.ate = (log.ate \/ log.torn)
    BY DEF Append1
  <1>7. Written(log, entry, mem) \in {app, fresh}
    BY DEF Written
  <1>8. /\ fresh.state = Snapshot(mem)
        /\ Snapshot(mem) \in Stored => fresh \in LogFile
    BY DEF LogFile
  <1> HIDE DEF app, h, fresh, next
  <1>9. /\ app.state \in Stored /\ StoredKnown(app.state, h) /\ app.ate \in BOOLEAN
        /\ app.ate \/ (~log.ate /\ app.state = next)
    BY <1>2, <1>3, <1>4, <1>6
  <1>10. app \in LogFile
    <2>1. log.lines + 1 \in Nat
      BY <1>2
    <2>2. app = [state |-> app.state, torn |-> FALSE, lines |-> log.lines + 1, ate |-> app.ate]
      BY <1>6
    <2>3. app.state \in Stored /\ app.ate \in BOOLEAN
      BY <1>9
    <2>4. \A st \in Stored, n \in Nat, a \in BOOLEAN :
            [state |-> st, torn |-> FALSE, lines |-> n, ate |-> a] \in LogFile
      BY DEF LogFile
    <2> QED
      BY <2>1, <2>2, <2>3, <2>4
  <1> QED
    BY <1>5, <1>7, <1>8, <1>9, <1>10 DEF h, next

\* An entry is written and, of its kind, said: nothing is known of an event
\* before its receipt, and the log follows.
Follows(mem, entry, new) ==
    \A st \in Stored :
        st.posted = OpenPosted(mem.posted) /\ st.epi = mem.epi =>
            LET next == ApplyEntry(st, entry)
            IN  next.posted = OpenPosted(new.posted) /\ next.epi = new.epi
AlertsFollow(mem, entry, new) ==
    \/ entry.op = "clear" /\ new.confirmed = {}
    \/ entry.op = "alerted" /\ new.confirmed = mem.confirmed \cup entry.keys
    \/ entry.op \in {"posted", "episode"} /\ new.confirmed = mem.confirmed

LEMMA EmitSound ==
  ASSUME NEW run, RunSound(run), NEW mem \in Memory, NEW entry \in Entries,
         MemKnown(mem, Heard(run.ears, entry)), EntryKnown(entry, Heard(run.ears, entry)),
         Follows(run.mem, entry, mem), AlertsFollow(run.mem, entry, mem)
  PROVE  LET new == Emit(run, mem, entry)
         IN  /\ RunSound(new) /\ new.mem = mem /\ new.ears = Heard(run.ears, entry)
             /\ Louder(new.ears, run.ears)
             /\ AlertsKept(run.log, run.mem) \/ entry.op = "clear" => AlertsKept(new.log, new.mem)
  <1> DEFINE h == Heard(run.ears, entry)
             log == Written(run.log, entry, mem)
             step == [entry |-> entry, log |-> run.log, before |-> run.ears, after |-> h]
             new == Emit(run, mem, entry)
             next == ApplyEntry(run.log.state, entry)
  <1>1. run \in Runs /\ run.log \in LogFile /\ run.ears \in Ears /\ run.steps \in Seq(SoundSteps)
    BY DEF RunSound, Runs
  <1>2. h \in Ears /\ Louder(h, run.ears) /\ Receipted(h)
    BY <1>1, HeardSound DEF RunSound
  <1>3. /\ log \in LogFile /\ StoredKnown(log.state, h)
        /\ log.ate \/ log.state = Snapshot(mem) \/ (~run.log.ate /\ log.state = next)
    BY <1>1, WrittenSound DEF RunSound
  <1>4. new = [mem |-> mem, log |-> log, ears |-> h, steps |-> Append(run.steps, step)]
    BY DEF Emit
  <1>5. step \in SoundSteps
    <2>1. StoredKnown(run.log.state, h)
      BY <1>2 DEF RunSound, StoredKnown, Louder
    <2> HIDE DEF h
    <2> QED
      BY <1>1, <1>2, <2>1 DEF SoundSteps, RunSound
  <1>6. /\ Snapshot(mem).posted = OpenPosted(mem.posted) /\ Snapshot(mem).epi = mem.epi
        /\ Snapshot(mem).alerted = mem.confirmed
    BY <1>2, SnapshotSound
  <1>7. run.log.state \in Stored
    BY <1>1 DEF LogFile
  <1>8. LogSays(log, mem)
    <2>1. ~run.log.ate => next.posted = OpenPosted(mem.posted) /\ next.epi = mem.epi
      BY <1>7 DEF LogSays, Follows, RunSound
    <2> HIDE DEF log, next
    <2> QED
      BY <1>3, <1>6, <2>1 DEF LogSays
  <1>9. AlertsKept(run.log, run.mem) \/ entry.op = "clear" => AlertsKept(log, mem)
    <2>1. next.alerted = CASE entry.op = "alerted" -> run.log.state.alerted \cup entry.keys
                           [] entry.op = "clear" -> {} [] OTHER -> run.log.state.alerted
      BY DEF ApplyEntry
    <2>2. ASSUME ~run.log.ate, AlertsKept(run.log, run.mem) \/ entry.op = "clear"
          PROVE  next.alerted = mem.confirmed
      <3> HIDE DEF next
      <3> QED
        BY <2>1, <2>2 DEF AlertsKept, AlertsFollow
    <2> HIDE DEF log, next
    <2> QED
      BY <1>3, <1>6, <2>2 DEF AlertsKept
  <1>10. Append(run.steps, step) \in Seq(SoundSteps)
    BY <1>1, <1>5
  <1> HIDE DEF h, log, step, new
  <1>11. new \in Runs
    BY <1>1, <1>2, <1>3, <1>4, <1>10 DEF Runs
  <1>12. RunSound(new)
    BY <1>2, <1>3, <1>4, <1>8, <1>11 DEF RunSound, h
  <1> QED
    BY <1>2, <1>4, <1>9, <1>12 DEF h, new

LEMMA GoesOn ==
  ASSUME NEW a, NEW b, NEW c, Goes(a, b), Goes(b, c)
  PROVE  Goes(a, c)
  BY DEF Goes, Louder

LEMMA GoesNowhere ==
  ASSUME NEW run, RunGood(run)
  PROVE  Goes(run, run)
  BY DEF Goes, Louder

LEMMA EpisodeSound ==
  ASSUME NEW run, RunSound(run), NEW epi \in EpisodeState,
         epi.mrid \in run.ears.greeted \cup {NoMRID}
  PROVE  LET new == SetEpisode(run, epi)
         IN  /\ RunSound(new) /\ Louder(new.ears, run.ears)
             /\ new.mem = [run.mem EXCEPT !.epi = epi]
             /\ AlertsKept(run.log, run.mem) => AlertsKept(new.log, new.mem)
  <1> DEFINE mem == [run.mem EXCEPT !.epi = epi]
             entry == [op |-> "episode", epi |-> epi]
             new == SetEpisode(run, epi)
  <1>1. run.mem \in Memory /\ run.ears \in Ears
    BY DEF RunSound, Runs
  <1>2. CASE run.mem.epi = epi
    <2>1. new = run /\ mem = run.mem
      BY <1>1, <1>2 DEF SetEpisode, Memory
    <2> HIDE DEF new, mem
    <2> QED
      BY <2>1 DEF Louder, new, mem
  <1>3. CASE run.mem.epi # epi
    <2>1. new = Emit(run, mem, entry)
      BY <1>3 DEF SetEpisode
    <2>2. entry \in Entries /\ entry.op = "episode" /\ entry.epi = epi
      BY DEF Entries
    <2>3. /\ mem \in Memory /\ mem.epi = epi /\ mem.posted = run.mem.posted
          /\ mem.active = run.mem.active /\ mem.confirmed = run.mem.confirmed
      BY <1>1 DEF Memory
    <2> HIDE DEF mem, entry, new
    <2>4. Heard(run.ears, entry).greeted = run.ears.greeted
          /\ Heard(run.ears, entry).told = run.ears.told
      BY <2>2 DEF Heard
    <2>5. MemKnown(mem, Heard(run.ears, entry))
      BY <2>3, <2>4 DEF MemKnown, RunSound
    <2>6. EntryKnown(entry, Heard(run.ears, entry))
      BY <2>2, <2>4 DEF EntryKnown
    <2>7. Follows(run.mem, entry, mem)
      <3>1. ASSUME NEW st \in Stored, st.posted = OpenPosted(run.mem.posted)
            PROVE  ApplyEntry(st, entry).posted = OpenPosted(mem.posted)
                   /\ ApplyEntry(st, entry).epi = mem.epi
        <4>1. ApplyEntry(st, entry).posted = [e \in Event |-> st.posted[e]]
              /\ ApplyEntry(st, entry).epi = epi
          BY <2>2 DEF ApplyEntry
        <4>2. st.posted = [e \in Event |-> st.posted[e]]
          BY DEF Stored, Statused
        <4> QED
          BY <2>3, <3>1, <4>1, <4>2
      <3> QED
        BY <3>1 DEF Follows
    <2>8. AlertsFollow(run.mem, entry, mem)
      BY <2>2, <2>3 DEF AlertsFollow
    <2>9. /\ RunSound(new) /\ new.mem = mem /\ Louder(new.ears, run.ears)
          /\ AlertsKept(run.log, run.mem) => AlertsKept(new.log, new.mem)
      BY <2>1, <2>2, <2>3, <2>5, <2>6, <2>7, <2>8, EmitSound
    <2> QED
      BY <2>9 DEF new, mem
  <1> QED
    BY <1>2, <1>3

LEMMA SetSound ==
  ASSUME NEW run, RunGood(run), NEW mrid \in Event, NEW code \in StatusCodes,
         code \in {Received, RejectedInvalid} \/ mrid \in run.ears.greeted
  PROVE  LET new == Set(run, mrid, code)
         IN  /\ Goes(run, new) /\ mrid \in new.ears.greeted
             /\ new.mem = [run.mem EXCEPT !.posted[mrid] = code]
  <1> DEFINE mem == [run.mem EXCEPT !.posted[mrid] = code]
             entry == Posted(mrid, code)
             new == Set(run, mrid, code)
             h == Heard(run.ears, entry)
  <1>1. run.mem \in Memory /\ run.ears \in Ears /\ RunSound(run)
    BY DEF RunGood, RunSound, Runs
  <1>2. new = Emit(run, mem, entry)
    BY DEF Set
  <1>3. entry \in Entries /\ entry.op = "posted" /\ entry.mrid = mrid /\ entry.status = code
    BY DEF Posted, Entries
  <1>4. /\ mem \in Memory /\ mem.posted = [run.mem.posted EXCEPT ![mrid] = code]
        /\ mem.epi = run.mem.epi /\ mem.active = run.mem.active
        /\ mem.confirmed = run.mem.confirmed
    BY <1>1 DEF Memory, Statused
  <1> HIDE DEF mem, entry, new
  <1>5. /\ h.greeted = IF code \in {Received, RejectedInvalid}
                       THEN run.ears.greeted \cup {mrid} ELSE run.ears.greeted
        /\ h.told = run.ears.told
    BY <1>3 DEF Heard
  <1>6. mrid \in h.greeted /\ run.ears.greeted \subseteq h.greeted
    BY <1>5
  <1> HIDE DEF h
  <1>7. MemKnown(mem, h)
    <2>1. \A e \in Event : mem.posted[e] = IF e = mrid THEN code ELSE run.mem.posted[e]
      BY <1>1, <1>4 DEF Memory, Statused
    <2> QED
      BY <1>1, <1>4, <1>5, <1>6, <2>1 DEF MemKnown, RunSound
  <1>8. EntryKnown(entry, h)
    BY <1>3, <1>6 DEF EntryKnown
  <1>9. Follows(run.mem, entry, mem)
    <2>1. ASSUME NEW st \in Stored, st.posted = OpenPosted(run.mem.posted), st.epi = run.mem.epi
          PROVE  ApplyEntry(st, entry).posted = OpenPosted(mem.posted)
                 /\ ApplyEntry(st, entry).epi = mem.epi
      <3>1. /\ ApplyEntry(st, entry).posted =
                  [e \in Event |-> IF mrid = e THEN Settled(code) ELSE st.posted[e]]
            /\ ApplyEntry(st, entry).epi = st.epi
        BY <1>3 DEF ApplyEntry
      <3>2. \A e \in Event : st.posted[e] = Settled(run.mem.posted[e])
        BY <2>1 DEF OpenPosted
      <3>3. \A e \in Event : mem.posted[e] = IF e = mrid THEN code ELSE run.mem.posted[e]
        BY <1>1, <1>4 DEF Memory, Statused
      <3>4. OpenPosted(mem.posted) = [e \in Event |-> Settled(mem.posted[e])]
        BY DEF OpenPosted
      <3>5. \A e \in Event : Settled(mem.posted[e]) = IF mrid = e THEN Settled(code) ELSE st.posted[e]
        BY <3>2, <3>3
      <3> QED
        BY <1>4, <2>1, <3>1, <3>4, <3>5
    <2> QED
      BY <2>1 DEF Follows
  <1>10. AlertsFollow(run.mem, entry, mem)
    BY <1>3, <1>4 DEF AlertsFollow
  <1>11. /\ RunSound(new) /\ new.mem = mem /\ Louder(new.ears, run.ears) /\ new.ears = h
         /\ AlertsKept(run.log, run.mem) => AlertsKept(new.log, new.mem)
    BY <1>1, <1>2, <1>3, <1>4, <1>7, <1>8, <1>9, <1>10, EmitSound DEF h
  <1>12. Goes(run, new)
    BY <1>4, <1>11 DEF Goes, RunGood
  <1> QED
    BY <1>6, <1>11, <1>12 DEF new, mem

LEMMA TurnSound ==
  ASSUME NEW run, RunGood(run), NEW epi \in EpisodeState,
         epi.mrid \in run.ears.greeted \cup {NoMRID}
  PROVE  Goes(run, SetEpisode(SetActive(run, epi.mrid), epi))
  <1> DEFINE turned == SetActive(run, epi.mrid)
             new == SetEpisode(turned, epi)
  <1>1. run \in Runs /\ run.mem \in Memory /\ run.ears \in Ears /\ RunSound(run)
    BY DEF RunGood, RunSound, Runs
  <1>2. epi.mrid \in Event \cup {NoMRID}
    BY DEF EpisodeState
  <1>3. /\ turned.log = run.log /\ turned.ears = run.ears /\ turned.steps = run.steps
        /\ turned.mem = [run.mem EXCEPT !.active = epi.mrid]
        /\ turned = [mem |-> turned.mem, log |-> turned.log, ears |-> turned.ears, steps |-> turned.steps]
    BY <1>1 DEF SetActive, Runs
  <1> HIDE DEF turned
  <1>4. /\ turned.mem \in Memory /\ turned.mem.posted = run.mem.posted /\ turned.mem.epi = run.mem.epi
        /\ turned.mem.confirmed = run.mem.confirmed /\ turned.mem.active = epi.mrid
    BY <1>1, <1>2, <1>3 DEF Memory
  <1>5. turned \in Runs
    BY <1>1, <1>3, <1>4 DEF Runs
  <1>6. RunSound(turned)
    BY <1>1, <1>3, <1>4, <1>5 DEF RunSound, MemKnown, LogSays
  <1>7. AlertsKept(turned.log, turned.mem)
    BY <1>3, <1>4 DEF AlertsKept, RunGood
  <1>8. /\ RunSound(new) /\ Louder(new.ears, run.ears) /\ AlertsKept(new.log, new.mem)
        /\ new.mem = [turned.mem EXCEPT !.epi = epi]
    BY <1>3, <1>6, <1>7, EpisodeSound
  <1>9. new.mem.active = epi.mrid /\ new.mem.epi = epi
    BY <1>4, <1>8 DEF Memory
  <1> HIDE DEF new
  <1>10. Goes(run, new)
    BY <1>8, <1>9 DEF Goes, RunGood
  <1> QED
    BY <1>10 DEF new, turned

LEMMA RetiredSound ==
  ASSUME NEW run, RunGood(run), NEW mrid
  PROVE  Goes(run, Retired(run, mrid))
  <1>1. NoEpisode \in EpisodeState /\ NoEpisode.mrid = NoMRID
    BY DEF NoEpisode, EpisodeState
  <1>2. Goes(run, SetEpisode(SetActive(run, NoMRID), NoEpisode))
    BY <1>1, TurnSound
  <1> QED
    BY <1>2, GoesNowhere DEF Retired

LEMMA CompleteSound ==
  ASSUME NEW run, RunGood(run)
  PROVE  Goes(run, CompleteActive(run))
  <1> DEFINE mrid == run.mem.active
             code == EndOfEventCode(run.mem.epi)
             ended == IF mrid # NoMRID /\ ~Terminal(run.mem.posted[mrid])
                      THEN Set(run, mrid, code) ELSE run
  <1>1. run.mem \in Memory /\ run.mem.epi \in EpisodeState /\ mrid \in Event \cup {NoMRID}
        /\ mrid \in run.ears.greeted \cup {NoMRID}
    BY DEF RunGood, RunSound, Runs, Memory, MemKnown
  <1>2. code \in StatusCodes
    BY <1>1, ResponsesAssumption DEF EndOfEventCode, EpisodeState, StatusCodes
  <1> HIDE DEF code
  <1>3. Goes(run, ended)
    <2>1. mrid # NoMRID => Goes(run, Set(run, mrid, code))
      BY <1>1, <1>2, SetSound
    <2> QED
      BY <2>1, GoesNowhere
  <1>4. Goes(ended, Retired(ended, mrid))
    BY <1>3, RetiredSound DEF Goes
  <1>5. CompleteActive(run) = IF mrid = NoMRID THEN run ELSE Retired(ended, mrid)
    BY DEF CompleteActive, code
  <1> HIDE DEF ended
  <1> QED
    BY <1>3, <1>4, <1>5, GoesOn, GoesNowhere

LEMMA GreetSound ==
  ASSUME NEW run, RunGood(run), NEW e \in Event, NEW walked, NEW superseded
  PROVE  LET new == Greet(run, e, walked, superseded)
         IN  Goes(run, new) /\ (e \notin walked.cancelled => e \in new.ears.greeted)
  <1> DEFINE seen == run.mem.posted[e] # NoStatus
             known == IF seen THEN run ELSE Set(run, e, Received)
             off == Set(run, e, Cancelled)
             beaten == Set(known, e, Superseded)
             new == Greet(run, e, walked, superseded)
  <1>1. seen => e \in run.ears.greeted
    BY DEF RunGood, RunSound, MemKnown
  <1>2. {Received, Cancelled, Superseded} \subseteq StatusCodes
    BY DEF StatusCodes
  <1>3. Goes(run, known) /\ e \in known.ears.greeted
    <2>1. Goes(run, Set(run, e, Received)) /\ e \in Set(run, e, Received).ears.greeted
      BY <1>2, SetSound
    <2> QED
      BY <1>1, <2>1, GoesNowhere
  <1>4. seen => Goes(run, off) /\ e \in off.ears.greeted
    BY <1>1, <1>2, SetSound
  <1>5. Goes(known, beaten) /\ e \in beaten.ears.greeted
    BY <1>2, <1>3, SetSound DEF Goes
  <1>6. new \in {run, known} \/ (seen /\ new = Retired(off, e)) \/ new = Retired(beaten, e)
    BY DEF Greet
  <1>7. e \notin walked.cancelled => new = known \/ new = Retired(beaten, e)
    BY DEF Greet
  <1>8. seen => Goes(off, Retired(off, e))
    BY <1>4, RetiredSound DEF Goes
  <1>9. Goes(beaten, Retired(beaten, e))
    BY <1>5, RetiredSound DEF Goes
  <1> HIDE DEF new, known, off, beaten, seen
  <1>10. Goes(run, Retired(beaten, e)) /\ e \in Retired(beaten, e).ears.greeted
    <2>1. Goes(run, beaten)
      BY <1>3, <1>5, GoesOn
    <2> QED
      BY <1>5, <1>9, <2>1, GoesOn DEF Goes, Louder
  <1>11. seen => Goes(run, Retired(off, e))
    BY <1>4, <1>8, GoesOn
  <1>12. Goes(run, new)
    BY <1>3, <1>6, <1>10, <1>11, GoesNowhere
  <1>13. e \notin walked.cancelled => e \in new.ears.greeted
    BY <1>3, <1>7, <1>10
  <1> QED
    BY <1>12, <1>13 DEF new

LEMMA BeginSound ==
  ASSUME NEW run, RunGood(run), NEW mrid \in Event, mrid \in run.ears.greeted
  PROVE  Goes(run, Begin(run, mrid))
  <1> DEFINE seed == mrid \in run.mem.alerted
             started == Set(run, mrid, Started)
             epi == [mrid |-> mrid, sawBreach |-> seed, sawCompliant |-> FALSE, breachActive |-> seed]
  <1>1. Goes(run, started) /\ mrid \in started.ears.greeted
    <2>1. Started \in StatusCodes
      BY DEF StatusCodes
    <2> QED
      BY <2>1, SetSound
  <1>2. epi \in EpisodeState /\ epi.mrid = mrid
    BY DEF EpisodeState
  <1>3. Begin(run, mrid) = SetEpisode(SetActive(started, mrid), epi)
    BY DEF Begin
  <1> HIDE DEF epi, started
  <1>4. Goes(started, SetEpisode(SetActive(started, epi.mrid), epi))
    BY <1>1, <1>2, TurnSound DEF Goes
  <1> QED
    BY <1>1, <1>2, <1>3, <1>4, GoesOn

LEMMA SampleSound ==
  ASSUME NEW run, RunGood(run), NEW epi \in EpisodeState, epi.mrid = run.mem.active
  PROVE  Goes(run, SetEpisode(run, epi))
  <1> DEFINE new == SetEpisode(run, epi)
  <1>1. RunSound(run) /\ run.mem \in Memory /\ epi.mrid \in run.ears.greeted \cup {NoMRID}
    BY DEF RunGood, RunSound, Runs, MemKnown
  <1>2. /\ RunSound(new) /\ Louder(new.ears, run.ears) /\ new.mem = [run.mem EXCEPT !.epi = epi]
        /\ AlertsKept(run.log, run.mem) => AlertsKept(new.log, new.mem)
    BY <1>1, EpisodeSound
  <1>3. new.mem.active = run.mem.active /\ new.mem.epi = epi
    BY <1>1, <1>2 DEF Memory
  <1> HIDE DEF new
  <1> QED
    BY <1>2, <1>3 DEF Goes, RunGood, new

LEMMA Pass2Sound ==
  ASSUME NEW run, RunGood(run), NEW active, NEW t,
         active.source = "event" => active.mrid \in Event /\ active.mrid \in run.ears.greeted
  PROVE  Goes(run, Pass2(run, active, t))
  <1> DEFINE done == CompleteActive(run)
             running == IF active.mrid # run.mem.active THEN Begin(done, active.mrid)
                        ELSE SetEpisode(run, Sampled(run.mem.epi))
  <1>1. Goes(run, done)
    BY CompleteSound
  <1>2. ASSUME active.source = "event" PROVE Goes(run, running)
    <2>1. active.mrid \in done.ears.greeted /\ RunGood(done)
      BY <1>1, <1>2 DEF Goes, Louder
    <2>2. Goes(run, Begin(done, active.mrid))
      <3> HIDE DEF done
      <3>1. Goes(done, Begin(done, active.mrid))
        BY <1>2, <2>1, BeginSound
      <3> QED
        BY <1>1, <3>1, GoesOn
    <2>3. run.mem.epi \in EpisodeState /\ run.mem.epi.mrid = run.mem.active
      BY DEF RunGood, RunSound, Runs, Memory
    <2>4. Sampled(run.mem.epi) \in EpisodeState /\ Sampled(run.mem.epi).mrid = run.mem.active
      BY <2>3 DEF Sampled, EpisodeState
    <2>5. Goes(run, SetEpisode(run, Sampled(run.mem.epi)))
      BY <2>4, SampleSound
    <2> QED
      BY <2>2, <2>5
  <1>3. ASSUME active.source = "event" PROVE Goes(run, CompleteActive(running))
    <2> HIDE DEF running
    <2>1. Goes(running, CompleteActive(running))
      BY <1>2, <1>3, CompleteSound DEF Goes
    <2> QED
      BY <1>2, <1>3, <2>1, GoesOn
  <1>4. Pass2(run, active, t) = IF active.source # "event" THEN done
                                ELSE IF Expired(active, t) THEN CompleteActive(running) ELSE running
    BY DEF Pass2
  <1> HIDE DEF running, done
  <1> QED
    BY <1>1, <1>2, <1>3, <1>4

LEMMA RejectSound ==
  ASSUME NEW run, RunGood(run), NEW mrid \in Event
  PROVE  Goes(run, Reject(run, mrid))
  <1>1. RejectedInvalid \in StatusCodes
    BY DEF StatusCodes
  <1>2. Goes(run, Set(run, mrid, RejectedInvalid))
    BY <1>1, SetSound
  <1> QED
    BY <1>2, GoesNowhere DEF Reject

-----------------------------------------------------------------------------
(* Recursion over an interval, and the first pass, which recurs over the   *)
(* events.                                                                 *)

LEMMA LeastNumber ==
  ASSUME NEW T, T \subseteq Nat, NEW n \in T
  PROVE  \E x \in T : \A y \in T : x <= y
  <1> DEFINE S == 0..n
             Below == {0..m : m \in {k \in T : k <= n}}
             R == StrictSubsetOrdering(S)
  <1>1. n \in Nat /\ IsFiniteSet(S)
    BY FS_Interval
  <1>2. IsWellFoundedOn(R, FiniteSubsetsOf(S)) /\ FiniteSubsetsOf(S) = SUBSET S
    BY <1>1, FS_StrictSubsetOrderingWellFounded, FS_FiniteSubsetsOfFinite
  <1>3. Below \subseteq SUBSET S /\ Below # {}
    <2>1. \A m \in {k \in T : k <= n} : (0..m) \in SUBSET S
      BY <1>1
    <2>2. n \in {k \in T : k <= n}
      BY <1>1
    <2> HIDE DEF S
    <2> QED
      BY <2>1, <2>2
  <1> HIDE DEF Below, R, S
  <1>4. PICK b \in Below : \A c \in Below : <<c, b>> \notin R
    BY <1>2, <1>3, WFMin
  <1>5. PICK x \in T : x <= n /\ b = 0..x
    BY <1>4 DEF Below
  <1>6. ASSUME NEW y \in T, y < x PROVE FALSE
    <2>0. x \in Nat /\ y \in Nat /\ y <= n
      BY <1>1, <1>5, <1>6
    <2>1. (0..y) \in Below
      BY <2>0 DEF Below
    <2>2. (0..y) \subseteq b
      BY <1>5, <1>6, <2>0
    <2>3. x \in b /\ x \notin 0..y
      BY <1>5, <1>6, <2>0
    <2>4. (0..y) # b
      BY <2>3
    <2>5. (0..y) \in SUBSET S /\ b \in SUBSET S
      BY <1>3, <1>4, <2>1
    <2>6. <<0..y, b>> \in R
      BY <2>2, <2>4, <2>5 DEF R, StrictSubsetOrdering
    <2> QED
      BY <1>4, <2>1, <2>6
  <1> QED
    BY <1>6

LEMMA Induction ==
  ASSUME NEW S, 0 \in S, \A n \in Nat : n \in S => n + 1 \in S
  PROVE  Nat \subseteq S
  <1> SUFFICES ASSUME NEW n \in Nat \ S PROVE FALSE
    OBVIOUS
  <1>1. PICK x \in Nat \ S : \A y \in Nat \ S : x <= y
    BY LeastNumber
  <1>2. x # 0 /\ x - 1 \in Nat /\ x - 1 < x
    OBVIOUS
  <1>3. (x - 1) + 1 \in S
    BY <1>1, <1>2
  <1> QED
    BY <1>3

\* What a function defined by recursion over an interval is: step[<<i, d>>] is
\* the value at i when d is the one before.
Course(f, N, D, d, step) ==
    /\ f \in [0..N -> D] /\ f[0] = d
    /\ \A i \in 1..N : f[i] = step[<<i, f[i - 1]>>]

LEMMA Recursion ==
  ASSUME NEW D, NEW d \in D, NEW N \in Nat, NEW step \in [(1..N) \X D -> D]
  PROVE  \E f : Course(f, N, D, d, step)
  <1> DEFINE Upto(m, f) == f \in [0..m -> D] /\ f[0] = d
                           /\ \A i \in 1..m : f[i] = step[<<i, f[i - 1]>>]
             S == {m \in Nat : m <= N => \E f : Upto(m, f)}
  <1>1. 0 \in S
    <2>1. Upto(0, [i \in 0..0 |-> d])
      OBVIOUS
    <2> QED
      BY <2>1
  <1>2. ASSUME NEW m \in Nat, m \in S PROVE m + 1 \in S
    <2> SUFFICES ASSUME m + 1 <= N PROVE \E f : Upto(m + 1, f)
      OBVIOUS
    <2>1. PICK g : Upto(m, g)
      BY <1>2
    <2> DEFINE f == [i \in 0..(m + 1) |-> IF i = m + 1 THEN step[<<m + 1, g[m]>>] ELSE g[i]]
    <2>2. g[m] \in D /\ step[<<m + 1, g[m]>>] \in D
      BY <2>1
    <2>3. f \in [0..(m + 1) -> D]
      BY <2>1, <2>2
    <2>4. f[0] = d
      BY <2>1
    <2>5. ASSUME NEW i \in 1..(m + 1) PROVE f[i] = step[<<i, f[i - 1]>>]
      <3>1. CASE i = m + 1
        <4>1. m \in 0..(m + 1) /\ m # m + 1 /\ (m + 1) - 1 = m /\ m + 1 \in 0..(m + 1)
          OBVIOUS
        <4>2. f[m] = g[m] /\ f[m + 1] = step[<<m + 1, g[m]>>]
          BY <4>1
        <4> HIDE DEF f
        <4> QED
          BY <3>1, <4>1, <4>2
      <3>2. CASE i \in 1..m
        <4>1. /\ i \in 0..(m + 1) /\ i # m + 1
              /\ i - 1 \in 0..(m + 1) /\ i - 1 # m + 1
          BY <3>2
        <4>2. f[i] = g[i] /\ f[i - 1] = g[i - 1]
          BY <4>1
        <4>3. g[i] = step[<<i, g[i - 1]>>]
          BY <2>1, <3>2
        <4> HIDE DEF f
        <4> QED
          BY <4>2, <4>3
      <3> QED
        BY <3>1, <3>2
    <2> QED
      BY <2>3, <2>4, <2>5
  <1>3. N \in S
    BY <1>1, <1>2, Induction
  <1>4. PICK f : Upto(N, f)
    BY <1>3
  <1> QED
    BY <1>4 DEF Course

\* Two functions that go on alike from one value are the same.
Alike(N, f, g) ==
    f[0] = g[0] /\ \A i \in 1..N : f[i - 1] = g[i - 1] => f[i] = g[i]

LEMMA SameCourse ==
  ASSUME NEW N \in Nat, NEW f, NEW g, Alike(N, f, g)
  PROVE  \A i \in 0..N : f[i] = g[i]
  <1> DEFINE S == {m \in Nat : m <= N => f[m] = g[m]}
  <1>1. 0 \in S
    BY DEF Alike
  <1>2. ASSUME NEW m \in Nat, m \in S PROVE m + 1 \in S
    <2>1. m + 1 <= N => m + 1 \in 1..N /\ m <= N /\ (m + 1) - 1 = m
      OBVIOUS
    <2> QED
      BY <1>2, <2>1 DEF Alike
  <1> HIDE DEF S
  <1>3. Nat \subseteq S
    BY <1>1, <1>2, Induction
  <1> QED
    BY <1>3 DEF S

LEMMA OneIsGreatest ==
  \E n \in {0} \cup Event : \A o \in Event : o <= n
  <1>1. IsFiniteSet(Event) /\ Event \subseteq Nat
    BY SchedulerAssumption
  <1> DEFINE Top(X) == \E n \in {0} \cup X : \A o \in X : o <= n
             Bad == {X \in FiniteSubsetsOf(Event) : ~Top(X)}
  <1>2. IsWellFoundedOn(StrictSubsetOrdering(Event), FiniteSubsetsOf(Event))
    BY FS_StrictSubsetOrderingWellFounded
  <1>3. ASSUME Bad # {} PROVE FALSE
    <2>1. PICK X \in Bad : \A Y \in Bad : ~(<<Y, X>> \in StrictSubsetOrdering(Event))
      <3>1. Bad \subseteq FiniteSubsetsOf(Event)
        OBVIOUS
      <3> HIDE DEF Bad
      <3> QED
        BY <1>2, <1>3, <3>1, WFMin
    <2>2. X \subseteq Event /\ IsFiniteSet(X) /\ ~Top(X)
      BY <2>1 DEF FiniteSubsetsOf
    <2>3. PICK x : x \in X
      BY <2>2
    <2> DEFINE Y == X \ {x}
    <2>4. Y \in FiniteSubsetsOf(Event) /\ <<Y, X>> \in StrictSubsetOrdering(Event)
      BY <2>2, <2>3, FS_RemoveElement DEF FiniteSubsetsOf, StrictSubsetOrdering
    <2>5. PICK m \in {0} \cup Y : \A o \in Y : o <= m
      BY <2>1, <2>4
    <2>6. x \in Nat /\ m \in Nat /\ x \in X /\ m \in {0} \cup X
          /\ \A o \in X : o \in Nat /\ (o = x \/ o <= m)
      BY <1>1, <2>2, <2>3, <2>5
    <2> HIDE DEF Y
    <2>7. CASE x <= m
      <3>1. \A o \in X : o <= m
        BY <2>6, <2>7
      <3> QED
        BY <2>2, <2>6, <3>1
    <2>8. CASE m <= x
      <3>1. \A o \in X : o <= x
        BY <2>6, <2>8
      <3> QED
        BY <2>2, <2>6, <3>1
    <2> QED
      BY <2>6, <2>7, <2>8
  <1>4. Event \in FiniteSubsetsOf(Event)
    BY <1>1 DEF FiniteSubsetsOf
  <1>5. Bad = {} => Top(Event)
    BY <1>4
  <1> QED
    BY <1>3, <1>5

\* The first pass greets every event the walk listed.
LEMMA Pass1Sound ==
  ASSUME NEW run, RunGood(run), NEW walked, walked.listed \subseteq Event, NEW superseded
  PROVE  LET new == Pass1(run, walked, superseded)
         IN  /\ Goes(run, new)
             /\ \A e \in walked.listed \ walked.cancelled : e \in new.ears.greeted
  <1> DEFINE N == CHOOSE n \in {0} \cup Event : \A o \in Event : o <= n
             D == {r \in Runs : RunGood(r)}
             Next1(n, r) == IF n \in walked.listed THEN Greet(r, n, walked, superseded) ELSE r
             step == [p \in (1..N) \X D |-> Next1(p[1], p[2])]
             Sequel(u) == [n \in 0..N |-> IF n = 0 THEN run
                              ELSE IF n \in walked.listed THEN Greet(u[n - 1], n, walked, superseded)
                              ELSE u[n - 1]]
             upto == CHOOSE u : u = Sequel(u)
  <1>1. N \in Nat /\ \A o \in Event : o \in 1..N
    <2>1. N \in {0} \cup Event /\ \A o \in Event : o <= N
      BY OneIsGreatest
    <2> HIDE DEF N
    <2> QED
      BY <2>1, SchedulerAssumption
  <1>2. Pass1(run, walked, superseded) = upto[N]
    BY DEF Pass1
  <1> HIDE DEF N
  <1>3. ASSUME NEW n \in 1..N, NEW r \in D
        PROVE  /\ Next1(n, r) \in D /\ Goes(r, Next1(n, r))
               /\ n \in walked.listed \ walked.cancelled => n \in Next1(n, r).ears.greeted
    <2>1. CASE n \in walked.listed
      <3> DEFINE g == Greet(r, n, walked, superseded)
      <3>1. Next1(n, r) = g
        BY <2>1
      <3>2. Goes(r, g) /\ (n \notin walked.cancelled => n \in g.ears.greeted)
        BY <2>1, GreetSound
      <3> HIDE DEF g, Next1
      <3> QED
        BY <3>1, <3>2 DEF Goes, RunGood, RunSound
    <2>2. CASE n \notin walked.listed
      BY <2>2, GoesNowhere
    <2> QED
      BY <2>1, <2>2
  <1>4. run \in D
    BY DEF RunGood, RunSound
  <1>5. PICK f : Course(f, N, D, run, step)
    <2>1. step \in [(1..N) \X D -> D]
      <3> HIDE DEF D, Next1
      <3> QED
        BY <1>3
    <2> HIDE DEF step, D
    <2> QED
      BY <1>1, <1>4, <2>1, Recursion
  <1>6. f \in [0..N -> D] /\ f[0] = run /\ \A n \in 1..N : f[n] = step[<<n, f[n - 1]>>]
    BY <1>5 DEF Course
  <1>7. \A n \in 1..N : n - 1 \in 0..N /\ n \in 0..N /\ n # 0
    BY <1>1
  <1>8. ASSUME NEW n \in 1..N PROVE f[n] = Next1(n, f[n - 1])
    <2>1. <<n, f[n - 1]>> \in (1..N) \X D
      BY <1>6, <1>7
    <2>2. f[n] = step[<<n, f[n - 1]>>]
      BY <1>6
    <2> HIDE DEF D, Next1
    <2> QED
      BY <2>1, <2>2
  <1>9. f = Sequel(f)
    <2>1. ASSUME NEW n \in 0..N
          PROVE  f[n] = IF n = 0 THEN run
                        ELSE IF n \in walked.listed THEN Greet(f[n - 1], n, walked, superseded)
                        ELSE f[n - 1]
      <3>1. n = 0 \/ n \in 1..N
        BY <1>1
      <3> QED
        BY <1>6, <1>8, <3>1
    <2>2. f = [n \in 0..N |-> f[n]]
      BY <1>6
    <2> HIDE DEF D
    <2> QED
      BY <2>1, <2>2
  <1>10. upto = Sequel(upto)
    BY <1>9
  <1> HIDE DEF upto, step
  <1>11. upto[0] = run /\ \A n \in 1..N : upto[n] = Next1(n, upto[n - 1])
    <2>1. 0 \in 0..N
      BY <1>1
    <2> QED
      BY <1>7, <1>10, <2>1
  <1> HIDE DEF Next1
  <1>12. \A n \in 0..N : upto[n] = f[n]
    <2>1. Alike(N, upto, f)
      BY <1>6, <1>8, <1>11 DEF Alike
    <2> QED
      BY <1>1, <2>1, SameCourse
  <1> DEFINE S == {n \in Nat : n <= N =>
                      /\ Goes(run, f[n])
                      /\ \A e \in walked.listed \ walked.cancelled : e <= n => e \in f[n].ears.greeted}
  <1>13. 0 \in S
    <2>1. \A e \in walked.listed : ~(e <= 0)
      BY <1>1
    <2> QED
      BY <1>6, <2>1, GoesNowhere
  <1>14. ASSUME NEW n \in Nat, n \in S PROVE n + 1 \in S
    <2> SUFFICES ASSUME n + 1 <= N
                 PROVE  /\ Goes(run, f[n + 1])
                        /\ \A e \in walked.listed \ walked.cancelled :
                              e <= n + 1 => e \in f[n + 1].ears.greeted
      OBVIOUS
    <2>1. n + 1 \in 1..N /\ n \in 0..N /\ (n + 1) - 1 = n /\ n <= N
      BY <1>1
    <2>2. /\ Goes(run, f[n])
          /\ \A e \in walked.listed \ walked.cancelled : e <= n => e \in f[n].ears.greeted
      BY <1>14, <2>1
    <2>3. f[n] \in D /\ f[n + 1] = Next1(n + 1, f[n])
      BY <1>6, <1>8, <2>1
    <2>4. /\ Goes(f[n], f[n + 1])
          /\ n + 1 \in walked.listed \ walked.cancelled => n + 1 \in f[n + 1].ears.greeted
      <3> HIDE DEF D
      <3> QED
        BY <1>3, <2>1, <2>3
    <2>5. Goes(run, f[n + 1])
      BY <2>2, <2>4, GoesOn
    <2>6. ASSUME NEW e \in walked.listed \ walked.cancelled, e <= n + 1
          PROVE  e \in f[n + 1].ears.greeted
      <3>1. e \in Nat
        BY <1>1
      <3>2. e <= n \/ e = n + 1
        BY <2>6, <3>1
      <3> QED
        BY <2>2, <2>4, <3>2 DEF Goes, Louder
    <2> QED
      BY <2>5, <2>6
  <1> HIDE DEF S
  <1>15. N \in S
    BY <1>1, <1>13, <1>14, Induction
  <1>16. N \in 0..N /\ N <= N
    BY <1>1
  <1>17. /\ Goes(run, f[N])
         /\ \A e \in walked.listed \ walked.cancelled : e <= N => e \in f[N].ears.greeted
    BY <1>15, <1>16 DEF S
  <1>18. upto[N] = f[N]
    BY <1>12, <1>16
  <1>19. \A e \in walked.listed : e <= N
    BY <1>1
  <1> QED
    BY <1>2, <1>17, <1>18, <1>19

LEMMA RemarkSound ==
  ASSUME NEW run, RunSound(run), NEW mem \in Memory, mem.posted = run.mem.posted,
         mem.epi = run.mem.epi, mem.active = run.mem.active, mem.confirmed \subseteq run.ears.told
  PROVE  LET new == [run EXCEPT !.mem = mem]
         IN  RunSound(new) /\ new.mem = mem /\ new.log = run.log /\ new.ears = run.ears
  <1> DEFINE new == [run EXCEPT !.mem = mem]
  <1>1. run \in Runs
    BY DEF RunSound
  <1>2. /\ new \in Runs /\ new.mem = mem /\ new.log = run.log /\ new.ears = run.ears
    BY <1>1 DEF Runs
  <1> HIDE DEF new
  <1>3. RunSound(new)
    BY <1>2 DEF RunSound, MemKnown, LogSays
  <1> QED
    BY <1>2, <1>3 DEF new

-----------------------------------------------------------------------------
(* The control in force is an event the walk found or one that was greeted. *)

Known(c, some) == c.source = "event" => c.mrid \in some

LEMMA ResolvedKnown ==
  ASSUME NEW t, t.listed \subseteq Event, NEW w, NEW r
  PROVE  LET res == Resolve(t, w, r)
         IN  /\ Known(res, Live(t))
             /\ res.source = "event" \/ res.source = "default" \/ res = NoControl
  <1> DEFINE able == Candidates(t, w, r)
             best == CHOOSE e \in able : \A o \in able : Outranks(e, o)
             res == Resolve(t, w, r)
  <1>1. able \subseteq Event /\ able \subseteq Live(t)
    BY DEF Candidates, Live
  <1>2. able # {} => best \in able
    BY <1>1, OneOutranks
  <1> HIDE DEF able
  <1>3. \/ able # {} /\ res = EventControl(best, w)
        \/ res = DefaultControl
        \/ res = NoControl
    BY DEF Resolve, able
  <1>4. EventControl(best, w).source = "event" /\ EventControl(best, w).mrid = best
    BY DEF EventControl
  <1>5. DefaultControl.source = "default" /\ NoControl.source = "none"
    BY DEF DefaultControl, NoControl
  <1> HIDE DEF best, res
  <1>6. /\ Known(res, Live(t))
        /\ res.source = "event" \/ res.source = "default" \/ res = NoControl
    BY <1>1, <1>2, <1>3, <1>4, <1>5 DEF Known
  <1> QED
    BY <1>6 DEF res

LEMMA EvaluatedKnown ==
  ASSUME NEW t, t.listed \subseteq Event, NEW r, NEW w, NEW some, Known(lastGood, some)
  PROVE  LET ev == Evaluated(t, r, w)
         IN  /\ Known(ev.active, Live(t) \cup some) /\ Known(ev.lastGood, Live(t) \cup some)
             /\ ev.rejected \subseteq Event
  <1> DEFINE res == Resolve(t, w, r)
             holding == Holding(hold, lastGood, t, r)
             out == FailClosed(res, lastGood, holding, t, r)
             ev == Evaluated(t, r, w)
  <1>1. /\ Known(res, Live(t))
        /\ res.source = "event" \/ res.source = "default" \/ res = NoControl
    BY ResolvedKnown
  <1>2. ev.active = out.active /\ ev.lastGood = out.lastGood /\ ev.rejected \subseteq Event
    BY DEF Evaluated
  <1> HIDE DEF res, holding, ev
  <1>3. Known(NoControl, {})
    BY DEF Known, NoControl
  <1>4. out.active = out.lastGood /\ out.active \in {NoControl, lastGood, res}
    BY <1>1, FailClosedChooses
  <1> HIDE DEF out
  <1>5. Known(out.active, Live(t) \cup some)
    BY <1>1, <1>3, <1>4 DEF Known
  <1> QED
    BY <1>2, <1>4, <1>5 DEF ev

-----------------------------------------------------------------------------
(* Between two calls, and across a crash in the middle of one.             *)

Trees == [found : BOOLEAN, listed : SUBSET Event, cancelled : SUBSET Event,
          garbled : SUBSET Event, default : {NoMRID, DefaultMRID}]
TrackerInv ==
    /\ tree \in Trees
    /\ RunGood(AtRest)
    /\ Known(lastGood, Event \cap greeted)

LEMMA RestFields ==
  /\ AtRest.mem = rt /\ AtRest.log = file /\ AtRest.steps = <<>>
  /\ AtRest.ears.last = last /\ AtRest.ears.greeted = greeted /\ AtRest.ears.told = told
  BY DEF AtRest

LEMMA RestSound ==
  ASSUME NEW mem \in Memory, NEW log \in LogFile, NEW ears \in Ears,
         MemKnown(mem, ears), StoredKnown(log.state, ears), Receipted(ears),
         LogSays(log, mem), AlertsKept(log, mem), mem.active = mem.epi.mrid
  PROVE  RunGood([mem |-> mem, log |-> log, ears |-> ears, steps |-> <<>>])
  <1> DEFINE run == [mem |-> mem, log |-> log, ears |-> ears, steps |-> <<>>]
  <1>1. <<>> \in Seq(SoundSteps)
    OBVIOUS
  <1>2. run \in Runs
    BY <1>1 DEF Runs
  <1>3. run.mem = mem /\ run.log = log /\ run.ears = ears
    OBVIOUS
  <1> HIDE DEF run
  <1>4. RunGood(run)
    BY <1>2, <1>3 DEF RunGood, RunSound
  <1> QED
    BY <1>4 DEF run

LEMMA FinishedSound ==
  ASSUME NEW run, RunGood(run), Finished(run)
  PROVE  RunGood(AtRest') /\ greeted' = run.ears.greeted
  <1>1. /\ run.mem \in Memory /\ run.log \in LogFile /\ run.ears \in Ears
        /\ MemKnown(run.mem, run.ears) /\ StoredKnown(run.log.state, run.ears)
        /\ Receipted(run.ears) /\ LogSays(run.log, run.mem) /\ AlertsKept(run.log, run.mem)
        /\ run.mem.active = run.mem.epi.mrid
    BY DEF RunGood, RunSound, Runs
  <1>2. run.ears = [last |-> run.ears.last, greeted |-> run.ears.greeted, told |-> run.ears.told]
    BY <1>1 DEF Ears
  <1>3. /\ rt' = run.mem /\ file' = run.log /\ last' = run.ears.last
        /\ greeted' = run.ears.greeted /\ told' = run.ears.told
    BY DEF Finished, Spoken
  <1>4. AtRest' = [mem |-> run.mem, log |-> run.log, ears |-> run.ears, steps |-> <<>>]
    BY <1>2, <1>3 DEF AtRest
  <1> QED
    BY <1>1, <1>3, <1>4, RestSound

LEMMA LoadedSound ==
  ASSUME NEW st \in Stored, NEW ears \in Ears, StoredKnown(st, ears)
  PROVE  /\ Loaded(st) \in Memory /\ MemKnown(Loaded(st), ears)
         /\ OpenPosted(Loaded(st).posted) = st.posted /\ Loaded(st).epi = st.epi
         /\ Loaded(st).confirmed = st.alerted /\ Loaded(st).active = Loaded(st).epi.mrid
  <1>1. st.epi.mrid \in Event \cup {NoMRID}
    BY DEF Stored, EpisodeState
  <1>2. Loaded(st) \in Memory
    BY <1>1 DEF Loaded, Memory, Stored
  <1>3. MemKnown(Loaded(st), ears)
    BY DEF Loaded, MemKnown, StoredKnown
  <1>4. OpenPosted(st.posted) = st.posted
    <2>1. \A e \in Event : Settled(st.posted[e]) = st.posted[e]
      BY DEF Settled, StoredKnown
    <2>2. st.posted = [e \in Event |-> st.posted[e]]
      BY DEF Stored, Statused
    <2> QED
      BY <2>1, <2>2 DEF OpenPosted
  <1> QED
    BY <1>2, <1>3, <1>4 DEF Loaded

LEMMA RestartSound ==
  ASSUME NEW log \in LogFile, NEW ears \in Ears, StoredKnown(log.state, ears), Receipted(ears),
         NEW torn \in BOOLEAN, file' = LeftOf(log, torn), Spoken(ears), Restarted
  PROVE  RunGood(AtRest') /\ lastGood' = NoControl
  <1>1. /\ file' \in LogFile /\ file'.state = log.state
    BY DEF LeftOf, LogFile
  <1>2. log.state \in Stored
    BY DEF LogFile
  <1>3. rt' = Loaded(log.state)
    BY <1>1 DEF Restarted
  <1>4. /\ rt' \in Memory /\ MemKnown(rt', ears) /\ OpenPosted(rt'.posted) = log.state.posted
        /\ rt'.epi = log.state.epi /\ rt'.confirmed = log.state.alerted
        /\ rt'.active = rt'.epi.mrid
    BY <1>2, <1>3, LoadedSound
  <1>5. LogSays(file', rt') /\ AlertsKept(file', rt')
    BY <1>1, <1>4 DEF LogSays, AlertsKept
  <1>6. ears = [last |-> last', greeted |-> greeted', told |-> told']
    BY DEF Ears, Spoken
  <1>7. AtRest' = [mem |-> rt', log |-> file', ears |-> ears, steps |-> <<>>]
    BY <1>6 DEF AtRest
  <1> QED
    BY <1>1, <1>4, <1>5, <1>7, RestSound DEF Restarted

LEMMA CrashSound ==
  ASSUME NEW run, RunGood(run), CrashedIn(run)
  PROVE  RunGood(AtRest') /\ lastGood' = NoControl
  <1>1. run.steps \in Seq(SoundSteps)
    BY DEF RunGood, RunSound, Runs
  <1>2. PICK i \in DOMAIN run.steps :
          LET step == run.steps[i]
          IN  /\ \/ file' = LeftOf(step.log, step.log.torn) /\ Spoken(step.before)
                 \/ file' = LeftOf(step.log, step.log.torn) /\ Spoken(step.after)
                 \/ file' = LeftOf(step.log, TRUE) /\ Spoken(step.after)
              /\ Restarted
    BY DEF CrashedIn
  <1> DEFINE step == run.steps[i]
  <1>3. step \in SoundSteps
    BY <1>1
  <1> HIDE DEF step
  <1>4. /\ step.log \in LogFile /\ step.before \in Ears /\ step.after \in Ears
        /\ StoredKnown(step.log.state, step.before) /\ StoredKnown(step.log.state, step.after)
        /\ Receipted(step.before) /\ Receipted(step.after) /\ step.log.torn \in BOOLEAN
    BY <1>3 DEF SoundSteps, LogFile
  <1>5. /\ \/ file' = LeftOf(step.log, step.log.torn) /\ Spoken(step.before)
           \/ file' = LeftOf(step.log, step.log.torn) /\ Spoken(step.after)
           \/ file' = LeftOf(step.log, TRUE) /\ Spoken(step.after)
        /\ Restarted
    BY <1>2 DEF step
  <1> QED
    BY <1>4, <1>5, RestartSound

LEMMA UpdateSound ==
  ASSUME TrackerInv, NEW t, t.listed \subseteq Event, NEW r, NEW w
  PROVE  LET ev  == Evaluated(t, r, w)
             run == Update(t, r, w, ev)
         IN  RunGood(run) /\ Known(ev.lastGood, Event \cap run.ears.greeted)
  <1> DEFINE ev == Evaluated(t, r, w)
             e == CHOOSE e \in ev.rejected : TRUE
             begun == IF ev.rejected = {} THEN AtRest ELSE Reject(AtRest, e)
             one == Pass1(begun, t, SupersededMRIDs(t, w, r))
             run == Update(t, r, w, ev)
  <1>1. /\ Known(ev.active, Live(t) \cup (Event \cap greeted))
        /\ Known(ev.lastGood, Live(t) \cup (Event \cap greeted))
        /\ ev.rejected \subseteq Event
    BY EvaluatedKnown DEF TrackerInv
  <1>2. run = Pass2(one, ev.active, r)
    BY DEF Update
  <1> HIDE DEF ev
  <1>3. ev.rejected # {} => e \in Event
    BY <1>1
  <1> HIDE DEF e, run
  <1>4. Goes(AtRest, begun)
    BY <1>3, RejectSound, GoesNowhere DEF TrackerInv
  <1> HIDE DEF begun
  <1>5. Goes(begun, one) /\ \A o \in t.listed \ t.cancelled : o \in one.ears.greeted
    BY <1>4, Pass1Sound DEF Goes
  <1> HIDE DEF one
  <1>6. Goes(AtRest, one)
    BY <1>4, <1>5, GoesOn
  <1>7. Live(t) \cup (Event \cap greeted) \subseteq Event \cap one.ears.greeted
    BY <1>5, <1>6, RestFields DEF Goes, Louder, Live
  <1>8. Goes(one, run)
    BY <1>1, <1>2, <1>6, <1>7, Pass2Sound DEF Known, Goes
  <1>9. Known(ev.lastGood, Event \cap run.ears.greeted)
    BY <1>1, <1>7, <1>8 DEF Known, Goes, Louder
  <1>10. RunGood(run)
    BY <1>8 DEF Goes
  <1> QED
    BY <1>9, <1>10 DEF run, ev

LEMMA WalkSound ==
  ASSUME TrackerInv, NEW t, t.listed \subseteq Event, NEW r, Walk(t, r)
  PROVE  TrackerInv'
  <1>1. PICK w : LET ev  == Evaluated(t, r, w)
                     run == Update(t, r, w, ev)
                 IN  Finished(run) /\ lastGood' = ev.lastGood /\ UNCHANGED tree
    BY DEF Walk
  <1> DEFINE ev == Evaluated(t, r, w)
             run == Update(t, r, w, ev)
  <1>2. RunGood(run) /\ Known(ev.lastGood, Event \cap run.ears.greeted)
    BY UpdateSound
  <1>3. Finished(run) /\ lastGood' = ev.lastGood /\ tree' = tree
    BY <1>1
  <1> HIDE DEF run, ev
  <1>4. RunGood(AtRest') /\ greeted' = run.ears.greeted
    BY <1>2, <1>3, FinishedSound
  <1>5. Known(lastGood', Event \cap greeted')
    BY <1>2, <1>3, <1>4
  <1> QED
    BY <1>3, <1>4, <1>5 DEF TrackerInv

LEMMA AlertedSound ==
  ASSUME TrackerInv, NEW mrid \in Event, NEW keys \in SUBSET Key, NEW acked \in BOOLEAN
  PROVE  Goes(AtRest, Alerted(mrid, keys, acked))
  <1> DEFINE mem == [rt EXCEPT !.alerted = rt.alerted \cup keys]
             marked == [AtRest EXCEPT !.mem = mem]
             epi == [rt.epi EXCEPT !.sawBreach = TRUE, !.breachActive = TRUE]
             noted == IF mrid # rt.active THEN marked ELSE SetEpisode(marked, epi)
             sure == [noted.mem EXCEPT !.confirmed = noted.mem.confirmed \cup keys]
             entry == [op |-> "alerted", keys |-> keys]
             run == Emit(noted, sure, entry)
  <1>1. Alerted(mrid, keys, acked) = IF acked THEN run ELSE noted
    BY DEF Alerted, AtRest
  <1>2. RunGood(AtRest) /\ AtRest.mem = rt /\ AtRest.log = file
    BY RestFields DEF TrackerInv
  <1>3. rt \in Memory /\ RunSound(AtRest) /\ AlertsKept(file, rt) /\ rt.active = rt.epi.mrid
        /\ rt.confirmed \subseteq AtRest.ears.told /\ AtRest.ears \in Ears
    BY <1>2 DEF RunGood, RunSound, Runs, MemKnown
  <1>4. /\ mem \in Memory /\ mem.posted = rt.posted /\ mem.epi = rt.epi
        /\ mem.active = rt.active /\ mem.confirmed = rt.confirmed
    BY <1>3 DEF Memory
  <1> HIDE DEF mem
  <1>5. RunSound(marked) /\ marked.mem = mem /\ marked.log = file /\ marked.ears = AtRest.ears
    BY <1>2, <1>3, <1>4, RemarkSound
  <1> HIDE DEF marked
  <1>6. Goes(AtRest, marked)
    BY <1>3, <1>4, <1>5 DEF Goes, RunGood, AlertsKept, Louder
  <1>7. epi \in EpisodeState /\ epi.mrid = rt.epi.mrid
    BY <1>3 DEF Memory, EpisodeState
  <1> HIDE DEF epi
  <1>8. Goes(marked, SetEpisode(marked, epi))
    BY <1>3, <1>4, <1>5, <1>6, <1>7, SampleSound DEF Goes
  <1>9. Goes(AtRest, noted)
    BY <1>6, <1>8, GoesOn
  <1> HIDE DEF noted
  <1>10. /\ RunSound(noted) /\ noted.mem \in Memory /\ noted.ears \in Ears
         /\ AlertsKept(noted.log, noted.mem) /\ noted.mem.active = noted.mem.epi.mrid
         /\ MemKnown(noted.mem, noted.ears)
    BY <1>9 DEF Goes, RunGood, RunSound, Runs
  <1>11. /\ sure \in Memory /\ sure.posted = noted.mem.posted /\ sure.epi = noted.mem.epi
         /\ sure.active = noted.mem.active /\ sure.confirmed = noted.mem.confirmed \cup keys
    BY <1>10 DEF Memory
  <1>12. entry \in Entries /\ entry.op = "alerted" /\ entry.keys = keys
    BY DEF Entries
  <1> HIDE DEF sure, entry, run
  <1> DEFINE h == Heard(noted.ears, entry)
  <1>13. h.greeted = noted.ears.greeted /\ h.told = noted.ears.told \cup keys
    BY <1>12 DEF Heard
  <1>14. MemKnown(sure, h) /\ EntryKnown(entry, h)
    BY <1>10, <1>11, <1>12, <1>13 DEF MemKnown, EntryKnown
  <1>15. Follows(noted.mem, entry, sure)
    <2>1. ASSUME NEW st \in Stored, st.posted = OpenPosted(noted.mem.posted), st.epi = noted.mem.epi
          PROVE  ApplyEntry(st, entry).posted = OpenPosted(sure.posted)
                 /\ ApplyEntry(st, entry).epi = sure.epi
      <3>1. ApplyEntry(st, entry).posted = [x \in Event |-> st.posted[x]]
            /\ ApplyEntry(st, entry).epi = st.epi
        BY <1>12 DEF ApplyEntry
      <3>2. st.posted = [x \in Event |-> st.posted[x]]
        BY DEF Stored, Statused
      <3> QED
        BY <1>11, <2>1, <3>1, <3>2
    <2> QED
      BY <2>1 DEF Follows
  <1>16. AlertsFollow(noted.mem, entry, sure)
    BY <1>11, <1>12 DEF AlertsFollow
  <1>17. /\ RunSound(run) /\ run.mem = sure /\ Louder(run.ears, noted.ears)
         /\ AlertsKept(run.log, run.mem)
    <2> HIDE DEF h
    <2> QED
      BY <1>10, <1>11, <1>12, <1>14, <1>15, <1>16, EmitSound DEF h, run
  <1>18. Goes(noted, run)
    BY <1>10, <1>11, <1>17 DEF Goes, RunGood
  <1> QED
    BY <1>1, <1>9, <1>18, GoesOn

LEMMA ClearSound ==
  ASSUME TrackerInv
  PROVE  LET quiet   == [AtRest EXCEPT !.mem.alerted = {}, !.mem.confirmed = {}]
             settled == SetEpisode(quiet, [rt.epi EXCEPT !.breachActive = FALSE])
         IN  Goes(AtRest, Emit(settled, settled.mem, [op |-> "clear"]))
  <1> DEFINE mem == [rt EXCEPT !.alerted = {}, !.confirmed = {}]
             quiet == [AtRest EXCEPT !.mem = mem]
             epi == [rt.epi EXCEPT !.breachActive = FALSE]
             settled == SetEpisode(quiet, epi)
             entry == [op |-> "clear"]
             run == Emit(settled, settled.mem, entry)
  <1>1. [AtRest EXCEPT !.mem.alerted = {}, !.mem.confirmed = {}] = quiet
    BY DEF AtRest
  <1>2. RunGood(AtRest) /\ AtRest.mem = rt /\ AtRest.log = file
    BY RestFields DEF TrackerInv
  <1>3. /\ rt \in Memory /\ RunSound(AtRest) /\ rt.active = rt.epi.mrid
        /\ rt.epi.mrid \in AtRest.ears.greeted \cup {NoMRID}
    BY <1>2 DEF RunGood, RunSound, Runs, MemKnown
  <1>4. /\ mem \in Memory /\ mem.posted = rt.posted /\ mem.epi = rt.epi
        /\ mem.active = rt.active /\ mem.confirmed = {}
    BY <1>3 DEF Memory
  <1> HIDE DEF mem
  <1>5. RunSound(quiet) /\ quiet.mem = mem /\ quiet.ears = AtRest.ears
    BY <1>2, <1>3, <1>4, RemarkSound
  <1> HIDE DEF quiet
  <1>6. epi \in EpisodeState /\ epi.mrid = rt.epi.mrid
    BY <1>3 DEF Memory, EpisodeState
  <1> HIDE DEF epi
  <1>7. RunSound(settled) /\ Louder(settled.ears, quiet.ears) /\ settled.mem = [mem EXCEPT !.epi = epi]
    BY <1>3, <1>5, <1>6, EpisodeSound
  <1>8. /\ settled.mem.confirmed = {} /\ settled.mem.active = settled.mem.epi.mrid
        /\ settled.mem \in Memory
    BY <1>3, <1>4, <1>6, <1>7 DEF Memory
  <1>9. settled.ears \in Ears /\ MemKnown(settled.mem, settled.ears)
    BY <1>7 DEF RunSound, Runs
  <1> HIDE DEF settled
  <1>10. entry \in Entries /\ entry.op = "clear"
    BY DEF Entries
  <1> HIDE DEF entry, run
  <1> DEFINE h == Heard(settled.ears, entry)
  <1>11. h.greeted = settled.ears.greeted /\ h.told = settled.ears.told
    BY <1>10 DEF Heard
  <1>12. MemKnown(settled.mem, h) /\ EntryKnown(entry, h)
    BY <1>9, <1>10, <1>11 DEF MemKnown, EntryKnown
  <1>13. Follows(settled.mem, entry, settled.mem)
    <2>1. ASSUME NEW st \in Stored, st.posted = OpenPosted(settled.mem.posted)
          PROVE  ApplyEntry(st, entry).posted = OpenPosted(settled.mem.posted)
                 /\ ApplyEntry(st, entry).epi = st.epi
      <3>1. ApplyEntry(st, entry).posted = [x \in Event |-> st.posted[x]]
            /\ ApplyEntry(st, entry).epi = st.epi
        BY <1>10 DEF ApplyEntry
      <3>2. st.posted = [x \in Event |-> st.posted[x]]
        BY DEF Stored, Statused
      <3> QED
        BY <2>1, <3>1, <3>2
    <2> QED
      BY <2>1 DEF Follows
  <1>14. AlertsFollow(settled.mem, entry, settled.mem)
    BY <1>8, <1>10 DEF AlertsFollow
  <1>15. /\ RunSound(run) /\ run.mem = settled.mem /\ Louder(run.ears, settled.ears)
         /\ AlertsKept(run.log, run.mem)
    <2> HIDE DEF h
    <2> QED
      BY <1>7, <1>8, <1>10, <1>12, <1>13, <1>14, EmitSound DEF h, run
  <1>16. Goes(AtRest, run)
    BY <1>5, <1>7, <1>8, <1>15 DEF Goes, RunGood, Louder
  <1> QED
    BY <1>1, <1>16 DEF run, entry, settled, epi

-----------------------------------------------------------------------------
LEMMA TrackerStarts == Init => TrackerInv
  <1> SUFFICES ASSUME Init PROVE TrackerInv
    OBVIOUS
  <1> DEFINE ears == [last |-> last, greeted |-> greeted, told |-> told]
  <1>1. NoEpisode \in EpisodeState /\ NoEpisode.mrid = NoMRID
    BY DEF NoEpisode, EpisodeState
  <1>2. EmptyState \in Stored /\ EmptyState.posted = [e \in Event |-> NoStatus]
        /\ EmptyState.alerted = {} /\ EmptyState.epi = NoEpisode
    BY <1>1 DEF EmptyState, Stored, Statused
  <1>3. last = [e \in Event |-> NoStatus] /\ greeted = {} /\ told = {}
    BY DEF Init
  <1>4. ears \in Ears /\ ears.last = last /\ ears.greeted = {} /\ ears.told = {}
    BY <1>3 DEF Ears, Statused
  <1> HIDE DEF ears
  <1>5. StoredKnown(EmptyState, ears) /\ Receipted(ears)
    BY <1>1, <1>2, <1>3, <1>4, NothingEnds DEF StoredKnown, Receipted
  <1>6. rt = Loaded(EmptyState) /\ file \in LogFile /\ file.state = EmptyState
    BY <1>2 DEF Init, LogFile
  <1>7. /\ rt \in Memory /\ MemKnown(rt, ears) /\ OpenPosted(rt.posted) = file.state.posted
        /\ rt.epi = file.state.epi /\ rt.confirmed = file.state.alerted /\ rt.active = rt.epi.mrid
    BY <1>2, <1>4, <1>5, <1>6, LoadedSound
  <1>8. LogSays(file, rt) /\ AlertsKept(file, rt)
    BY <1>7 DEF LogSays, AlertsKept
  <1>9. RunGood(AtRest)
    BY <1>4, <1>5, <1>6, <1>7, <1>8, RestSound DEF AtRest, ears
  <1>10. tree \in Trees /\ lastGood = NoControl
    <2>1. NoTree = [found |-> FALSE, listed |-> {}, cancelled |-> {}, garbled |-> {}, default |-> NoMRID]
      BY DEF NoTree
    <2>2. \A d \in {NoMRID, DefaultMRID} : [NoTree EXCEPT !.found = TRUE, !.default = d] \in Trees
      BY <2>1 DEF Trees
    <2> QED
      BY <2>2 DEF Init
  <1> QED
    BY <1>9, <1>10 DEF TrackerInv, Known, NoControl

LEMMA TrackerStep == TrackerInv /\ [Next]_vars => TrackerInv'
  <1> SUFFICES ASSUME TrackerInv, [Next]_vars PROVE TrackerInv'
    OBVIOUS
  <1>0. tree \in Trees /\ tree.listed \subseteq Event /\ RunGood(AtRest) /\ Known(lastGood, Event \cap greeted)
        /\ NoTree.listed = {} /\ Live(NoTree) = {}
    BY DEF TrackerInv, NoTree, Live, Trees
  <1>a. ASSUME RunGood(AtRest'), lastGood' = NoControl, tree' = tree PROVE TrackerInv'
    BY <1>0, <1>a DEF TrackerInv, Known, NoControl
  <1>b. ASSUME NEW run, Goes(AtRest, run), Finished(run), lastGood' = lastGood, tree' = tree
        PROVE  TrackerInv'
    <2>1. RunGood(AtRest') /\ greeted' = run.ears.greeted /\ greeted \subseteq greeted'
      BY <1>b, FinishedSound, RestFields DEF Goes, Louder
    <2> QED
      BY <1>0, <1>b, <2>1 DEF TrackerInv, Known
  <1>c. ASSUME UNCHANGED <<rt, file, last, greeted, told>>, tree' \in Trees,
               Known(lastGood', Event \cap greeted)
        PROVE  TrackerInv'
    <2>1. AtRest' = AtRest
      BY <1>c DEF AtRest
    <2> QED
      BY <1>0, <1>c, <2>1 DEF TrackerInv
  <1>1. CASE SoundWalk
    BY <1>0, <1>1, WalkSound DEF SoundWalk
  <1>2. CASE WalkOffTime
    BY <1>0, <1>2, WalkSound DEF WalkOffTime
  <1>3. CASE WalkEmpty
    BY <1>0, <1>3, WalkSound DEF WalkEmpty
  <1>4. CASE WalkFrozen
    <2> DEFINE ev == Evaluated(NoTree, now, win)
    <2>1. Known(ev.lastGood, Live(NoTree) \cup (Event \cap greeted))
      BY <1>0, EvaluatedKnown
    <2>2. lastGood' = ev.lastGood /\ UNCHANGED <<tree, rt, file, last, greeted, told>>
      BY <1>4 DEF WalkFrozen, ghosts
    <2> HIDE DEF ev
    <2> QED
      BY <1>0, <1>c, <2>1, <2>2
  <1>5. CASE CrashInWalk
    <2>1. PICK w : CrashedIn(Update(tree, now, w, Evaluated(tree, now, w)))
      BY <1>5 DEF CrashInWalk
    <2>2. RunGood(Update(tree, now, w, Evaluated(tree, now, w)))
      BY <1>0, UpdateSound
    <2> QED
      BY <1>5, <1>a, <2>1, <2>2, CrashSound DEF CrashInWalk
  <1>6. CASE Crash
    <2> DEFINE ears == [last |-> last, greeted |-> greeted, told |-> told]
    <2>1. /\ file \in LogFile /\ ears \in Ears /\ StoredKnown(file.state, ears) /\ Receipted(ears)
      BY <1>0 DEF RunGood, RunSound, Runs, AtRest
    <2>2. file.torn \in BOOLEAN
      BY <2>1 DEF LogFile
    <2>3. Spoken(ears) /\ file' = LeftOf(file, file.torn) /\ Restarted /\ tree' = tree
      BY <1>6 DEF Crash, Spoken
    <2> HIDE DEF ears
    <2> QED
      BY <1>a, <2>1, <2>2, <2>3, RestartSound
  <1>7. ASSUME NEW e \in Event, NEW ep \in Episode, AlertCannotComply(e, ep) PROVE TrackerInv'
    <2>1. {e, ep} \in SUBSET Key
      BY DEF Key
    <2>2. \A acked \in BOOLEAN : Goes(AtRest, Alerted(e, {e, ep}, acked))
      BY <2>1, AlertedSound
    <2>3. tree' = tree
      BY <1>7 DEF AlertCannotComply, serverSide
    <2>4. CASE \E acked \in BOOLEAN : Finished(Alerted(e, {e, ep}, acked)) /\ lastGood' = lastGood
      BY <1>b, <2>2, <2>3, <2>4
    <2>5. CASE CrashedIn(Alerted(e, {e, ep}, ~suspended))
      <3>1. RunGood(Alerted(e, {e, ep}, ~suspended))
        BY <2>2 DEF Goes
      <3> QED
        BY <1>a, <2>3, <2>5, <3>1, CrashSound
    <2> QED
      BY <1>7, <2>4, <2>5 DEF AlertCannotComply
  <1>8. CASE ClearAlerts
    <2> DEFINE quiet   == [AtRest EXCEPT !.mem.alerted = {}, !.mem.confirmed = {}]
               settled == SetEpisode(quiet, [rt.epi EXCEPT !.breachActive = FALSE])
               run     == Emit(settled, settled.mem, [op |-> "clear"])
    <2>1. Goes(AtRest, run)
      BY ClearSound
    <2>2. tree' = tree /\ ((Finished(run) /\ lastGood' = lastGood) \/ CrashedIn(run))
      BY <1>8 DEF ClearAlerts, serverSide, sched
    <2> HIDE DEF run
    <2> QED
      BY <1>a, <1>b, <2>1, <2>2, CrashSound DEF Goes
  <1>9. CASE Tick
    BY <1>0, <1>9, <1>c DEF Tick, sched, ghosts
  <1>10. ASSUME NEW e \in Event, PostEvent(e) \/ CancelEvent(e) \/ WithdrawEvent(e) \/ GarbleEvent(e)
         PROVE  TrackerInv'
    <2>1. /\ UNCHANGED <<rt, file, last, greeted, told, lastGood>>
          /\ tree' \in {[tree EXCEPT !.listed = tree.listed \cup {e}],
                       [tree EXCEPT !.cancelled = tree.cancelled \cup {e}],
                       [tree EXCEPT !.listed = tree.listed \ {e}, !.cancelled = tree.cancelled \ {e},
                                    !.garbled = tree.garbled \ {e}],
                       [tree EXCEPT !.garbled = IF e \in tree.garbled THEN tree.garbled \ {e}
                                                ELSE tree.garbled \cup {e}]}
      BY <1>10 DEF PostEvent, CancelEvent, WithdrawEvent, GarbleEvent, Serves, sched, ghosts
    <2>2. tree' \in Trees
      <3>1. [tree EXCEPT !.listed = tree.listed \cup {e}] \in Trees
        BY <1>0 DEF Trees
      <3>2. [tree EXCEPT !.cancelled = tree.cancelled \cup {e}] \in Trees
        BY <1>0 DEF Trees
      <3>3. [tree EXCEPT !.listed = tree.listed \ {e}, !.cancelled = tree.cancelled \ {e},
                         !.garbled = tree.garbled \ {e}] \in Trees
        BY <1>0 DEF Trees
      <3>4. [tree EXCEPT !.garbled = IF e \in tree.garbled THEN tree.garbled \ {e}
                                     ELSE tree.garbled \cup {e}] \in Trees
        BY <1>0 DEF Trees
      <3> QED
        BY <2>1, <3>1, <3>2, <3>3, <3>4
    <2> QED
      BY <1>0, <1>c, <2>1, <2>2
  <1>11. CASE UNCHANGED vars
    BY <1>0, <1>11, <1>c DEF vars
  <1> QED
    BY <1>1, <1>2, <1>3, <1>4, <1>5, <1>6, <1>7, <1>8, <1>9, <1>10, <1>11 DEF Next

\* What a restart would make of the log is what the tracker knows, save for
\* what a torn line took with it; an alert on record was acknowledged; and of
\* no event has the server heard anything before its receipt.  Whatever the
\* order of walks, alerts, crashes in the middle of either and compactions.
THEOREM TrackerNeverForgets == Spec => []TrackerRemembers
  <1>1. TrackerInv => TrackerRemembers
    <2> SUFFICES ASSUME TrackerInv PROVE TrackerRemembers
      OBVIOUS
    <2>1. /\ rt \in Memory /\ file \in LogFile /\ LogSays(file, rt) /\ AlertsKept(file, rt)
          /\ rt.active = rt.epi.mrid
          /\ StoredKnown(file.state, AtRest.ears) /\ Receipted(AtRest.ears)
      BY RestFields DEF TrackerInv, RunGood, RunSound, Runs
    <2>2. LogMirrorsTracker
      <3> SUFFICES ASSUME ~file.ate
                   PROVE  Loaded(file.state) =
                            [rt EXCEPT !.posted = OpenPosted(rt.posted), !.alerted = rt.confirmed]
        BY DEF LogMirrorsTracker
      <3>1. /\ file.state.posted = OpenPosted(rt.posted) /\ file.state.epi = rt.epi
            /\ file.state.alerted = rt.confirmed
        BY <2>1 DEF LogSays, AlertsKept
      <3>2. Loaded(file.state) =
              [posted |-> OpenPosted(rt.posted), active |-> rt.active, alerted |-> rt.confirmed,
               confirmed |-> rt.confirmed, epi |-> rt.epi]
        BY <2>1, <3>1 DEF Loaded
      <3> DEFINE kept == [rt EXCEPT !.posted = OpenPosted(rt.posted), !.alerted = rt.confirmed]
      <3>3. OpenPosted(rt.posted) \in Statused
        BY <2>1, <3>1 DEF LogFile, Stored
      <3>4. /\ kept \in Memory /\ kept.posted = OpenPosted(rt.posted) /\ kept.active = rt.active
            /\ kept.alerted = rt.confirmed /\ kept.confirmed = rt.confirmed /\ kept.epi = rt.epi
        BY <2>1, <3>3 DEF Memory
      <3> HIDE DEF kept
      <3>5. kept = [posted |-> kept.posted, active |-> kept.active, alerted |-> kept.alerted,
                    confirmed |-> kept.confirmed, epi |-> kept.epi]
        BY <3>4 DEF Memory
      <3> QED
        BY <3>2, <3>4, <3>5 DEF kept
    <2>3. StoredAlertsWereTold
      BY <2>1, RestFields DEF StoredAlertsWereTold, StoredKnown
    <2>4. ReceiptComesFirst
      BY <2>1, RestFields DEF ReceiptComesFirst, Receipted
    <2> QED
      BY <2>2, <2>3, <2>4 DEF TrackerRemembers
  <1> QED
    BY <1>1, TrackerStarts, TrackerStep, PTL DEF Spec
=============================================================================
