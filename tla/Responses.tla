----------------------------- MODULE Responses -----------------------------
(***************************************************************************)
(* The event lifecycle of lexa-northbound: RunOnce walks the utility's     *)
(* server, the scheduler picks the control in force, and the response      *)
(* tracker (internal/northbound/responses) tells the server what became of *)
(* every event.  Breach alerts come from the hub on another goroutine; the *)
(* tracker's mutex makes each of its calls one step.  Its state survives   *)
(* in an append-only log: every line is synced, a crash may tear the last  *)
(* one, and a log that has grown is replaced by one snapshot line.         *)
(*                                                                         *)
(* The server changes its list freely.  A clock reading may be off by      *)
(* Glitch for one walk, and the registration PIN may not verify.           *)
(***************************************************************************)
EXTENDS Scheduler, Sequences

CONSTANTS
    Episode,       \* the breach episodes' ids
    Legacy,        \* legacy_cannotcomply_code
    CompactAfter,  \* log lines above which the log is compacted
    Glitch,        \* how far off a clock reading may be
    MaxTime, MaxRevisions, MaxAnomalies, MaxAlerts  \* bounds

ASSUME ResponsesAssumption ==
    /\ Episode \cap (Event \cup {NoMRID, DefaultMRID}) = {}
    /\ Legacy \in BOOLEAN
    /\ {CompactAfter, Glitch, MaxTime, MaxRevisions, MaxAnomalies, MaxAlerts} \subseteq Nat

NoStatus == 0
Received == 1
Started == 2
Completed == 3
Cancelled == 6
Superseded == 7
PartialOptOut == 8
NoParticipation == 10
RejectedInvalid == 253
StatusCodes == {Received, Started, Completed, Cancelled, Superseded, PartialOptOut,
             NoParticipation, RejectedInvalid}
Terminal(status) ==
    status \in {Completed, Cancelled, Superseded, PartialOptOut, NoParticipation}

Key == Event \cup Episode
NoEpisode == [mrid |-> NoMRID, sawBreach |-> FALSE, sawCompliant |-> FALSE,
              breachActive |-> FALSE]
EpisodeState == [mrid : Event \cup {NoMRID}, sawBreach : BOOLEAN,
                 sawCompliant : BOOLEAN, breachActive : BOOLEAN]

VARIABLES
    tree,      \* server: what a walk finds
    now,       \* server: the time
    win,       \* scheduler: the windows drawn for the events it has seen
    lastGood,  \* scheduler: the control last adopted
    hold,      \* scheduler: the forward-step debounce
    rt,        \* tracker: [posted, active, alerted, confirmed, epi]
    file,      \* the log: [state |-> what loading it yields, torn, lines, and
               \* ghost: has a torn line swallowed a later one? |-> ate]
    suspended, \* the egress gate
    glitched,  \* was the last clock reading off?
    last,      \* ghost: the last status posted for each event
    greeted,   \* ghost: the events whose receipt was answered
    told,      \* ghost: the keys of the alerts the server acknowledged
    heard,     \* ghost: the events breached while they were active
    beat,      \* flips with every sound walk: the discovery loop's ticker
    changes, anomalies, alerts  \* what is left of the bounds

serverSide == <<tree, now, changes>>
limits == <<beat, anomalies>>
sched == <<win, lastGood, hold, glitched>>
ghosts == <<last, greeted, told, heard>>
vars == <<tree, now, win, lastGood, hold, rt, file, suspended, glitched, last,
          greeted, told, heard, beat, changes, anomalies, alerts>>

-----------------------------------------------------------------------------
(* The store: LoadState, append, Compact. *)

EmptyState == [posted |-> [e \in Event |-> NoStatus], alerted |-> {}, epi |-> NoEpisode]
Settled(status) == IF Terminal(status) THEN NoStatus ELSE status
OpenPosted(posted) == [e \in Event |-> Settled(posted[e])]

\* applyEntry.
ApplyEntry(st, entry) ==
    [posted |-> [e \in Event |-> IF entry.op = "posted" /\ entry.mrid = e
                                 THEN Settled(entry.status) ELSE st.posted[e]],
     alerted |-> CASE entry.op = "alerted" -> st.alerted \cup entry.keys
                   [] entry.op = "clear" -> {}
                   [] OTHER -> st.alerted,
     epi |-> IF entry.op = "episode" THEN entry.epi ELSE st.epi]

\* A line appended to a torn one is lost with it.
Append1(f, entry) ==
    [state |-> IF f.torn THEN f.state ELSE ApplyEntry(f.state, entry),
     torn |-> FALSE, lines |-> f.lines + 1, ate |-> f.ate \/ f.torn]

\* The log a process leaves behind.
LeftOf(f, torn) == [state |-> f.state, torn |-> torn, lines |-> f.lines, ate |-> FALSE]

\* Compact: the alerts whose POST the server acknowledged, not those tried.
Snapshot(mem) ==
    [posted |-> OpenPosted(mem.posted), alerted |-> mem.confirmed, epi |-> mem.epi]

\* append, and maybeCompact with the tracker's state at that moment.
Written(f, entry, mem) ==
    IF Append1(f, entry).lines > CompactAfter
    THEN [state |-> Snapshot(mem), torn |-> FALSE, lines |-> 1, ate |-> FALSE]
    ELSE Append1(f, entry)

\* New: what a fresh process starts from.
Loaded(st) ==
    [posted |-> st.posted, active |-> st.epi.mrid, alerted |-> st.alerted,
     confirmed |-> st.alerted, epi |-> st.epi]

-----------------------------------------------------------------------------
(* The tracker.  A run is what the tracker has come to after the steps      *)
(* taken: its state, the log and what the server has heard; and for each    *)
(* step the entry it wrote, with the log before it and what the server had  *)
(* heard before and after it.                                               *)

Posted(mrid, status) == [op |-> "posted", mrid |-> mrid, status |-> status]

\* What the server hears of an entry; a status whose POST fails is recorded
\* like one whose POST does not.
Heard(ears, entry) ==
    [last |-> IF entry.op = "posted" THEN [ears.last EXCEPT ![entry.mrid] = entry.status]
              ELSE ears.last,
     greeted |-> IF entry.op = "posted" /\ entry.status \in {Received, RejectedInvalid}
                 THEN ears.greeted \cup {entry.mrid} ELSE ears.greeted,
     told |-> IF entry.op = "alerted" THEN ears.told \cup entry.keys ELSE ears.told]

Emit(run, mem, entry) ==
    [mem |-> mem, log |-> Written(run.log, entry, mem), ears |-> Heard(run.ears, entry),
     steps |-> Append(run.steps, [entry |-> entry, log |-> run.log, before |-> run.ears,
                                  after |-> Heard(run.ears, entry)])]

Set(run, mrid, status) ==
    Emit(run, [run.mem EXCEPT !.posted[mrid] = status], Posted(mrid, status))
MutSetEpisode(run, epi) == [run EXCEPT !.mem.epi = epi]
SetEpisode(run, epi) ==
    IF run.mem.epi = epi THEN run
    ELSE Emit(run, [run.mem EXCEPT !.epi = epi], [op |-> "episode", epi |-> epi])
SetActive(run, mrid) == [run EXCEPT !.mem.active = mrid]
Retired(run, mrid) ==
    IF run.mem.active = mrid THEN SetEpisode(SetActive(run, NoMRID), NoEpisode) ELSE run

EndOfEventCode(epi) ==
    CASE Legacy \/ ~epi.sawBreach -> Completed
      [] ~Legacy /\ epi.sawBreach /\ epi.sawCompliant -> PartialOptOut
      [] ~Legacy /\ epi.sawBreach /\ ~epi.sawCompliant -> NoParticipation

MutCompleteActive(run) ==
    IF run.mem.active = NoMRID THEN run
    ELSE SetEpisode(SetActive(run, NoMRID), NoEpisode)
CompleteActive(run) ==
    LET mrid  == run.mem.active
        ended == IF mrid # NoMRID /\ ~Terminal(run.mem.posted[mrid])
                 THEN Set(run, mrid, EndOfEventCode(run.mem.epi)) ELSE run
    IN  IF mrid = NoMRID THEN run ELSE Retired(ended, mrid)

\* Update, pass 1, for one listed event.
Greet(run, e, walked, superseded) ==
    LET seen  == run.mem.posted[e] # NoStatus
        known == IF seen THEN run ELSE Set(run, e, Received)
        over  == Terminal(known.mem.posted[e])
    IN  CASE e \in walked.cancelled ->
               IF seen /\ ~over THEN Retired(Set(run, e, Cancelled), e) ELSE run
          [] e \notin walked.cancelled /\ e \in superseded /\ ~over ->
               Retired(Set(known, e, Superseded), e)
          [] OTHER -> known
Pass1(run, walked, superseded) ==
    LET greatest == CHOOSE n \in {0} \cup Event : \A o \in Event : o <= n
        upTo[n \in 0..greatest] ==
            IF n = 0 THEN run
            ELSE IF n \in walked.listed THEN Greet(upTo[n - 1], n, walked, superseded)
            ELSE upTo[n - 1]
    IN  upTo[greatest]

\* Update, pass 2: the active event starts, is sampled, or ends.
Begin(run, mrid) ==
    LET seed == mrid \in run.mem.alerted
    IN  SetEpisode(SetActive(Set(run, mrid, Started), mrid),
                   [mrid |-> mrid, sawBreach |-> seed, sawCompliant |-> FALSE,
                    breachActive |-> seed])
Sampled(epi) ==
    IF epi.breachActive THEN [epi EXCEPT !.sawBreach = TRUE]
    ELSE [epi EXCEPT !.sawCompliant = TRUE]
Pass2(run, active, t) ==
    LET running == IF active.mrid # run.mem.active
                   THEN Begin(CompleteActive(run), active.mrid)
                   ELSE SetEpisode(run, Sampled(run.mem.epi))
    IN  IF active.source # "event" THEN CompleteActive(run)
        ELSE IF Expired(active, t) THEN CompleteActive(running) ELSE running

\* ReceiptReject.
Reject(run, mrid) ==
    LET seen == run.mem.posted[mrid]
    IN  IF Legacy \/ seen = RejectedInvalid \/ Terminal(seen) THEN run
        ELSE Set(run, mrid, RejectedInvalid)

AtRest ==
    [mem |-> rt, log |-> file, ears |-> [last |-> last, greeted |-> greeted, told |-> told],
     steps |-> <<>>]

\* What the server has heard.
Spoken(ears) == last' = ears.last /\ greeted' = ears.greeted /\ told' = ears.told

\* The steps of a run, all taken.
Finished(run) ==
    /\ rt' = run.mem
    /\ file' = run.log
    /\ Spoken(run.ears)

\* A new process: New with LoadState, an empty scheduler, no freeze.
Restarted ==
    /\ rt' = Loaded(file'.state)
    /\ win' = [e \in {} |-> 0]
    /\ lastGood' = NoControl
    /\ hold' = NoHold
    /\ suspended' = FALSE
    /\ glitched' = FALSE
    /\ heard' = IF file.ate \/ file'.torn THEN {} ELSE heard

\* The process dies in a run: before or after a step's POST, before or while
\* its line is written.
CrashedIn(run) ==
    \E i \in DOMAIN run.steps :
        LET step == run.steps[i]
        IN  /\ \/ file' = LeftOf(step.log, step.log.torn) /\ Spoken(step.before)
               \/ file' = LeftOf(step.log, step.log.torn) /\ Spoken(step.after)
               \/ file' = LeftOf(step.log, TRUE) /\ Spoken(step.after)
            /\ Restarted

-----------------------------------------------------------------------------
(* The walk: RunOnce after a successful discovery. *)

\* randomizedStart and randomizedDuration: drawn once, kept while listed.
Draws(seen) ==
    {w \in [seen -> UNION {Windows[e] : e \in seen}] :
        \A e \in seen : IF e \in DOMAIN win THEN w[e] = win[e] ELSE w[e] \in Windows[e]}

\* Evaluate.
Evaluated(t, r, w) ==
    LET resolved == Resolve(t, w, r)
        holding  == Holding(hold, lastGood, t, r)
        result   == FailClosed(resolved, lastGood, holding, t, r)
    IN  [active |-> result.active, lastGood |-> result.lastGood, hold |-> holding,
         rejected |-> IF Rejected(resolved, t) THEN {resolved.mrid} \cap Event ELSE {}]

\* What the tracker does in a walk: the reject hook fires inside Evaluate.
Update(t, r, w, ev) ==
    LET begun == IF ev.rejected = {} THEN AtRest ELSE Reject(AtRest, CHOOSE e \in ev.rejected : TRUE)
    IN  Pass2(Pass1(begun, t, SupersededMRIDs(t, w, r)), ev.active, r)

StartsIn(run) == {e \in Event : \E i \in DOMAIN run.steps : run.steps[i].entry = Posted(e, Started)}

\* One walk that finds t and reads the clock as r.
Walk(t, r) ==
    \E w \in IF t.found THEN Draws(t.listed) ELSE {win} :
        LET ev  == Evaluated(t, r, w)
            run == Update(t, r, w, ev)
        IN  /\ Finished(run)
            /\ win' = w
            /\ lastGood' = ev.lastGood
            /\ hold' = ev.hold
            /\ suspended' = FALSE
            /\ glitched' = (r # now)
            /\ heard' = IF StartsIn(run) = {} THEN heard
                        ELSE StartsIn(run) \cap run.mem.alerted
            /\ UNCHANGED <<tree, now, changes, alerts>>

SoundWalk == Walk(tree, now) /\ beat' = ~beat /\ UNCHANGED anomalies

Anomaly == anomalies > 0 /\ anomalies' = anomalies - 1 /\ UNCHANGED beat

\* The clock reads wrong for one walk.
WalkOffTime ==
    /\ Anomaly
    /\ ~glitched
    /\ \E r \in {now - Glitch, now + Glitch} : r >= 0 /\ Walk(tree, r)

\* The server returns no program.
WalkEmpty == Anomaly /\ Walk(NoTree, now)

\* The registration PIN does not verify: the control is held, the tracker and
\* the alerts are silenced.
WalkFrozen ==
    /\ Anomaly
    /\ LET ev == Evaluated(NoTree, now, win)
       IN  /\ lastGood' = ev.lastGood
           /\ hold' = ev.hold
    /\ suspended' = TRUE
    /\ glitched' = FALSE
    /\ UNCHANGED <<tree, now, win, rt, file, ghosts, changes, alerts>>

CrashInWalk ==
    /\ Anomaly
    /\ \E w \in Draws(tree.listed) : CrashedIn(Update(tree, now, w, Evaluated(tree, now, w)))
    /\ UNCHANGED <<tree, now, changes, alerts>>

Crash ==
    /\ Anomaly
    /\ file' = LeftOf(file, file.torn)
    /\ Restarted
    /\ UNCHANGED <<tree, now, last, greeted, told, changes, alerts>>

-----------------------------------------------------------------------------
(* The hub's alerts: AlertCannotComply and ClearAlerts. *)

\* Up to the POST; acked: the server took it.
Alerted(mrid, keys, acked) ==
    LET marked == [AtRest EXCEPT !.mem.alerted = @ \cup keys]
        noted  == IF mrid # rt.active THEN marked
                  ELSE SetEpisode(marked, [rt.epi EXCEPT !.sawBreach = TRUE,
                                                         !.breachActive = TRUE])
    IN  IF acked
        THEN Emit(noted, [noted.mem EXCEPT !.confirmed = @ \cup keys],
                  [op |-> "alerted", keys |-> keys])
        ELSE noted

\* A redelivered alert, or another of the same mRID or episode, does nothing.
AlertCannotComply(mrid, ep) ==
    /\ alerts > 0
    /\ alerts' = alerts - 1
    /\ {mrid, ep} \cap rt.alerted = {}
    /\ \/ /\ \/ ~suspended /\ Finished(Alerted(mrid, {mrid, ep}, TRUE)) /\ UNCHANGED limits
             \/ suspended /\ Finished(Alerted(mrid, {mrid, ep}, FALSE)) /\ UNCHANGED limits
             \/ ~suspended /\ Anomaly /\ Finished(Alerted(mrid, {mrid, ep}, FALSE))
          /\ heard' = heard \cup ({mrid} \cap {rt.active})
          /\ UNCHANGED <<win, lastGood, hold, suspended, glitched>>
       \/ /\ Anomaly
          /\ CrashedIn(Alerted(mrid, {mrid, ep}, ~suspended))
    /\ UNCHANGED serverSide

ClearAlerts ==
    /\ alerts > 0
    /\ alerts' = alerts - 1
    /\ LET quiet   == [AtRest EXCEPT !.mem.alerted = {}, !.mem.confirmed = {}]
           settled == SetEpisode(quiet, [rt.epi EXCEPT !.breachActive = FALSE])
           run     == Emit(settled, settled.mem, [op |-> "clear"])
       IN  \/ /\ Finished(run)
              /\ UNCHANGED <<sched, suspended, heard, limits>>
           \/ Anomaly /\ CrashedIn(run)
    /\ UNCHANGED serverSide

-----------------------------------------------------------------------------
(* The utility's server. *)

Tick ==
    /\ now < MaxTime
    /\ now' = now + 1
    /\ UNCHANGED <<tree, changes, sched, rt, file, suspended, ghosts, limits, alerts>>

Serves(t) ==
    /\ changes > 0
    /\ changes' = changes - 1
    /\ tree' = t
    /\ UNCHANGED <<now, sched, rt, file, suspended, ghosts, limits, alerts>>

PostEvent(e) == e \notin tree.listed /\ Serves([tree EXCEPT !.listed = @ \cup {e}])
CancelEvent(e) == e \in Live(tree) /\ Serves([tree EXCEPT !.cancelled = @ \cup {e}])
WithdrawEvent(e) ==
    /\ e \in tree.listed
    /\ Serves([tree EXCEPT !.listed = @ \ {e}, !.cancelled = @ \ {e}, !.garbled = @ \ {e}])
GarbleEvent(e) ==
    /\ e \in tree.listed
    /\ Serves([tree EXCEPT !.garbled = IF e \in @ THEN @ \ {e} ELSE @ \cup {e}])

-----------------------------------------------------------------------------
Init ==
    /\ tree \in {[NoTree EXCEPT !.found = TRUE, !.default = d] : d \in {NoMRID, DefaultMRID}}
    /\ now = 0
    /\ win = [e \in {} |-> 0]
    /\ lastGood = NoControl
    /\ hold = NoHold
    /\ rt = Loaded(EmptyState)
    /\ file = [state |-> EmptyState, torn |-> FALSE, lines |-> 0, ate |-> FALSE]
    /\ suspended = FALSE
    /\ glitched = FALSE
    /\ last = [e \in Event |-> NoStatus]
    /\ greeted = {}
    /\ told = {}
    /\ heard = {}
    /\ beat = FALSE
    /\ changes = MaxRevisions
    /\ anomalies = MaxAnomalies
    /\ alerts = MaxAlerts

Next ==
    \/ SoundWalk \/ WalkOffTime \/ WalkEmpty \/ WalkFrozen \/ CrashInWalk \/ Crash
    \/ \E e \in Event, ep \in Episode : AlertCannotComply(e, ep)
    \/ ClearAlerts
    \/ Tick
    \/ \E e \in Event : PostEvent(e) \/ CancelEvent(e) \/ WithdrawEvent(e) \/ GarbleEvent(e)

\* The discovery loop never stops; time passes.
Spec == Init /\ [][Next]_vars /\ WF_beat(beat' = ~beat) /\ WF_vars(Tick)

-----------------------------------------------------------------------------
\* Every variable has its type.
TypeOK ==
    /\ tree \in [found : BOOLEAN, listed : SUBSET Event, cancelled : SUBSET Event,
                 garbled : SUBSET Event, default : {NoMRID, DefaultMRID}]
    /\ now \in 0..MaxTime
    /\ DOMAIN win \subseteq Event /\ \A e \in DOMAIN win : win[e] \in Windows[e]
    /\ lastGood.mrid \in Event \cup {NoMRID, DefaultMRID}
    /\ hold.mrid \in Event \cup {NoMRID} /\ hold.count \in 0..Confirm
    /\ rt.posted \in [Event -> StatusCodes \cup {NoStatus}]
    /\ rt.active \in Event \cup {NoMRID}
    /\ rt.confirmed \subseteq rt.alerted /\ rt.alerted \subseteq Key
    /\ rt.epi \in EpisodeState /\ rt.epi.mrid = rt.active
    /\ file.lines \in 0..CompactAfter
    /\ {suspended, glitched} \subseteq BOOLEAN
    /\ last \in [Event -> StatusCodes \cup {NoStatus}]
    /\ greeted \subseteq Event /\ heard \subseteq Event /\ told \subseteq Key

\* Loading the log gives back what the tracker knows, at every moment between
\* two of its steps and across every compaction, except for what a torn line
\* took with it (persist.go): so a restart in the middle of an event forgets
\* neither the event nor its breaches.
LogMirrorsTracker ==
    ~file.ate => Loaded(file.state) =
                 [rt EXCEPT !.posted = OpenPosted(@), !.alerted = rt.confirmed]

\* An alert whose POST the server never acknowledged is not in the log: after
\* a restart a redelivered alert is posted (AlertCannotComply, Compact).
StoredAlertsWereTold == file.state.alerted \subseteq told

\* The server hears of the receipt (or the rejection) of an event before it
\* hears anything else of it, whatever crashes and restarts come between.
ReceiptComesFirst == \A e \in Event : last[e] # NoStatus => e \in greeted

\* What the tracker would know after a crash now is what it may rely on.
TrackerRemembers == LogMirrorsTracker /\ StoredAlertsWereTold /\ ReceiptComesFirst

\* One wrong clock reading, one empty program list or one frozen walk never
\* takes an event that is still served and still in its time out of force in
\* favour of the default or of nothing (failClosed and its two clock guards).
OneAnomalyNeverUnseats ==
    [][ /\ lastGood.source = "event"
        /\ lastGood.mrid \in Live(tree)
        /\ now < lastGood.until
        /\ tree.garbled = {}
        /\ lastGood.mrid \in DOMAIN win'
        => lastGood'.source = "event" ]_vars

\* An event that was breached while it was active is never reported completed
\* without reservation (endOfEventCode), restarts included.
EndCodeIsHonest ==
    [][\A e \in heard : last'[e] = Completed => last[e] = Completed]_vars

\* An event whose start is on disk gets its end reported.
StartedEventsEnd ==
    \A e \in Event : file.state.epi.mrid = e ~> Terminal(last[e])
=============================================================================
