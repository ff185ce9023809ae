--------------------------- MODULE DesiredChannel ---------------------------
(***************************************************************************)
(* How a command of the hub's plan becomes the standing intent of a        *)
(* device's reconciler: the hub's desired-document actuator (cmd/hub/      *)
(* desired.go), its asynchronous retained publish (mqttutil.PendingPub),   *)
(* the MQTT client's resend store and the broker's retained message        *)
(* (external), and the acceptance gate of the consuming reconciler.        *)
(*                                                                         *)
(* The actuator is optimistic: it takes a document for live as soon as it  *)
(* is handed to the client and rolls back when the outcome turns out badly *)
(* or does not turn up within PublishTimeout.  The client meanwhile keeps  *)
(* every unacknowledged document and resends them in order after a         *)
(* reconnect, so "failed" documents may still land.                        *)
(*                                                                         *)
(* The second half proves NoReplay and RecoversWithinHeartbeat for every   *)
(* value of the constants.                                                 *)
(***************************************************************************)
EXTENDS ReconcilerCore, TLAPS

CONSTANTS
    Classes,            \* the actuator classes in play
    Commands,           \* Commands[c]: the commands a plan may hold, by class
    Restore,            \* the explicit "no limit" level (RestoreCeilingW/A)
    RatedMaxA,          \* a station's rated current; 0 when unknown
    HeartbeatInterval,  \* re-publish age of an unchanged document
    PublishTimeout,     \* seconds after which an unacked publish is given up
    MaxPublishes,       \* bound on documents fired
    MaxFaults,          \* bound on link losses, restarts and omitted passes
    MaxTime             \* bound on the clock

ASSUME ChannelAssumption ==
    /\ Classes \subseteq {"battery", "solar", "evse"}
    /\ \A c \in Classes : Commands[c] \subseteq [fields : Opinions, mrid : MRID]
    /\ HeartbeatInterval \in Nat /\ 2 * HeartbeatInterval <= StaleAfter
    /\ PublishTimeout \in Nat
    /\ MaxPublishes \in Nat /\ MaxFaults \in Nat /\ MaxTime \in Nat

VARIABLES
    now,        \* the wall clock both processes share, in Unix seconds
    class,      \* the class of the device this channel serves
    carried,    \* opinions the actuator folds from one command to the next
    intent,     \* body of the last command's document; NoBody before one
    last,       \* lastPublished: the document believed live, or NoDoc
    seq,        \* the next document's sequence number
    pending,    \* the publish being tracked, or NoPending
    store,      \* client: unacknowledged documents, oldest first
    sent,       \* how many of them the broker has on this connection
    link,       \* is the hub's client connected?
    retained,   \* broker: the retained document, or NoDoc
    standing,   \* consumer: document its reconciler adopted, or NoDoc
    listening,  \* is the consumer subscribed?
    fired,      \* ghost: documents fired so far; numbers them
    faults,     \* ghost: faults and omitted passes so far
    passes,     \* passes of the engine this second: its own and a forced one
    calmAt      \* ghost: when the intent last changed, the engine last left
                \* the device out, or a fault last lasted

hubVars    == <<class, carried, intent, last, seq, pending>>
clientVars == <<store, sent, link>>
brokerVars == <<retained>>
deviceVars == <<standing, listening>>
ghostVars  == <<fired, faults, calmAt>>
vars == <<now, hubVars, clientVars, brokerVars, deviceVars, ghostVars, passes>>

NoDoc == [id |-> 0]
NoBody == [fields |-> NoOpinion, mrid |-> NoMRID]
NoPending == [id |-> 0, outcome |-> "none", sentAt |-> 0,
              prev |-> NoDoc, seq |-> 0]

Body(doc) == IF doc = NoDoc THEN NoBody
             ELSE [fields |-> doc.fields, mrid |-> doc.mrid]
-----------------------------------------------------------------------------
(* The actuator.                                                           *)

\* A command that holds no opinion on a carried field leaves it unchanged.
CarriedFields ==
    CASE class = "battery" -> {"SetpointW", "Connect"}
      [] OTHER             -> {"Connect"}

\* An EVSE document has always asserted connect.
CarriedAtStart(c) ==
    IF c = "evse" THEN [f \in {"Connect"} |-> 1] ELSE NoOpinion

\* Release is a value on the wire, never an absence: a solar command without
\* a cap, and an EVSE command at or above the rating, become Restore.
Explicit(fields) ==
    CASE class = "solar" ->
           [f \in {"CeilingW"} \cup DOMAIN fields |->
              IF f \notin DOMAIN fields THEN Restore
              ELSE IF f = "CeilingW" /\ fields[f] < 0 THEN 0 ELSE fields[f]]
      [] class = "evse" /\ "MaxCurrentA" \in DOMAIN fields /\ RatedMaxA > 0
           /\ fields["MaxCurrentA"] >= RatedMaxA ->
           [fields EXCEPT !["MaxCurrentA"] = Restore]
      [] OTHER -> fields

Merge(fields) ==
    [f \in DOMAIN fields \cup DOMAIN carried |->
        IF f \in DOMAIN fields THEN fields[f] ELSE carried[f]]

Keep(fields) == [f \in DOMAIN fields \cap CarriedFields |-> fields[f]]

\* harvestPending: what the tracked publish leaves of (last, seq, pending).
TimedOut(p) == p.outcome = "flight" /\ now - p.sentAt > PublishTimeout

Harvest(h) ==
    CASE h.pending.outcome = "ok" -> [h EXCEPT !.pending = NoPending]
      [] h.pending.outcome = "error" \/ TimedOut(h.pending) ->
           [last |-> h.pending.prev, seq |-> h.pending.seq,
            pending |-> NoPending]
      [] OTHER -> h

\* Mutant: an unchanged document is never published again.
MutHeartbeatNever(doc) == FALSE

HeartbeatDue(doc) == doc # NoDoc /\ now - doc.issuedAt >= HeartbeatInterval

\* Apply*Command: harvest, fold, and publish when the content changed or the
\* heartbeat is due.  The second, opportunistic harvest of the code sees an
\* outcome the next call's harvest would see, and nothing reads the state in
\* between, so one harvest stands for both.
Apply(cmd) ==
    LET h == Harvest([last |-> last, seq |-> seq, pending |-> pending])
        body == [fields |-> Merge(Explicit(cmd.fields)), mrid |-> cmd.mrid]
        doc == [id |-> fired + 1, fields |-> body.fields, mrid |-> body.mrid,
                seq |-> h.seq, issuedAt |-> now, finite |-> TRUE]
        due == h.last = NoDoc \/ Body(h.last) # body \/ HeartbeatDue(h.last)
    IN  /\ carried' = Keep(body.fields)
        /\ intent' = body
        /\ passes' = passes + 1
        /\ calmAt' = IF intent = body THEN calmAt ELSE now
        /\ \/ /\ ~due
              /\ last' = h.last /\ seq' = h.seq /\ pending' = h.pending
              /\ UNCHANGED <<store, fired>>
           \/ /\ due
              /\ fired < MaxPublishes
              /\ fired' = fired + 1
              /\ store' = Append(store, doc)
              /\ last' = doc
              /\ seq' = h.seq + 1
              /\ pending' = [id |-> doc.id, outcome |-> "flight",
                             sentAt |-> now, prev |-> h.last, seq |-> h.seq]
        /\ UNCHANGED <<now, class, sent, link, retained, deviceVars, faults>>

\* The engine's own pass of this second, or one forced by an urgent wake.
Command ==
    /\ passes < 2
    /\ \E cmd \in Commands[class] : Apply(cmd)

\* A pass whose plan holds no command for this device: the actuator, and
\* with it the heartbeat, is not called.
Omit ==
    /\ passes = 0
    /\ passes' = 1
    /\ faults < MaxFaults
    /\ faults' = faults + 1
    /\ calmAt' = now
    /\ UNCHANGED <<now, hubVars, clientVars, brokerVars, deviceVars, fired>>

\* The hub process dies and starts over; its in-memory store dies with it.
HubRestart ==
    /\ faults < MaxFaults
    /\ faults' = faults + 1
    /\ carried' = CarriedAtStart(class)
    /\ intent' = NoBody /\ last' = NoDoc /\ seq' = 0
    /\ pending' = NoPending /\ store' = <<>> /\ sent' = 0
    /\ link' = TRUE /\ passes' = 0 /\ calmAt' = now
    /\ UNCHANGED <<now, class, brokerVars, deviceVars, fired>>
-----------------------------------------------------------------------------
(* The consumer's gate: SetDesired of the core, reduced to what it adopts. *)

BaselineOf(doc) ==
    IF doc = NoDoc THEN [applied |-> FALSE, seq |-> 0, issuedAt |-> 0]
    ELSE [applied |-> TRUE, seq |-> doc.seq, issuedAt |-> doc.issuedAt]

\* Mutant: any sequence number is taken as long as the document is fresh.
MutReceiveUngated(doc) ==
    IF listening /\ now - doc.issuedAt <= StaleAfter
    THEN standing' = doc
    ELSE UNCHANGED standing

Receive(doc) ==
    IF listening /\ Accepts(BaselineOf(standing), doc, now)
    THEN standing' = doc
    ELSE UNCHANGED standing

\* The broker takes the next stored document: it becomes the retained one
\* and is forwarded to the subscriber.
BrokerAccept ==
    /\ link /\ sent < Len(store)
    /\ sent' = sent + 1
    /\ retained' = store[sent + 1]
    /\ Receive(store[sent + 1])
    /\ UNCHANGED <<now, hubVars, store, link, listening, ghostVars, passes>>

\* Acknowledgements come back in order; only the tracked publish notices.
BrokerAck ==
    /\ link /\ sent > 0
    /\ store' = Tail(store)
    /\ sent' = sent - 1
    /\ pending' = IF pending.id = Head(store).id /\ pending.outcome = "flight"
                  THEN [pending EXCEPT !.outcome = "ok"] ELSE pending
    /\ UNCHANGED <<now, class, carried, intent, last, seq, link, brokerVars,
                   deviceVars, ghostVars, passes>>

\* The connection drops; a write in progress fails with it.
LinkLost ==
    /\ link /\ faults < MaxFaults
    /\ faults' = faults + 1
    /\ link' = FALSE
    /\ sent' = 0
    /\ calmAt' = now
    /\ pending' \in {pending} \cup
          {[pending EXCEPT !.outcome = "error"] : p \in
              {q \in {pending} : q.outcome = "flight"}}
    /\ UNCHANGED <<now, class, carried, intent, last, seq, store, brokerVars,
                   deviceVars, fired, passes>>

\* On reconnect everything unacknowledged is sent again, in order.
LinkRestored ==
    /\ ~link
    /\ link' = TRUE
    /\ calmAt' = now
    /\ UNCHANGED <<now, hubVars, store, sent, brokerVars, deviceVars, fired,
                   faults, passes>>

\* The consumer's process restarts, or only its connection drops.
ConsumerLost ==
    /\ listening /\ faults < MaxFaults
    /\ faults' = faults + 1
    /\ listening' = FALSE
    /\ calmAt' = now
    /\ standing' \in {standing, NoDoc}
    /\ UNCHANGED <<now, hubVars, clientVars, brokerVars, fired,
                   passes>>

\* Subscribing delivers the retained document.
Subscribe ==
    /\ ~listening
    /\ listening' = TRUE
    /\ calmAt' = now
    /\ IF retained # NoDoc /\ Accepts(BaselineOf(standing), retained, now)
       THEN standing' = retained
       ELSE UNCHANGED standing
    /\ UNCHANGED <<now, hubVars, clientVars, brokerVars, fired, faults, passes>>

\* A second passes.  A connected client has exchanged everything by then and
\* the engine has made its pass.
Tick1s ==
    /\ now < MaxTime
    /\ passes > 0
    /\ link => store = <<>>
    /\ now' = now + 1
    /\ passes' = 0
    /\ calmAt' = IF link /\ listening THEN calmAt ELSE now + 1
    /\ UNCHANGED <<hubVars, clientVars, brokerVars, deviceVars, fired, faults>>

\* The bounds of the instance are used up.
Exhausted ==
    /\ now = MaxTime \/ fired = MaxPublishes
    /\ UNCHANGED vars

Init ==
    /\ now = 0
    /\ class \in Classes
    /\ carried = CarriedAtStart(class)
    /\ intent = NoBody /\ last = NoDoc /\ seq = 0 /\ pending = NoPending
    /\ store = <<>> /\ sent = 0 /\ link = TRUE
    /\ retained = NoDoc
    /\ standing = NoDoc /\ listening = TRUE
    /\ fired = 0 /\ faults = 0 /\ passes = 0 /\ calmAt = 0

Next ==
    \/ Command \/ Omit \/ HubRestart
    \/ BrokerAccept \/ BrokerAck \/ LinkLost \/ LinkRestored
    \/ ConsumerLost \/ Subscribe
    \/ Tick1s
    \/ Exhausted

Spec == Init /\ [][Next]_vars
-----------------------------------------------------------------------------
\* Documents carry the ids they were fired under, the client never has more
\* of them on the connection than it stores, and the tracked publish is the
\* one believed live.
TypeOK ==
    /\ now \in Nat /\ class \in Classes /\ fired \in Nat /\ faults \in Nat
    /\ carried \in Opinions
    /\ intent \in [fields : Opinions, mrid : MRID]
    /\ \A d \in {last, retained, standing} :
          d # NoDoc => d.id \in 1..fired /\ d.fields \in Opinions
    /\ \A i \in 1..Len(store) : store[i].id \in 1..fired
    /\ sent \in 0..Len(store)
    /\ pending # NoPending => /\ pending.id = last.id
                              /\ seq = pending.seq + 1

\* Everything the hub has handed over has been exchanged and the engine's
\* pass of this second is done.
Exchanged == link /\ listening /\ store = <<>> /\ passes > 0

\* The gate never lets a consumer fall back to a document fired earlier than
\* the one it stands on, through resends, rolled-back sequence numbers and
\* restarts of the hub (AD-013 rules 1 and 2 in setDesiredCore).
NoReplay ==
    [][standing # NoDoc /\ standing' # NoDoc => standing'.id >= standing.id]_vars

\* Whatever went wrong on the way, one heartbeat after the last disturbance
\* a consumer stands on the hub's intent, and one that starts from nothing
\* would adopt it: rollbacks to documents that were overtaken and refusals
\* within one second are repaired by the re-publish, and the re-stamping
\* beats the consumers' staleness bound, which is what keeps a restarted
\* device under its cap (harvestPending, heartbeatDue, setDesiredCore).
RecoversWithinHeartbeat ==
    Exchanged /\ intent # NoBody /\ now - calmAt > HeartbeatInterval =>
        /\ Body(standing) = intent
        /\ Body(retained) = intent
        /\ Accepts(BaselineOf(NoDoc), retained, now)
-----------------------------------------------------------------------------
(* NoReplay for every set of classes, commands, levels and bounds.  A      *)
(* document's place among the others is its id; the gate sees only the     *)
(* sequence number and the time.  Of what can still arrive (what the       *)
(* client stores, what the broker retains) against what it can meet (what  *)
(* is retained, what stands), neither goes down as the id goes up.         *)

Fired(d, n, t) ==
    d.id \in 1..n /\ d.seq \in Nat /\ d.issuedAt \in 0..t /\ d.finite = TRUE

Behind(c, d) == c.id < d.id => c.seq <= d.seq /\ c.issuedAt <= d.issuedAt

\* The sequence number that a rollback would leave.
Floor == IF pending.outcome = "none" THEN seq ELSE pending.seq

\* A sequence of anything is one of its own elements.
IsSequence(s) == s \in Seq({s[i] : i \in 1..Len(s)})

Tracked(p, q) ==
    /\ p \in [id : Nat, outcome : {"none", "flight", "ok", "error"}, sentAt : Nat,
              prev : {p.prev}, seq : Nat]
    /\ q \in Nat /\ (p.outcome # "none" => q = p.seq + 1)

Published ==
    /\ now \in Nat /\ fired \in Nat /\ Tracked(pending, seq)
    /\ IsSequence(store)
    /\ sent \in 0..Len(store)
    /\ \A i \in 1..Len(store) : Fired(store[i], fired, now) /\ store[i].seq <= Floor
    /\ retained = NoDoc \/ Fired(retained, fired, now)
    /\ standing = NoDoc \/ Fired(standing, fired, now)

Ordered ==
    /\ \A i, j \in 1..Len(store) : Behind(store[i], store[j])
    /\ \A i \in 1..Len(store) :
          /\ retained = NoDoc \/ Behind(store[i], retained)
          /\ standing = NoDoc \/ Behind(store[i], standing)
    /\ retained = NoDoc \/ standing = NoDoc \/ Behind(retained, standing)

IInv == Published /\ Ordered

LEMMA SequencesAre == \A S : \A s \in Seq(S) : IsSequence(s)
  BY DEF IsSequence

\* The gate refuses whatever is behind what stands.
LEMMA GateRefuses ==
    ASSUME NEW c, Fired(c, fired, now), Fired(standing, fired, now), Behind(c, standing),
           standing # NoDoc, Accepts(BaselineOf(standing), c, now),
           now \in Nat
    PROVE  c.id >= standing.id
  <1>1. SUFFICES ASSUME c.id < standing.id PROVE FALSE
    BY DEF Fired
  <1>2. c.seq <= standing.seq /\ c.issuedAt <= standing.issuedAt
    BY <1>1 DEF Behind
  <1>3. Regressed(BaselineOf(standing), c)
    BY <1>2 DEF Regressed, BaselineOf
  <1>4. CASE now - c.issuedAt > StaleAfter
    BY <1>4 DEF Accepts, GateVerdict, Fired
  <1>5. CASE now - c.issuedAt <= StaleAfter
    BY <1>3, <1>5 DEF Accepts, GateVerdict, Fired
  <1> QED
    BY <1>4, <1>5, ConfigAssumption DEF Fired

\* What the harvest leaves is at or above every stored sequence number.
LEMMA HarvestKeepsFloor ==
    ASSUME IInv, NEW h,
           h = Harvest([last |-> last, seq |-> seq, pending |-> pending])
    PROVE  /\ Tracked(h.pending, h.seq)
           /\ \A i \in 1..Len(store) :
                 /\ store[i].seq <= h.seq
                 /\ store[i].seq <= IF h.pending.outcome = "none" THEN h.seq ELSE h.pending.seq
  <1>1. CASE pending.outcome = "ok"
    <2>1. h = [last |-> last, seq |-> seq, pending |-> NoPending]
      BY <1>1 DEF Harvest, TimedOut
    <2> QED
      BY <2>1 DEF IInv, Published, Floor, Fired, Tracked, NoPending
  <1>2. CASE pending.outcome # "ok" /\ (pending.outcome = "error" \/ TimedOut(pending))
    <2>1. h = [last |-> pending.prev, seq |-> pending.seq, pending |-> NoPending]
      BY <1>2 DEF Harvest, TimedOut
    <2>2. pending.outcome # "none"
      BY <1>2 DEF TimedOut
    <2> QED
      BY <2>1, <2>2 DEF IInv, Published, Floor, Fired, Tracked, NoPending
  <1>3. CASE ~(pending.outcome = "ok" \/ pending.outcome = "error" \/ TimedOut(pending))
    <2>1. h = [last |-> last, seq |-> seq, pending |-> pending]
      BY <1>3 DEF Harvest, TimedOut
    <2> QED
      BY <2>1 DEF IInv, Published, Floor, Fired, Tracked, NoPending
  <1> QED
    BY <1>1, <1>2, <1>3

LEMMA Initially == Init => IInv
  <1> SUFFICES ASSUME Init PROVE IInv
    OBVIOUS
  <1>1. store = <<>> /\ store \in Seq({}) /\ Len(store) = 0
    BY DEF Init
  <1>2. IsSequence(store)
    BY <1>1, SequencesAre
  <1>3. Tracked(pending, seq)
    BY DEF Init, Tracked, NoPending
  <1> QED
    BY <1>1, <1>2, <1>3 DEF Init, IInv, Published, Ordered

LEMMA CommandKeeps == ASSUME IInv, Command PROVE IInv'
  <1> PICK cmd \in Commands[class] : Apply(cmd)
    BY DEF Command
  <1> DEFINE h == Harvest([last |-> last, seq |-> seq, pending |-> pending])
             body == [fields |-> Merge(Explicit(cmd.fields)), mrid |-> cmd.mrid]
             doc == [id |-> fired + 1, fields |-> body.fields, mrid |-> body.mrid,
                     seq |-> h.seq, issuedAt |-> now, finite |-> TRUE]
  <1>1. /\ Tracked(h.pending, h.seq)
        /\ \A i \in 1..Len(store) :
              /\ store[i].seq <= h.seq
              /\ store[i].seq <= IF h.pending.outcome = "none" THEN h.seq ELSE h.pending.seq
    BY HarvestKeepsFloor
  <1>2. UNCHANGED <<now, sent, retained, standing>>
    BY DEF Apply, deviceVars
  <1>3. \/ seq' = h.seq /\ pending' = h.pending /\ UNCHANGED <<store, fired>>
        \/ /\ fired' = fired + 1 /\ store' = Append(store, doc)
           /\ seq' = h.seq + 1
           /\ pending' = [id |-> doc.id, outcome |-> "flight",
                          sentAt |-> now, prev |-> h.last, seq |-> h.seq]
    BY DEF Apply
  <1> HIDE DEF h
  <1>4. CASE seq' = h.seq /\ pending' = h.pending /\ UNCHANGED <<store, fired>>
    <2>1. Published'
      BY <1>1, <1>2, <1>4 DEF IInv, Published, Fired, Floor
    <2>2. Ordered'
      BY <1>2, <1>4 DEF IInv, Ordered, Behind
    <2> QED
      BY <2>1, <2>2 DEF IInv
  <1>5. CASE /\ fired' = fired + 1 /\ store' = Append(store, doc)
             /\ seq' = h.seq + 1
             /\ pending' = [id |-> doc.id, outcome |-> "flight",
                            sentAt |-> now, prev |-> h.last, seq |-> h.seq]
    <2>0. now \in Nat /\ fired \in Nat
      BY DEF IInv, Published
    <2> DEFINE S == {store[i] : i \in 1..Len(store)} \cup {doc}
    <2>1. store \in Seq(S) /\ doc \in S
      BY DEF IInv, Published, IsSequence
    <2> HIDE DEF S
    <2>2. /\ Len(store') = Len(store) + 1 /\ Len(store) \in Nat
          /\ \A i \in 1..Len(store) : store'[i] = store[i]
          /\ store'[Len(store) + 1] = doc
          /\ store' \in Seq(S)
      BY <1>5, <2>1
    <2>3. doc.id = fired + 1 /\ doc.seq = h.seq /\ doc.issuedAt = now /\ doc.finite = TRUE
      OBVIOUS
    <2> HIDE DEF doc
    <2>4. IsSequence(store')
      BY <2>2, SequencesAre
    <2>5. pending'.seq = h.seq /\ pending'.outcome # "none" /\ Tracked(pending', seq')
      BY <1>1, <1>5, <2>0, <2>3 DEF Tracked
    <2>6. \A i \in 1..Len(store') : Fired(store'[i], fired', now') /\ store'[i].seq <= Floor'
      <3>1. \A i \in 1..Len(store) : Fired(store[i], fired', now') /\ store[i].seq <= Floor'
        <4> SUFFICES ASSUME NEW i \in 1..Len(store)
                     PROVE  Fired(store[i], fired', now') /\ store[i].seq <= Floor'
          OBVIOUS
        <4>1. Fired(store[i], fired, now) /\ store[i].seq <= h.seq
          BY <1>1 DEF IInv, Published
        <4>2. Floor' = h.seq
          BY <2>5 DEF Floor
        <4> QED
          BY <1>2, <1>5, <2>0, <4>1, <4>2 DEF Fired
      <3>2. Fired(doc, fired', now') /\ doc.seq <= Floor'
        BY <1>1, <1>2, <1>5, <2>0, <2>3, <2>5 DEF Fired, Floor, Tracked
      <3> QED
        BY <2>2, <3>1, <3>2
    <2>7. Published'
      BY <1>1, <1>2, <1>5, <2>0, <2>2, <2>4, <2>5, <2>6 DEF IInv, Published, Fired
    <2>8. \A i \in 1..Len(store) : Behind(store[i], doc) /\ Behind(doc, store[i])
      BY <1>1, <2>0, <2>3 DEF IInv, Published, Behind, Fired
    <2>9. /\ retained = NoDoc \/ Behind(doc, retained)
          /\ standing = NoDoc \/ Behind(doc, standing)
          /\ Behind(doc, doc)
      BY <2>0, <2>3 DEF IInv, Published, Behind, Fired
    <2>10. Ordered'
      BY <1>2, <2>2, <2>8, <2>9 DEF IInv, Ordered
    <2> QED
      BY <2>7, <2>10 DEF IInv
  <1> QED
    BY <1>3, <1>4, <1>5

LEMMA AcceptKeeps == ASSUME IInv, BrokerAccept PROVE IInv'
  <1> DEFINE d == store[sent + 1]
  <1>1. sent + 1 \in 1..Len(store) /\ sent' \in 0..Len(store)
    BY DEF IInv, Published, BrokerAccept
  <1>2. UNCHANGED <<now, fired, seq, pending, store>> /\ retained' = d
    BY DEF BrokerAccept, hubVars, ghostVars
  <1>3. standing' = d \/ standing' = standing
    BY DEF BrokerAccept, Receive
  <1>4. Fired(d, fired, now)
    BY <1>1 DEF IInv, Published
  <1>5. Published'
    BY <1>1, <1>2, <1>3, <1>4 DEF IInv, Published, Fired, Floor
  <1>6. \A i \in 1..Len(store) : Behind(store[i], d)
    BY <1>1 DEF IInv, Ordered
  <1>7. standing = NoDoc \/ Behind(d, standing)
    BY <1>1 DEF IInv, Ordered
  <1>8. Behind(d, d)
    BY <1>4 DEF Behind, Fired
  <1> HIDE DEF d
  <1>9. Ordered'
    BY <1>2, <1>3, <1>6, <1>7, <1>8 DEF IInv, Ordered
  <1> QED
    BY <1>5, <1>9 DEF IInv

LEMMA AckKeeps == ASSUME IInv, BrokerAck PROVE IInv'
  <1>1. store \in Seq({store[i] : i \in 1..Len(store)}) /\ Len(store) \in Nat \ {0}
    BY DEF IInv, Published, IsSequence, BrokerAck
  <1>2. /\ Len(store') = Len(store) - 1
        /\ \A i \in 1..Len(store') : store'[i] = store[i + 1] /\ i + 1 \in 1..Len(store)
        /\ store' \in Seq({store[i] : i \in 1..Len(store)})
    BY <1>1 DEF BrokerAck
  <1>3. IsSequence(store')
    BY <1>2, SequencesAre
  <1>4. /\ UNCHANGED <<now, fired, seq, retained, standing>>
        /\ sent' \in 0..Len(store')
        /\ \/ pending' = pending
           \/ pending.outcome = "flight" /\ pending' = [pending EXCEPT !.outcome = "ok"]
    BY <1>1, <1>2 DEF BrokerAck, IInv, Published, brokerVars, deviceVars, ghostVars
  <1>5. Floor' = Floor /\ Tracked(pending', seq')
    BY <1>4 DEF Floor, IInv, Published, Tracked
  <1>6. Published'
    BY <1>2, <1>3, <1>4, <1>5 DEF IInv, Published, Fired
  <1>7. Ordered'
    BY <1>2, <1>4 DEF IInv, Ordered
  <1> QED
    BY <1>6, <1>7 DEF IInv
LEMMA LinkKeeps == ASSUME IInv, LinkLost \/ LinkRestored PROVE IInv'
  <1>1. UNCHANGED <<now, fired, seq, store, retained, standing>>
    BY DEF LinkLost, LinkRestored, hubVars, brokerVars, deviceVars
  <1>2. sent' \in 0..Len(store)
    BY DEF LinkLost, LinkRestored, IInv, Published, IsSequence
  <1>3. \/ pending' = pending
        \/ pending.outcome = "flight" /\ pending' = [pending EXCEPT !.outcome = "error"]
    BY DEF LinkLost, LinkRestored, hubVars
  <1>4. Floor' = Floor /\ Tracked(pending', seq')
    BY <1>1, <1>3 DEF Floor, IInv, Published, Tracked
  <1>5. Published'
    BY <1>1, <1>2, <1>4 DEF IInv, Published
  <1>6. Ordered'
    BY <1>1 DEF IInv, Ordered
  <1> QED
    BY <1>5, <1>6 DEF IInv

LEMMA ConsumerKeeps == ASSUME IInv, ConsumerLost \/ Subscribe PROVE IInv'
  <1>1. UNCHANGED <<now, fired, seq, pending, store, sent, retained>>
    BY DEF ConsumerLost, Subscribe, hubVars, clientVars, brokerVars
  <1>2. standing' \in {standing, retained, NoDoc}
    BY DEF ConsumerLost, Subscribe
  <1>3. Published'
    BY <1>1, <1>2 DEF IInv, Published, Floor
  <1>4. retained = NoDoc \/ Behind(retained, retained)
    BY DEF Behind, IInv, Published, Fired
  <1>5. Ordered'
    BY <1>1, <1>2, <1>4 DEF IInv, Ordered
  <1> QED
    BY <1>3, <1>5 DEF IInv

LEMMA RestartKeeps == ASSUME IInv, HubRestart PROVE IInv'
  <1>1. /\ UNCHANGED <<now, fired, retained, standing>>
        /\ store' = <<>> /\ store' \in Seq({}) /\ Len(store') = 0 /\ sent' = 0
    BY DEF HubRestart, brokerVars, deviceVars
  <1>2. IsSequence(store')
    BY <1>1, SequencesAre
  <1>3. Tracked(pending', seq')
    BY DEF HubRestart, Tracked, NoPending
  <1>4. Published'
    BY <1>1, <1>2, <1>3 DEF IInv, Published, HubRestart
  <1>5. Ordered'
    BY <1>1 DEF IInv, Ordered
  <1> QED
    BY <1>4, <1>5 DEF IInv

\* Time only ever passes: what was fired by now was fired by later.
LEMMA TickKeeps == ASSUME IInv, Tick1s PROVE IInv'
  <1>1. /\ UNCHANGED <<fired, seq, pending, store, sent, retained, standing>>
        /\ now \in Nat /\ now' = now + 1
    BY DEF Tick1s, hubVars, clientVars, brokerVars, deviceVars, IInv, Published
  <1>2. \A d : Fired(d, fired, now) => Fired(d, fired, now')
    BY <1>1 DEF Fired
  <1>3. Published'
    BY <1>1, <1>2 DEF IInv, Published, Floor
  <1>4. Ordered'
    BY <1>1 DEF IInv, Ordered
  <1> QED
    BY <1>3, <1>4 DEF IInv

LEMMA NextKeeps == ASSUME IInv, [Next]_vars PROVE IInv'
  <1>1. CASE Command
    BY <1>1, CommandKeeps
  <1>2. CASE Omit
    <2>1. UNCHANGED <<now, fired, seq, pending, store, sent, retained, standing>>
      BY <1>2 DEF Omit, hubVars, clientVars, brokerVars, deviceVars
    <2> QED
      BY <2>1 DEF IInv, Published, Ordered, Floor
  <1>3. CASE HubRestart
    BY <1>3, RestartKeeps
  <1>4. CASE BrokerAccept
    BY <1>4, AcceptKeeps
  <1>5. CASE BrokerAck
    BY <1>5, AckKeeps
  <1>6. CASE LinkLost \/ LinkRestored
    BY <1>6, LinkKeeps
  <1>7. CASE ConsumerLost \/ Subscribe
    BY <1>7, ConsumerKeeps
  <1>8. CASE Tick1s
    BY <1>8, TickKeeps
  <1>9. CASE Exhausted \/ UNCHANGED vars
    <2>1. UNCHANGED <<now, fired, seq, pending, store, sent, retained, standing>>
      BY <1>9 DEF Exhausted, vars, hubVars, clientVars, brokerVars, deviceVars, ghostVars
    <2> QED
      BY <2>1 DEF IInv, Published, Ordered, Floor
  <1> QED
    BY <1>1, <1>2, <1>3, <1>4, <1>5, <1>6, <1>7, <1>8, <1>9 DEF Next

\* Only the arrival of a document moves the standing one, and the gate sees
\* to it that what arrives was not fired earlier.
LEMMA OnlyForward ==
    ASSUME IInv, [Next]_vars, standing # NoDoc, standing' # NoDoc
    PROVE  standing'.id >= standing.id
  <1>0. Fired(standing, fired, now) /\ now \in Nat
    BY DEF IInv, Published
  <1>1. CASE standing' = standing
    BY <1>0, <1>1 DEF Fired
  <1>2. CASE BrokerAccept /\ standing' # standing
    <2> DEFINE d == store[sent + 1]
    <2>1. sent + 1 \in 1..Len(store)
      BY <1>2 DEF BrokerAccept, IInv, Published
    <2>2. Fired(d, fired, now) /\ Behind(d, standing)
      BY <2>1 DEF IInv, Published, Ordered
    <2>3. standing' = d /\ Accepts(BaselineOf(standing), d, now)
      BY <1>2 DEF BrokerAccept, Receive
    <2> QED
      BY <1>0, <2>2, <2>3, GateRefuses
  <1>3. CASE Subscribe /\ standing' # standing
    <2>1. standing' = retained /\ retained # NoDoc
          /\ Accepts(BaselineOf(standing), retained, now)
      BY <1>3 DEF Subscribe
    <2>2. Fired(retained, fired, now) /\ Behind(retained, standing)
      BY <2>1 DEF IInv, Published, Ordered
    <2> QED
      BY <1>0, <2>1, <2>2, GateRefuses
  <1>4. BrokerAccept \/ Subscribe \/ standing' \in {standing, NoDoc}
    BY DEF Next, vars, Command, Apply, Omit, HubRestart, BrokerAck, LinkLost, LinkRestored,
           ConsumerLost, Tick1s, Exhausted, deviceVars
  <1> QED
    BY <1>1, <1>2, <1>3, <1>4

\* No device falls back to a document fired before the one it stands on
\* (setDesiredCore's gate against the resend store of the client, the
\* retained message, rolled-back numbers and restarts of hub and device),
\* for any commands, bounds and order of events.
THEOREM NeverFallsBack == Spec => NoReplay
  <1>1. IInv /\ [Next]_vars =>
           [standing # NoDoc /\ standing' # NoDoc => standing'.id >= standing.id]_vars
    BY OnlyForward
  <1> QED
    BY <1>1, Initially, NextKeeps, PTL DEF Spec, NoReplay

-----------------------------------------------------------------------------
(* RecoversWithinHeartbeat, likewise.  Calm means that the last            *)
(* disturbance was before this second: nothing but the engine's passes and *)
(* the exchange of what they fire has happened in it.                      *)

Calm == now > calmAt

\* What the actuator may come to believe live was fired by now.
Dated(d) == d = NoDoc \/ d.issuedAt \in 0..now

\* A disturbed second counts as disturbed, and a failure belongs to one.
Disturbances ==
    /\ calmAt \in 0..now
    /\ Calm => link /\ listening
    /\ Dated(last)
    /\ pending.outcome # "none" => Dated(pending.prev)
    /\ pending.outcome = "error" /\ pending.prev # NoDoc => pending.prev.issuedAt <= calmAt

\* The publish in flight is the last one the client stores, and in a calm
\* second both are of that second.
InFlight ==
    /\ \A i, j \in 1..Len(store) : i < j => store[i].id < store[j].id
    /\ pending.outcome = "flight" => store # <<>> /\ store[Len(store)].id = pending.id
    /\ Calm /\ pending.outcome = "flight" => pending.sentAt = now
    /\ Calm => \A i \in 1..Len(store) : store[i].issuedAt = now /\ store[i].seq < seq
    /\ Calm /\ standing # NoDoc /\ standing.issuedAt = now => passes > 0 /\ standing.seq < seq
    /\ Calm /\ store # <<>> => passes > 0

\* A calm pass believes the intent live, by a document young enough.
Passed ==
    Calm /\ passes > 0 =>
        /\ pending.outcome # "error"
        /\ last # NoDoc /\ Body(last) = intent
        /\ last.issuedAt = now \/ now - last.issuedAt < HeartbeatInterval

\* What was fired since the last disturbance is about to arrive, and nothing
\* the consumer may stand on then keeps it out, or it has.
Arrives ==
    last # NoDoc /\ last.issuedAt > calmAt =>
        /\ last.id = fired
        /\ \/ retained = last /\ standing = last /\ sent = Len(store)
           \/ /\ sent < Len(store) /\ store[Len(store)] = last
              /\ \A i \in 1..(Len(store) - 1) : store[i].seq < last.seq
              /\ standing # NoDoc /\ standing.issuedAt = now => standing.seq < last.seq

Recovering == Disturbances /\ InFlight /\ Passed /\ Arrives

\* A disturbance: the second is not calm, and what is believed live is older.
LEMMA DisturbedRecovers ==
    ASSUME IInv, Recovering, now' = now, calmAt' = now, last' \in {last, NoDoc},
           \/ /\ store' = store
              /\ \/ pending' = pending
                 \/ pending.outcome = "flight" /\ pending' = [pending EXCEPT !.outcome = "error"]
           \/ store' = <<>> /\ pending' = NoPending
    PROVE  Recovering'
  <1>0. now \in Nat
    BY DEF IInv, Published
  <1>1. ~Calm'
    BY <1>0 DEF Calm
  <1>2. /\ Dated(last)' /\ (last' = NoDoc \/ last'.issuedAt \in 0..now)
        /\ \A d : Dated(d) => (d = NoDoc \/ d.issuedAt <= now)
    BY <1>0 DEF Recovering, Disturbances, Dated
  <1>3. /\ pending'.outcome # "none" => pending'.prev = pending.prev /\ Dated(pending.prev)
        /\ pending'.outcome = "flight" => pending' = pending /\ store' = store
    BY DEF Recovering, Disturbances, NoPending, IInv, Published, Tracked
  <1>4. Disturbances'
    BY <1>0, <1>1, <1>2, <1>3 DEF Disturbances, Dated
  <1>5. InFlight'
    <2>1. store' = store \/ Len(store') = 0
      OBVIOUS
    <2> QED
      BY <1>1, <1>3, <2>1 DEF Recovering, InFlight
  <1>6. Arrives'
    <2>1. ~(last' # NoDoc /\ last'.issuedAt > calmAt')
      BY <1>0, <1>2
    <2> QED
      BY <2>1 DEF Arrives
  <1> QED
    BY <1>1, <1>4, <1>5, <1>6 DEF Recovering, Passed

\* A second passes: what it leaves has been exchanged.
LEMMA TickRecovers == ASSUME IInv, Recovering, Tick1s PROVE Recovering'
  <1>1. /\ UNCHANGED <<last, seq, pending, store, sent, link, retained, standing, listening, fired>>
        /\ now \in Nat /\ now' = now + 1 /\ passes' = 0
        /\ calmAt' = IF link /\ listening THEN calmAt ELSE now + 1
    BY DEF Tick1s, hubVars, clientVars, brokerVars, deviceVars, IInv, Published
  <1>2. calmAt \in 0..now /\ calmAt' \in calmAt..now'
    BY <1>1 DEF Recovering, Disturbances
  <1>3. Calm' => /\ link /\ listening /\ calmAt' = calmAt
                 /\ store = <<>> /\ Len(store) = 0 /\ pending.outcome # "flight"
    BY <1>1, <1>2 DEF Tick1s, Calm, Recovering, InFlight
  <1>4. Disturbances'
    BY <1>1, <1>2, <1>3 DEF Recovering, Disturbances, Dated
  <1>5. InFlight'
    <2>1. standing # NoDoc => standing.issuedAt \in 0..now
      BY DEF IInv, Published, Fired
    <2> QED
      BY <1>1, <1>3, <2>1 DEF Recovering, InFlight
  <1>6. Passed'
    BY <1>1 DEF Passed
  <1>7. Arrives'
    <2> SUFFICES ASSUME last # NoDoc, last.issuedAt > calmAt'
                 PROVE  /\ last.id = fired
                        /\ retained = last /\ standing = last /\ sent = Len(store)
      BY <1>1 DEF Arrives
    <2>1. last.issuedAt \in 0..now
      BY DEF Recovering, Disturbances, Dated
    <2>2. Calm' /\ last.issuedAt > calmAt
      BY <1>1, <1>2, <2>1 DEF Calm
    <2>3. Len(store) = 0 /\ sent \in 0..Len(store)
      BY <1>3, <2>2 DEF IInv, Published
    <2> QED
      BY <2>2, <2>3 DEF Recovering, Arrives
  <1> QED
    BY <1>4, <1>5, <1>6, <1>7 DEF Recovering

\* The gate takes a document of this second, unless what stands is one too
\* and has its number or a later one.
LEMMA GateTakes ==
    ASSUME NEW d, d.issuedAt = now, d.finite = TRUE, now \in Nat, d.seq \in Nat,
           standing = NoDoc \/ Fired(standing, fired, now),
           standing # NoDoc /\ standing.issuedAt = now => standing.seq < d.seq
    PROVE  Accepts(BaselineOf(standing), d, now)
  <1>1. ~(d.finite /\ now - d.issuedAt > StaleAfter)
    BY ConfigAssumption
  <1>2. ~Regressed(BaselineOf(standing), d)
    <2>1. CASE standing = NoDoc
      BY <2>1 DEF Regressed, BaselineOf
    <2>2. CASE standing # NoDoc
      <3>1. /\ BaselineOf(standing).seq = standing.seq /\ standing.seq \in Nat
            /\ BaselineOf(standing).issuedAt = standing.issuedAt /\ standing.issuedAt \in 0..now
        BY <2>2 DEF BaselineOf, Fired
      <3>2. standing.issuedAt = now => standing.seq < d.seq
        BY <2>2
      <3> QED
        BY <3>1, <3>2 DEF Regressed
    <2> QED
      BY <2>1, <2>2
  <1> QED
    BY <1>1, <1>2 DEF Accepts, GateVerdict

LEMMA AcceptRecovers == ASSUME IInv, Recovering, BrokerAccept PROVE Recovering'
  <1> DEFINE d == store[sent + 1]
  <1>1. /\ UNCHANGED <<now, intent, last, seq, pending, store, link, listening, fired, calmAt, passes>>
        /\ sent' = sent + 1 /\ retained' = d /\ sent + 1 \in 1..Len(store)
    BY DEF BrokerAccept, hubVars, ghostVars, IInv, Published
  <1>2. Receive(d) /\ (standing' = d \/ standing' = standing)
    BY DEF BrokerAccept, Receive
  <1>3. Fired(d, fired, now) /\ now \in Nat
    BY <1>1 DEF IInv, Published
  <1>4. Calm => d.issuedAt = now /\ d.seq < seq /\ passes > 0
    <2>1. store # <<>>
      BY <1>1
    <2> QED
      BY <1>1, <2>1 DEF Recovering, InFlight
  <1> HIDE DEF d
  <1>5. Disturbances' /\ Passed' /\ Calm' = Calm
    BY <1>1 DEF Recovering, Disturbances, Passed, Calm, Dated
  <1>6. InFlight'
    BY <1>1, <1>2, <1>4, <1>5 DEF Recovering, InFlight
  <1>7. Arrives'
    <2> SUFFICES ASSUME last # NoDoc, last.issuedAt > calmAt
                 PROVE  /\ last.id = fired
                        /\ \/ d = last /\ standing' = last /\ sent + 1 = Len(store)
                           \/ /\ sent + 1 < Len(store) /\ store[Len(store)] = last
                              /\ \A i \in 1..(Len(store) - 1) : store[i].seq < last.seq
                              /\ standing' # NoDoc /\ standing'.issuedAt = now
                                     => standing'.seq < last.seq
      BY <1>1 DEF Arrives
    <2>1. Calm
      BY <1>3 DEF Recovering, Disturbances, Dated, Calm
    <2>2. /\ last.id = fired
          /\ sent < Len(store) /\ store[Len(store)] = last
          /\ \A i \in 1..(Len(store) - 1) : store[i].seq < last.seq
          /\ standing # NoDoc /\ standing.issuedAt = now => standing.seq < last.seq
      BY <1>1 DEF Recovering, Arrives
    <2>3. CASE sent + 1 = Len(store)
      <3>1. d = last
        BY <2>2, <2>3 DEF d
      <3>2. standing = NoDoc \/ Fired(standing, fired, now)
        BY DEF IInv, Published
      <3>3. listening
        BY <2>1 DEF Recovering, Disturbances
      <3>4. Accepts(BaselineOf(standing), d, now)
        BY <1>3, <1>4, <2>1, <2>2, <3>1, <3>2, GateTakes DEF Fired
      <3> QED
        BY <1>2, <2>2, <2>3, <3>1, <3>3, <3>4 DEF Receive
    <2>4. CASE sent + 1 # Len(store)
      <3>1. sent + 1 \in 1..(Len(store) - 1)
        BY <1>1, <2>4
      <3>2. d.seq < last.seq
        BY <2>2, <3>1 DEF d
      <3> QED
        BY <1>1, <1>2, <2>2, <3>1, <3>2
    <2> QED
      BY <2>3, <2>4
  <1> QED
    BY <1>5, <1>6, <1>7 DEF Recovering

LEMMA TailIs ==
    ASSUME NEW S, NEW s \in Seq(S), s # <<>>
    PROVE  /\ Len(s) \in Nat \ {0} /\ Tail(s) \in Seq(S) /\ Head(s) = s[1]
           /\ Len(Tail(s)) = Len(s) - 1
           /\ \A i \in 1..Len(Tail(s)) : Tail(s)[i] = s[i + 1] /\ i + 1 \in 1..Len(s)
           /\ Tail(s) = <<>> <=> Len(s) = 1
  <1>1. /\ Len(s) \in Nat \ {0} /\ Tail(s) \in Seq(S) /\ Head(s) = s[1]
        /\ Len(Tail(s)) = Len(s) - 1
    OBVIOUS
  <1>2. \A i \in 1..Len(Tail(s)) : Tail(s)[i] = s[i + 1] /\ i + 1 \in 1..Len(s)
    OBVIOUS
  <1>3. Tail(s) = <<>> <=> Len(Tail(s)) = 0
    <2>1. \A q \in Seq(S) : q = <<>> <=> Len(q) = 0
      OBVIOUS
    <2> QED
      BY <1>1, <2>1
  <1> QED
    BY <1>1, <1>2, <1>3

LEMMA AckRecovers == ASSUME IInv, Recovering, BrokerAck PROVE Recovering'
  <1> DEFINE S == {store[i] : i \in 1..Len(store)}
  <1>1. store # <<>> /\ store \in Seq(S)
    BY DEF IInv, Published, IsSequence, BrokerAck
  <1> HIDE DEF S
  <1>2. /\ Len(store) \in Nat \ {0} /\ Head(store) = store[1]
        /\ Len(store') = Len(store) - 1 /\ Len(store') \in Nat
        /\ \A i \in 1..Len(store') : store'[i] = store[i + 1] /\ i + 1 \in 1..Len(store)
        /\ store' = <<>> <=> Len(store) = 1
    <2>1. store' = Tail(store)
      BY DEF BrokerAck
    <2>2. /\ Len(store) \in Nat \ {0} /\ Head(store) = store[1]
          /\ Len(Tail(store)) = Len(store) - 1
          /\ \A i \in 1..Len(Tail(store)) :
                Tail(store)[i] = store[i + 1] /\ i + 1 \in 1..Len(store)
          /\ Tail(store) = <<>> <=> Len(store) = 1
      BY <1>1, TailIs
    <2>3. Len(Tail(store)) \in Nat
      BY <2>2
    <2> QED
      BY <2>1, <2>2, <2>3
  <1>3. /\ UNCHANGED <<now, intent, last, seq, link, retained, standing, listening, fired, calmAt, passes>>
        /\ sent' = sent - 1 /\ sent \in 1..Len(store)
        /\ pending' = IF pending.id = Head(store).id /\ pending.outcome = "flight"
                      THEN [pending EXCEPT !.outcome = "ok"] ELSE pending
    BY <1>1 DEF BrokerAck, brokerVars, deviceVars, ghostVars, IInv, Published
  <1>4. /\ pending'.prev = pending.prev /\ pending'.id = pending.id /\ pending'.sentAt = pending.sentAt
        /\ pending'.outcome \in {pending.outcome, "ok"}
        /\ pending'.outcome = "flight" => pending.outcome = "flight" /\ pending.id # Head(store).id
        /\ pending'.outcome # "none" => pending.outcome # "none"
    BY <1>3 DEF IInv, Published, Tracked
  <1>5. Disturbances' /\ Passed' /\ Calm' = Calm
    BY <1>3, <1>4 DEF Recovering, Disturbances, Passed, Calm, Dated
  <1>6. InFlight'
    <2>1. pending'.outcome = "flight" => store' # <<>> /\ store'[Len(store')].id = pending'.id
      BY <1>1, <1>2, <1>4 DEF Recovering, InFlight
    <2>2. \A i, j \in 1..Len(store') : i < j => store'[i].id < store'[j].id
      <3> SUFFICES ASSUME NEW i \in 1..Len(store'), NEW j \in 1..Len(store'), i < j
                   PROVE  store'[i].id < store'[j].id
        OBVIOUS
      <3>1. i + 1 \in 1..Len(store) /\ j + 1 \in 1..Len(store) /\ i + 1 < j + 1
        <4>1. i \in Nat /\ j \in Nat
          OBVIOUS
        <4> QED
          BY <1>2, <4>1
      <3>2. store[i + 1].id < store[j + 1].id
        BY <3>1 DEF Recovering, InFlight
      <3> QED
        BY <1>2, <3>2
    <2>3. store # <<>>
      BY <1>1
    <2> QED
      BY <1>2, <1>3, <1>4, <1>5, <2>1, <2>2, <2>3 DEF Recovering, InFlight
  <1>7. Arrives'
    <2> SUFFICES ASSUME last # NoDoc, last.issuedAt > calmAt
                 PROVE  /\ last.id = fired
                        /\ \/ retained = last /\ standing = last /\ sent' = Len(store')
                           \/ /\ sent' < Len(store') /\ store'[Len(store')] = last
                              /\ \A i \in 1..(Len(store') - 1) : store'[i].seq < last.seq
                              /\ standing # NoDoc /\ standing.issuedAt = now
                                     => standing.seq < last.seq
      BY <1>3 DEF Arrives
    <2>1. /\ last.id = fired
          /\ \/ retained = last /\ standing = last /\ sent = Len(store)
             \/ /\ sent < Len(store) /\ store[Len(store)] = last
                /\ \A i \in 1..(Len(store) - 1) : store[i].seq < last.seq
                /\ standing # NoDoc /\ standing.issuedAt = now => standing.seq < last.seq
      BY DEF Recovering, Arrives
    <2>2. CASE sent = Len(store)
      BY <1>1, <1>2, <1>3, <2>1, <2>2
    <2>3. CASE sent < Len(store)
      <3>1. Len(store') \in 1..Len(store') /\ Len(store') + 1 = Len(store)
        BY <1>1, <1>2, <1>3, <2>3
      <3>2. store'[Len(store')] = store[Len(store)]
        BY <1>2, <3>1
      <3>3. \A i \in 1..(Len(store') - 1) : store'[i] = store[i + 1] /\ i + 1 \in 1..(Len(store) - 1)
        <4>1. Len(store) \in Nat /\ Len(store') = Len(store) - 1
          BY <1>1, <1>2
        <4>2. \A i \in 1..(Len(store') - 1) : i \in 1..Len(store') /\ i + 1 \in 1..(Len(store) - 1)
          BY <4>1
        <4> QED
          BY <1>2, <4>2
      <3>4. sent' < Len(store')
        BY <1>1, <1>2, <1>3, <2>3
      <3> QED
        BY <2>1, <2>3, <3>4, <3>1, <3>2, <3>3
    <2> QED
      BY <1>1, <1>3, <2>2, <2>3
  <1> QED
    BY <1>5, <1>6, <1>7 DEF Recovering

\* What a harvest gives up belongs to a disturbance, and in a calm second
\* nothing is left to give up after the first pass.
LEMMA HarvestRecovers ==
    ASSUME IInv, Recovering, NEW h,
           h = Harvest([last |-> last, seq |-> seq, pending |-> pending])
    PROVE  /\ Dated(h.last) /\ h.seq \in Nat
           /\ h.pending.outcome # "none" =>
                 h.pending = pending /\ pending.outcome = "flight" /\ h.last = last
           /\ h.last = last \/ h.last = NoDoc \/ h.last.issuedAt <= calmAt
           /\ Calm /\ passes > 0 => h.last = last /\ h.seq = seq
  <1>0. now \in Nat /\ Tracked(pending, seq) /\ calmAt \in 0..now /\ PublishTimeout \in Nat
    BY ChannelAssumption DEF IInv, Published, Recovering, Disturbances
  <1>1. CASE pending.outcome = "ok"
    <2>1. h = [last |-> last, seq |-> seq, pending |-> NoPending]
      BY <1>1 DEF Harvest, TimedOut
    <2> QED
      BY <1>0, <2>1 DEF Recovering, Disturbances, Tracked, NoPending
  <1>2. CASE pending.outcome # "ok" /\ (pending.outcome = "error" \/ TimedOut(pending))
    <2>1. h = [last |-> pending.prev, seq |-> pending.seq, pending |-> NoPending]
      BY <1>2 DEF Harvest, TimedOut
    <2>2. pending.outcome # "none" /\ Dated(pending.prev)
      BY <1>2 DEF TimedOut, Recovering, Disturbances
    <2>3. pending.prev = NoDoc \/ pending.prev.issuedAt <= calmAt
      <3>1. CASE pending.outcome = "error"
        BY <3>1 DEF Recovering, Disturbances
      <3>2. CASE TimedOut(pending)
        <4>1. ~Calm
          BY <1>0, <3>2 DEF TimedOut, Recovering, InFlight
        <4> QED
          BY <1>0, <2>2, <4>1 DEF Calm, Dated
      <3> QED
        BY <1>2, <3>1, <3>2
    <2>4. ~(Calm /\ passes > 0)
      <3>1. CASE pending.outcome = "error"
        BY <3>1 DEF Recovering, Passed
      <3>2. CASE TimedOut(pending)
        BY <1>0, <3>2 DEF TimedOut, Recovering, InFlight
      <3> QED
        BY <1>2, <3>1, <3>2
    <2> QED
      BY <1>0, <2>1, <2>2, <2>3, <2>4 DEF Tracked, NoPending
  <1>3. CASE ~(pending.outcome = "ok" \/ pending.outcome = "error" \/ TimedOut(pending))
    <2>1. h = [last |-> last, seq |-> seq, pending |-> pending]
      BY <1>3 DEF Harvest, TimedOut
    <2> QED
      BY <1>0, <1>3, <2>1 DEF Recovering, Disturbances, Tracked
  <1> QED
    BY <1>1, <1>2, <1>3

\* A pass believes the intent live, or fires it with a number and an id above
\* those of this second.
LEMMA CommandRecovers ==
    ASSUME IInv, Recovering, passes \in Nat, Command PROVE Recovering'
  <1> PICK cmd \in Commands[class] : Apply(cmd)
    BY DEF Command
  <1> DEFINE h == Harvest([last |-> last, seq |-> seq, pending |-> pending])
             body == [fields |-> Merge(Explicit(cmd.fields)), mrid |-> cmd.mrid]
             doc == [id |-> fired + 1, fields |-> body.fields, mrid |-> body.mrid,
                     seq |-> h.seq, issuedAt |-> now, finite |-> TRUE]
  <1>1. /\ Dated(h.last) /\ h.seq \in Nat
        /\ h.pending.outcome # "none" =>
              h.pending = pending /\ pending.outcome = "flight" /\ h.last = last
        /\ h.last = last \/ h.last = NoDoc \/ h.last.issuedAt <= calmAt
        /\ Calm /\ passes > 0 => h.last = last /\ h.seq = seq
    BY HarvestRecovers
  <1>2. /\ UNCHANGED <<now, sent, retained, standing, link, listening>>
        /\ passes' = passes + 1 /\ intent' = body
        /\ calmAt' = IF intent = body THEN calmAt ELSE now
    BY DEF Apply, deviceVars
  <1>3. \/ /\ h.last # NoDoc /\ Body(h.last) = body /\ ~HeartbeatDue(h.last)
           /\ last' = h.last /\ seq' = h.seq /\ pending' = h.pending
           /\ UNCHANGED <<store, fired>>
        \/ /\ fired' = fired + 1 /\ store' = Append(store, doc) /\ last' = doc
           /\ seq' = h.seq + 1
           /\ pending' = [id |-> doc.id, outcome |-> "flight",
                          sentAt |-> now, prev |-> h.last, seq |-> h.seq]
    BY DEF Apply
  <1>4. /\ now \in Nat /\ fired \in Nat /\ seq \in Nat /\ calmAt \in 0..now
        /\ sent \in 0..Len(store) /\ HeartbeatInterval \in Nat
    BY ChannelAssumption DEF IInv, Published, Tracked, Recovering, Disturbances
  <1>5. passes' > 0 /\ (passes = 0 \/ passes > 0)
    BY <1>2
  <1>6. Calm' => Calm /\ intent = body
    BY <1>2, <1>4 DEF Calm
  <1>7. /\ Calm /\ store # <<>> => h.seq = seq
        /\ Calm /\ standing # NoDoc /\ standing.issuedAt = now => h.seq = seq
    BY <1>1 DEF Recovering, InFlight
  <1> HIDE DEF h
  <1>8. CASE /\ h.last # NoDoc /\ Body(h.last) = body /\ ~HeartbeatDue(h.last)
             /\ last' = h.last /\ seq' = h.seq /\ pending' = h.pending
             /\ UNCHANGED <<store, fired>>
    <2>1. Disturbances'
      BY <1>1, <1>2, <1>4, <1>6, <1>8 DEF Recovering, Disturbances, Dated
    <2>2. InFlight'
      <3>1. /\ pending'.outcome = "flight" => store' # <<>> /\ store'[Len(store')].id = pending'.id
            /\ Calm' /\ pending'.outcome = "flight" => pending'.sentAt = now'
        BY <1>1, <1>2, <1>6, <1>8 DEF Recovering, InFlight
      <3>2. Calm' => \A i \in 1..Len(store') : store'[i].issuedAt = now' /\ store'[i].seq < seq'
        <4> SUFFICES ASSUME Calm', NEW i \in 1..Len(store)
                     PROVE  store[i].issuedAt = now /\ store[i].seq < h.seq
          BY <1>2, <1>8
        <4>1. store # <<>>
          BY <1>4 DEF IInv, Published, IsSequence
        <4> QED
          BY <1>6, <1>7, <4>1 DEF Recovering, InFlight
      <3> QED
        BY <1>2, <1>5, <1>6, <1>7, <1>8, <3>1, <3>2 DEF Recovering, InFlight
    <2>3. Passed'
      <3>1. now - h.last.issuedAt < HeartbeatInterval
        <4>1. h.last.issuedAt \in 0..now
          BY <1>1, <1>8 DEF Dated
        <4>2. ~(now - h.last.issuedAt >= HeartbeatInterval)
          BY <1>8 DEF HeartbeatDue
        <4> QED
          BY <1>4, <4>1, <4>2
      <3> QED
        BY <1>1, <1>2, <1>8, <3>1 DEF Passed
    <2>4. Arrives'
      <3> SUFFICES ASSUME last' # NoDoc, last'.issuedAt > calmAt'
                   PROVE  Arrives!2'
        BY DEF Arrives
      <3>1. last' = last /\ last.issuedAt > calmAt
        BY <1>1, <1>2, <1>4, <1>8 DEF Dated
      <3> QED
        BY <1>2, <1>8, <3>1 DEF Recovering, Arrives
    <2> QED
      BY <2>1, <2>2, <2>3, <2>4 DEF Recovering
  <1>9. CASE /\ fired' = fired + 1 /\ store' = Append(store, doc) /\ last' = doc
             /\ seq' = h.seq + 1
             /\ pending' = [id |-> doc.id, outcome |-> "flight",
                            sentAt |-> now, prev |-> h.last, seq |-> h.seq]
    <2> DEFINE S == {store[i] : i \in 1..Len(store)} \cup {doc}
    <2>1. store \in Seq(S) /\ doc \in S
      BY DEF IInv, Published, IsSequence
    <2> HIDE DEF S
    <2>2. /\ Len(store') = Len(store) + 1 /\ Len(store) \in Nat /\ store' # <<>>
          /\ \A i \in 1..Len(store) : store'[i] = store[i]
          /\ store'[Len(store')] = doc
      <3>1. /\ Len(Append(store, doc)) = Len(store) + 1 /\ Len(store) \in Nat
            /\ Append(store, doc)[Len(store) + 1] = doc
        BY <2>1
      <3>2. \A i \in 1..Len(store) : Append(store, doc)[i] = store[i]
        BY <2>1
      <3>3. Append(store, doc) # <<>>
        <4>1. \A q \in Seq(S) : q = <<>> => Len(q) = 0
          OBVIOUS
        <4>2. Append(store, doc) \in Seq(S)
          BY <2>1
        <4> QED
          BY <3>1, <4>1, <4>2
      <3> HIDE DEF doc
      <3> QED
        BY <1>9, <3>1, <3>2, <3>3
    <2>3. /\ doc.id = fired + 1 /\ doc.seq = h.seq /\ doc.issuedAt = now
          /\ doc # NoDoc /\ Body(doc) = body
      <3>1. doc.id = fired + 1 /\ NoDoc.id = 0
        BY DEF NoDoc
      <3>2. doc # NoDoc
        BY <1>4, <3>1
      <3> QED
        BY <3>1, <3>2 DEF Body
    <2>4. /\ pending'.outcome = "flight" /\ pending'.sentAt = now /\ pending'.id = doc.id
          /\ pending'.prev = h.last
      BY <1>9
    <2> HIDE DEF doc
    <2>5. \A i \in 1..Len(store) : store[i].id \in 1..fired
      BY DEF IInv, Published, Fired
    <2>6. Calm => \A i \in 1..Len(store) : store[i].issuedAt = now /\ store[i].seq < h.seq
      <3> SUFFICES ASSUME Calm, NEW i \in 1..Len(store)
                   PROVE  store[i].issuedAt = now /\ store[i].seq < h.seq
        OBVIOUS
      <3>1. store # <<>>
        BY <2>1, <2>2
      <3> QED
        BY <1>7, <3>1 DEF Recovering, InFlight
    <2>7. Calm /\ standing # NoDoc /\ standing.issuedAt = now => standing.seq < h.seq
      BY <1>7 DEF Recovering, InFlight
    <2>8. Disturbances'
      BY <1>1, <1>2, <1>4, <1>6, <1>9, <2>3, <2>4 DEF Recovering, Disturbances, Dated
    <2>9. InFlight'
      <3>1. \A i, j \in 1..Len(store') : i < j => store'[i].id < store'[j].id
        <4> SUFFICES ASSUME NEW i \in 1..Len(store'), NEW j \in 1..Len(store'), i < j
                     PROVE  store'[i].id < store'[j].id
          OBVIOUS
        <4>1. i \in 1..Len(store) /\ (j \in 1..Len(store) \/ j = Len(store'))
          BY <2>2
        <4>2. CASE j \in 1..Len(store)
          BY <2>2, <4>1, <4>2 DEF Recovering, InFlight
        <4>3. CASE j = Len(store')
          <5>1. i \in 1..Len(store)
            BY <2>2, <4>3
          <5>2. store'[i].id \in 1..fired /\ store'[j].id = fired + 1
            BY <2>2, <2>3, <2>5, <4>3, <5>1
          <5> QED
            BY <1>4, <5>2
        <4> QED
          BY <4>1, <4>2, <4>3
      <3>2. Calm' => \A i \in 1..Len(store') : store'[i].issuedAt = now' /\ store'[i].seq < seq'
        <4> SUFFICES ASSUME Calm', NEW i \in 1..Len(store')
                     PROVE  store'[i].issuedAt = now /\ store'[i].seq < h.seq + 1
          BY <1>2, <1>9
        <4>1. i \in 1..Len(store) \/ i = Len(store')
          BY <2>2
        <4>2. CASE i \in 1..Len(store)
          <5>1. store[i].issuedAt = now /\ store[i].seq < h.seq /\ store[i].seq \in Nat
            BY <1>6, <2>6, <4>2 DEF IInv, Published, Fired
          <5> QED
            BY <1>1, <2>2, <4>2, <5>1
        <4>3. CASE i = Len(store')
          BY <1>1, <2>2, <2>3, <4>3
        <4> QED
          BY <4>1, <4>2, <4>3
      <3>3. Calm' /\ standing # NoDoc /\ standing.issuedAt = now => standing.seq < seq'
        <4> SUFFICES ASSUME Calm', standing # NoDoc, standing.issuedAt = now
                     PROVE  standing.seq < h.seq + 1
          BY <1>9
        <4>1. standing.seq < h.seq /\ standing.seq \in Nat
          BY <1>6, <2>7 DEF IInv, Published, Fired
        <4> QED
          BY <1>1, <4>1
      <3> QED
        BY <1>2, <1>5, <2>2, <2>4, <3>1, <3>2, <3>3 DEF InFlight
    <2>10. Passed'
      BY <1>2, <1>9, <2>3, <2>4 DEF Passed
    <2>11. Arrives'
      <3> SUFFICES ASSUME doc.issuedAt > calmAt'
                   PROVE  Arrives!2'
        BY <1>9 DEF Arrives
      <3>1. Calm
        BY <1>2, <1>4, <2>3 DEF Calm
      <3>2. sent < Len(store')
        BY <1>4, <2>2
      <3>3. \A i \in 1..(Len(store') - 1) : store'[i].seq < doc.seq
        BY <2>2, <2>3, <2>6, <3>1
      <3> QED
        BY <1>2, <1>9, <2>2, <2>3, <2>7, <3>1, <3>2, <3>3
    <2> QED
      BY <2>8, <2>9, <2>10, <2>11 DEF Recovering
  <1> QED
    BY <1>3, <1>8, <1>9

LEMMA RecoveringAtFirst == Init => Recovering /\ passes \in Nat
  <1> SUFFICES ASSUME Init PROVE Recovering /\ passes \in Nat
    OBVIOUS
  <1>1. store = <<>> /\ Len(store) = 0 /\ now = 0 /\ calmAt = 0 /\ pending.outcome = "none"
    BY DEF Init, NoPending
  <1>2. Disturbances
    BY <1>1 DEF Init, Disturbances, Calm, Dated
  <1>3. InFlight /\ Passed
    BY <1>1 DEF InFlight, Passed, Calm
  <1>4. Arrives
    BY DEF Init, Arrives
  <1> QED
    BY <1>2, <1>3, <1>4 DEF Init, Recovering

LEMMA RecoveringKeeps ==
    ASSUME IInv, Recovering, passes \in Nat, [Next]_vars
    PROVE  Recovering' /\ passes' \in Nat
  <1>1. passes' \in {0, 1, passes, passes + 1}
    <2>1. Command => passes' = passes + 1
      BY DEF Command, Apply
    <2>2. Omit \/ HubRestart \/ Tick1s => passes' \in {0, 1}
      BY DEF Omit, HubRestart, Tick1s
    <2>3. BrokerAccept \/ BrokerAck \/ LinkLost \/ LinkRestored \/ ConsumerLost \/ Subscribe
             => passes' = passes
      BY DEF BrokerAccept, BrokerAck, LinkLost, LinkRestored, ConsumerLost, Subscribe
    <2>4. Exhausted \/ UNCHANGED vars => passes' = passes
      BY DEF Exhausted, vars
    <2> QED
      BY <2>1, <2>2, <2>3, <2>4 DEF Next
  <1> SUFFICES Recovering'
    BY <1>1
  <1>2. CASE Command
    BY <1>2, CommandRecovers
  <1>3. CASE Omit
    BY <1>3, DisturbedRecovers DEF Omit, hubVars, clientVars
  <1>4. CASE HubRestart
    BY <1>4, DisturbedRecovers DEF HubRestart
  <1>5. CASE BrokerAccept
    BY <1>5, AcceptRecovers
  <1>6. CASE BrokerAck
    BY <1>6, AckRecovers
  <1>7. CASE LinkLost
    <2>1. now' = now /\ calmAt' = now /\ last' = last /\ store' = store
      BY <1>7 DEF LinkLost
    <2>2. \/ pending' = pending
          \/ pending.outcome = "flight" /\ pending' = [pending EXCEPT !.outcome = "error"]
      BY <1>7 DEF LinkLost
    <2> QED
      BY <2>1, <2>2, DisturbedRecovers
  <1>8. CASE LinkRestored
    BY <1>8, DisturbedRecovers DEF LinkRestored, hubVars
  <1>9. CASE ConsumerLost \/ Subscribe
    BY <1>9, DisturbedRecovers DEF ConsumerLost, Subscribe, hubVars, clientVars
  <1>10. CASE Tick1s
    BY <1>10, TickRecovers
  <1>11. CASE Exhausted \/ UNCHANGED vars
    <2>1. UNCHANGED <<now, intent, last, seq, pending, store, sent, link, retained, standing,
                      listening, fired, calmAt, passes>>
      BY <1>11 DEF Exhausted, vars, hubVars, clientVars, brokerVars, deviceVars, ghostVars
    <2> QED
      BY <2>1 DEF Recovering, Disturbances, InFlight, Passed, Arrives, Calm, Dated
  <1> QED
    BY <1>2, <1>3, <1>4, <1>5, <1>6, <1>7, <1>8, <1>9, <1>10, <1>11 DEF Next

\* A heartbeat after the last disturbance, what is believed live was fired
\* since, has arrived, and is young enough for a consumer that restarts.
LEMMA RecoveredByThen == IInv /\ Recovering => RecoversWithinHeartbeat
  <1> SUFFICES ASSUME IInv, Recovering, Exchanged, now - calmAt > HeartbeatInterval
               PROVE  /\ Body(standing) = intent /\ Body(retained) = intent
                      /\ Accepts(BaselineOf(NoDoc), retained, now)
    BY DEF RecoversWithinHeartbeat
  <1>1. /\ now \in Nat /\ calmAt \in 0..now /\ HeartbeatInterval \in Nat
        /\ 2 * HeartbeatInterval <= StaleAfter /\ StaleAfter \in Nat
    BY ChannelAssumption, ConfigAssumption DEF IInv, Published, Recovering, Disturbances
  <1>2. Calm
    BY <1>1 DEF Calm
  <1>3. /\ last # NoDoc /\ Body(last) = intent
        /\ last.issuedAt = now \/ now - last.issuedAt < HeartbeatInterval
    BY <1>2 DEF Recovering, Passed, Exchanged
  <1>4. last.issuedAt \in 0..now
    BY <1>3 DEF Recovering, Disturbances, Dated
  <1>5. last.issuedAt > calmAt /\ now - last.issuedAt <= StaleAfter
    BY <1>1, <1>3, <1>4
  <1>6. retained = last /\ standing = last
    <2>1. Len(store) = 0 /\ sent \in 0..Len(store)
      BY DEF Exchanged, IInv, Published
    <2>2. ~(sent < Len(store))
      BY <2>1
    <2> QED
      BY <1>3, <1>5, <2>2 DEF Recovering, Arrives
  <1>7. retained.finite = TRUE /\ retained.seq \in Nat
    BY <1>3, <1>6 DEF IInv, Published, Fired
  <1>8. Accepts(BaselineOf(NoDoc), retained, now)
    <2>1. BaselineOf(NoDoc).applied = FALSE
      BY DEF BaselineOf
    <2> QED
      BY <1>1, <1>4, <1>5, <1>6, <1>7, <2>1 DEF Accepts, GateVerdict, Regressed
  <1> QED
    BY <1>3, <1>6, <1>8

\* Whatever the order of losses, rollbacks, refusals and restarts, one calm
\* heartbeat brings the consumer to the hub's intent and leaves the broker
\* with a document that a restarted consumer adopts (harvestPending,
\* heartbeatDue, setDesiredCore), for any commands and any interval of at
\* most half the staleness bound.
THEOREM RecoveryIsSure == Spec => []RecoversWithinHeartbeat
  <1>1. Init => IInv /\ Recovering /\ passes \in Nat
    BY Initially, RecoveringAtFirst
  <1>2. IInv /\ Recovering /\ passes \in Nat /\ [Next]_vars
           => (IInv /\ Recovering /\ passes \in Nat)'
    BY NextKeeps, RecoveringKeeps
  <1>3. IInv /\ Recovering => RecoversWithinHeartbeat
    BY RecoveredByThen
  <1> QED
    BY <1>1, <1>2, <1>3, PTL DEF Spec
=============================================================================
