----------------------------- MODULE EdgeProofs -----------------------------
(***************************************************************************)
(* Proofs about the two services where others dial in or are dialled: the  *)
(* OCPP server (the limit in force at a configured station, EvseShell, and *)
(* stations nobody approved, Pairing) and the cloud uplink, whose spool    *)
(* implements a queue per class (Uplink, ClassQueue).                      *)
(*                                                                         *)
(* ProfileInForce is not inductive: that the profile is the document's     *)
(* needs the shell's copy of the limit and the core's standing fields to   *)
(* be the document's too, and a call given up to have spoilt the last      *)
(* write, for only then is nothing said about the profile while the        *)
(* station may still take that call.                                       *)
(*                                                                         *)
(* The refinement rests on SoundClass: the segments of a class are in the  *)
(* order of their numbers, all but the active one are synced, the cursor   *)
(* is unset or in a segment that exists, and is not ahead of its file      *)
(* unless it is at the oldest record.  What Walk, the eviction loop and    *)
(* recovery compute is defined by recursion over the segments; the first   *)
(* part derives induction and recursion over the naturals.                 *)
(*                                                                         *)
(* That no record is lost rests on Account: a record has one place among   *)
(* the segments, what they and the frame hold was once appended, and what  *)
(* an acknowledged frame carries has arrived.  Only then may the commit    *)
(* move the cursor past it, and only the records a crash tears or a cursor *)
(* file that is ahead skips are missing after recovery.                    *)
(***************************************************************************)
EXTENDS EvseShell, Pairing, Uplink, CoreProofs, FiniteSetTheorems, SequenceTheorems

(* The shell over a configured station.                                    *)

Limit(a) == [f \in Field |-> a]
HubDocuments == [body : Bodies, seq : Nat, issuedAt : Int]
Currents == {NoSample} \cup [amps : Level, connected : BOOLEAN]

EvseTypes ==
    /\ now \in Nat /\ seq \in Nat /\ events \in Nat
    /\ Sound(r, now)
    /\ retained \in HubDocuments
    /\ standing \in HubDocuments \cup {NoDoc}
    /\ {profile, currentA, demand} \subseteq Level
    /\ late \in Seq(Level)
    /\ sample \in Currents
    /\ {connected, setpoint, spoilt, reconnectPending} \subseteq BOOLEAN

\* The three copies of the intent say the same.
CopiesAgree ==
    IF standing = NoDoc
    THEN ~r.applied /\ r.fields = NoOpinion /\ desiredMaxA = NoAmps
    ELSE r.applied /\ r.fields = Limit(Wanted) /\ desiredMaxA = Wanted

\* A call on its way was given up, and no later write succeeded before it.
LateIsSpoilt == late # <<>> => spoilt

EvseIInv == EvseTypes /\ CopiesAgree /\ LateIsSpoilt /\ ProfileInForce

\* The document's current is a level of the station.
LEMMA FoldType ==
  ASSUME NEW doc \in HubDocuments
  PROVE  /\ Fold(doc.body) \in Level /\ doc.body.setpoint \in BOOLEAN
         /\ Limit(Fold(doc.body)) \in Opinions
         /\ CoreDocument(doc) \in Documents
         /\ CoreDocument(doc).fields = Limit(Fold(doc.body))
         /\ doc # NoDoc
  <1>1. Fold(doc.body) \in Level /\ doc.body.setpoint \in BOOLEAN
    BY EvseAssumption DEF HubDocuments, Bodies, Fold
  <1>2. Limit(Fold(doc.body)) \in [Field -> Level]
    BY <1>1 DEF Limit
  <1>3. Limit(Fold(doc.body)) \in Opinions
    BY <1>2 DEF Opinions
  <1>4. CoreDocument(doc) \in Documents
    BY <1>3, ConfigAssumption
       DEF CoreDocument, Documents, HubDocuments, Limit
  <1>5. doc # NoDoc
    BY DEF HubDocuments, NoDoc
  <1> QED
    BY <1>1, <1>3, <1>4, <1>5 DEF CoreDocument, Limit

\* A call that the station answers leaves it at the limit asked for, unless a
\* setpoint took the limit's place.
LEMMA CallEffect ==
  ASSUME NEW write, NEW amps \in Level, NEW sp \in BOOLEAN,
         EvseTypes, LateIsSpoilt, Apply(write, amps, sp)
  PROVE  /\ profile' \in Level /\ late' \in Seq(Level)
         /\ spoilt' \in BOOLEAN /\ events' \in Nat
         /\ late' # <<>> => spoilt'
         /\ write # NoWrite /\ connected /\ ~spoilt' => profile' = amps
         /\ write = NoWrite => UNCHANGED callVars
  <1>1. Call(amps, sp) \in Level /\ Call(amps, FALSE) = amps
    <2>1. /\ amps \in Int /\ Rated \in Int /\ amps <= Rated
          /\ 0 \in Level /\ Rated \in Level
      BY EvseAssumption, ConfigAssumption
    <2>2. Call(amps, sp) \in Level
      BY <2>1 DEF Call
    <2>3. Call(amps, FALSE) = IF amps >= Rated THEN Rated ELSE amps
      BY DEF Call
    <2>4. (IF amps >= Rated THEN Rated ELSE amps) = amps
      BY <2>1
    <2> QED
      BY <2>2, <2>3, <2>4, Zenon
  <1>2. late \in Seq(Level) /\ events \in Nat /\ profile \in Level
        /\ spoilt \in BOOLEAN
    BY DEF EvseTypes
  <1>3. CASE write = NoWrite \/ ~connected
    BY <1>2, <1>3 DEF Apply, callVars, LateIsSpoilt
  <1>4. CASE /\ write # NoWrite /\ connected
             /\ socket = "up" /\ late = <<>>
             /\ profile' = Call(amps, sp)
             /\ spoilt' = (Call(amps, sp) # Call(amps, FALSE))
             /\ UNCHANGED <<late, events>>
    BY <1>1, <1>2, <1>4
  <1>5. CASE /\ write # NoWrite /\ connected
             /\ Event /\ spoilt' = TRUE
             /\ late' \in {late} \cup IF Len(late) = MaxLate THEN {}
                                      ELSE {Append(late, Call(amps, sp))}
             /\ UNCHANGED profile
    <2>1. late' \in Seq(Level)
      BY <1>1, <1>2, <1>5
    <2> QED
      BY <1>2, <1>5, <2>1 DEF Event
  <1>6. CASE /\ write # NoWrite /\ connected
             /\ socket # "up" /\ spoilt' = TRUE
             /\ UNCHANGED <<profile, late, events>>
    BY <1>2, <1>6
  <1> QED
    BY <1>3, <1>4, <1>5, <1>6 DEF Apply

\* The gate and the reports agree: a document is adopted unless its rejection
\* is reported, and what is written is what it asks for.
LEMMA AdoptedUnlessRefused ==
  ASSUME NEW doc \in HubDocuments, EvseTypes
  PROVE  LET res == SetDesired(r, CoreDocument(doc), now)
         IN  /\ Sound(res.r, now)
             /\ Refused(res) => res.r = r /\ res.write = NoWrite
             /\ ~Refused(res) =>
                   /\ res.r.applied
                   /\ res.r.fields = Limit(Fold(doc.body))
                   /\ res.write = NoWrite
                        => r.fields = Limit(Fold(doc.body))
  <1> DEFINE d == CoreDocument(doc)
             res == SetDesired(r, d, now)
             a == Adopt(r, d, now)
  <1>1. /\ d \in Documents /\ d.fields = Limit(Fold(doc.body))
        /\ r \in States /\ now \in Nat
    BY FoldType DEF EvseTypes, Sound
  <1>2. Sound(res.r, now)
    BY <1>1, SetDesiredGood DEF EvseTypes, Good
  <1> HIDE DEF d
  <1>3. CASE ~Accepts(r, d, now)
    <2> DEFINE x == RejectReport(r, d, GateVerdict(r, d, now))
    <2>1. res = Result(r, NoWrite, <<x>>)
      BY <1>3 DEF SetDesired
    <2>2. x.kind = "RejectedDoc"
      BY DEF RejectReport
    <2> HIDE DEF x, res
    <2>3. res.r = r /\ res.write = NoWrite /\ res.reports = <<x>>
      BY <2>1 DEF Result
    <2>4. Refused(res)
      BY <2>2, <2>3 DEF Refused
    <2> QED
      BY <1>2, <2>3, <2>4 DEF res, d
  <1>4. CASE Accepts(r, d, now)
    <2>1. a.applied /\ a.fields = d.fields
      BY <1>1 DEF Adopt, States
    <2>2. /\ WriteAction(Retarget(a), now).applied
          /\ WriteAction(Retarget(a), now).fields = d.fields
      BY <1>1 DEF WriteAction, Retarget, Adopt, States
    <2> DEFINE q == SeqResetReports(r, a, d)
               e == EpisodeEndReports(a)
    <2>3. q \in {<<>>, <<Report(a, "SeqReset")>>}
      BY DEF SeqResetReports
    <2>4. e \in {<<>>, <<Report(a, "NonConvergedEnd")>>}
      BY DEF EpisodeEndReports
    <2>5. /\ Report(a, "SeqReset").kind # "RejectedDoc"
          /\ Report(a, "NonConvergedEnd").kind # "RejectedDoc"
      BY DEF Report
    <2> HIDE DEF q, e, a
    <2>6. \A i \in 1..Len(q \o e) : (q \o e)[i].kind # "RejectedDoc"
      BY <2>3, <2>4, <2>5
    <2>7. \A i \in 1..Len(q) : q[i].kind # "RejectedDoc"
      BY <2>3, <2>5
    <2>8. CASE r.fields = d.fields
      <3>1. res = Result(a, NoWrite, q)
        BY <1>4, <2>8 DEF SetDesired, a, q
      <3> HIDE DEF res
      <3>2. res.r = a /\ res.reports = q
        BY <3>1 DEF Result
      <3> QED
        BY <1>1, <1>2, <2>1, <2>7, <2>8, <3>2 DEF Refused, res, d
    <2>9. CASE r.fields # d.fields
      <3>1. res = Result(WriteAction(Retarget(a), now), "new-desired", q \o e)
        BY <1>4, <2>9 DEF SetDesired, a, q, e
      <3> HIDE DEF res
      <3>2. /\ res.r = WriteAction(Retarget(a), now)
            /\ res.write # NoWrite /\ res.reports = q \o e
        BY <3>1 DEF Result, NoWrite
      <3> QED
        BY <1>1, <1>2, <2>2, <2>6, <3>2 DEF Refused, res, d
    <2> QED
      BY <2>8, <2>9
  <1> QED
    BY <1>3, <1>4

LEMMA EvseInit == InitEvse => EvseIInv
  <1> SUFFICES ASSUME InitEvse PROVE EvseIInv
    OBVIOUS
  <1>1. Sound(New, 1)
    BY NewSound
  <1>2. retained \in HubDocuments
    BY DEF InitEvse, Document, HubDocuments
  <1>3. {profile, currentA, demand} \subseteq Level
    BY EvseAssumption DEF InitEvse
  <1>4. EvseTypes
    <2>1. {connected, setpoint, spoilt, reconnectPending} \subseteq BOOLEAN
      BY DEF InitEvse
    <2>2. /\ now = 1 /\ seq = 1 /\ events = 0 /\ r = New
          /\ standing = NoDoc /\ sample = NoSample /\ late = <<>>
      BY DEF InitEvse
    <2> QED
      BY <1>1, <1>2, <1>3, <2>1, <2>2 DEF EvseTypes, Currents
  <1>5. CopiesAgree /\ LateIsSpoilt /\ ProfileInForce
    BY DEF InitEvse, CopiesAgree, LateIsSpoilt, ProfileInForce, New
  <1> QED
    BY <1>4, <1>5 DEF EvseIInv

\* A step that leaves the intent, the station's calls and its profile alone,
\* and greets no station without taking it for reconnected.
LEMMA BystanderKeeps ==
  ASSUME EvseIInv, UNCHANGED <<r, desiredMaxA, standing, late, spoilt>>,
         now' \in Nat, Sound(r, now'), seq' \in Nat, events' \in Nat,
         retained' \in HubDocuments,
         {profile', currentA', demand'} \subseteq Level,
         sample' \in Currents,
         {connected', setpoint', reconnectPending'} \subseteq BOOLEAN,
         \/ profile' = profile /\ socket' = socket /\ connected' = connected
            /\ greeting' = greeting /\ reconnectPending' = reconnectPending
         \/ socket' # "up" \/ greeting' \/ reconnectPending' \/ ~connected'
  PROVE  EvseIInv'
  <1>1. EvseTypes'
    BY DEF EvseIInv, EvseTypes
  <1>2. CopiesAgree'
    BY DEF EvseIInv, CopiesAgree, Wanted, Limit
  <1>3. LateIsSpoilt'
    BY DEF EvseIInv, LateIsSpoilt
  <1>4. ProfileInForce'
    BY DEF EvseIInv, ProfileInForce, Wanted
  <1> QED
    BY <1>1, <1>2, <1>3, <1>4 DEF EvseIInv

\* A call of the core that asks for no new fields, and the write it asks for.
LEMMA ShellCallKeeps ==
  ASSUME EvseIInv, NEW write,
         Sound(r', now), r'.fields = r.fields, r'.applied = r.applied,
         write # NoWrite => r.applied,
         Apply(write, desiredMaxA, setpoint),
         \/ UNCHANGED <<greeting, reconnectPending>>
         \/ r.applied => write # NoWrite,
         UNCHANGED <<desiredMaxA, setpoint, standing, connected, currentA,
                     socket, demand, hubVars, now>>,
         sample' \in Currents, reconnectPending' \in BOOLEAN
  PROVE  EvseIInv'
  <1>1. EvseTypes /\ CopiesAgree /\ LateIsSpoilt /\ ProfileInForce
    BY DEF EvseIInv
  <1>2. CopiesAgree'
    BY <1>1 DEF CopiesAgree, Wanted, Limit
  <1>3. CASE ~r.applied
    <2>1. UNCHANGED callVars
      BY <1>3 DEF Apply
    <2>2. standing = NoDoc
      BY <1>1, <1>3 DEF CopiesAgree
    <2>3. EvseTypes'
      BY <1>1, <2>1 DEF EvseTypes, callVars, hubVars
    <2> QED
      BY <1>1, <1>2, <2>1, <2>2, <2>3
         DEF EvseIInv, LateIsSpoilt, ProfileInForce, callVars
  <1>4. CASE r.applied
    <2>1. standing \in HubDocuments /\ desiredMaxA = Wanted
          /\ standing' = standing
      BY <1>1, <1>4 DEF CopiesAgree, EvseTypes
    <2>2. Wanted = Fold(standing.body)
      BY DEF Wanted, Fold
    <2>3. desiredMaxA \in Level /\ setpoint \in BOOLEAN
      BY <1>1, <2>1, <2>2, FoldType DEF EvseTypes
    <2>4. /\ profile' \in Level /\ late' \in Seq(Level)
          /\ spoilt' \in BOOLEAN /\ events' \in Nat
          /\ late' # <<>> => spoilt'
          /\ write # NoWrite /\ connected /\ ~spoilt'
               => profile' = desiredMaxA
          /\ write = NoWrite => UNCHANGED callVars
      BY <1>1, <2>3, CallEffect
    <2>5. EvseTypes'
      BY <1>1, <2>4 DEF EvseTypes, hubVars
    <2>6. LateIsSpoilt'
      BY <2>4 DEF LateIsSpoilt
    <2>7. Wanted' = Wanted
      BY <2>1 DEF Wanted
    <2>8. ProfileInForce'
      <3>1. CASE write = NoWrite
        BY <1>1, <1>4, <2>4, <2>7, <3>1 DEF ProfileInForce, callVars
      <3>2. CASE write # NoWrite
        BY <2>1, <2>4, <2>7, <3>2 DEF ProfileInForce
      <3> QED
        BY <3>1, <3>2
    <2> QED
      BY <1>2, <2>5, <2>6, <2>8 DEF EvseIInv
  <1> QED
    BY <1>1, <1>3, <1>4 DEF EvseTypes, Sound, States

\* A document delivered: adopted and written, repeated, or refused.
LEMMA DeliverKeeps ==
  ASSUME EvseIInv, SetDesiredEvse(retained),
         UNCHANGED <<bridgeVars, socket, demand, seq, retained, now>>
  PROVE  EvseIInv'
  <1> DEFINE doc == retained
             res == SetDesired(r, CoreDocument(doc), now)
             a == Fold(doc.body)
  <1>1. EvseTypes /\ CopiesAgree /\ LateIsSpoilt /\ ProfileInForce
    BY DEF EvseIInv
  <1>2. doc \in HubDocuments
    BY <1>1 DEF EvseTypes
  <1>3. /\ a \in Level /\ doc.body.setpoint \in BOOLEAN /\ doc # NoDoc
    BY <1>2, FoldType
  <1>4. /\ Sound(res.r, now)
        /\ Refused(res) => res.r = r /\ res.write = NoWrite
        /\ ~Refused(res) =>
              /\ res.r.applied
              /\ res.r.fields = Limit(a)
              /\ res.write = NoWrite => r.fields = Limit(a)
    BY <1>1, <1>2, AdoptedUnlessRefused
  <1>5. /\ r' = res.r /\ setpoint' = doc.body.setpoint
        /\ IF Refused(res) THEN UNCHANGED <<desiredMaxA, standing>>
           ELSE /\ desiredMaxA' = res.r.fields["MaxCurrentA"]
                /\ standing' = doc
        /\ Apply(res.write, a, doc.body.setpoint)
    BY DEF SetDesiredEvse
  <1> HIDE DEF res, a
  <1>6. /\ profile' \in Level /\ late' \in Seq(Level)
        /\ spoilt' \in BOOLEAN /\ events' \in Nat
        /\ late' # <<>> => spoilt'
        /\ res.write # NoWrite /\ connected /\ ~spoilt' => profile' = a
        /\ res.write = NoWrite => UNCHANGED callVars
    BY <1>1, <1>3, <1>5, CallEffect
  <1>7. UNCHANGED <<connected, currentA, sample, greeting, reconnectPending,
                    socket, demand, seq, retained, now>>
    BY DEF bridgeVars
  <1>8. standing' \in HubDocuments \cup {NoDoc}
    BY <1>1, <1>2, <1>5 DEF EvseTypes
  <1>9. EvseTypes'
    BY <1>1, <1>3, <1>4, <1>5, <1>6, <1>7, <1>8 DEF EvseTypes
  <1>10. LateIsSpoilt'
    BY <1>6 DEF LateIsSpoilt
  <1>11. Limit(a)["MaxCurrentA"] = a
    BY EvseAssumption DEF Limit
  <1>12. CASE Refused(res)
    <2>1. UNCHANGED <<r, desiredMaxA, standing, profile, late, spoilt>>
      BY <1>4, <1>5, <1>6, <1>12 DEF callVars
    <2>2. CopiesAgree'
      BY <1>1, <2>1 DEF CopiesAgree, Wanted, Limit
    <2>3. ProfileInForce'
      BY <1>1, <1>7, <2>1 DEF ProfileInForce, Wanted
    <2> QED
      BY <1>9, <1>10, <2>2, <2>3 DEF EvseIInv
  <1>13. CASE ~Refused(res)
    <2>1. Wanted' = a
      BY <1>5, <1>13 DEF Wanted, Fold, a
    <2>2. CopiesAgree'
      BY <1>3, <1>4, <1>5, <1>11, <1>13, <2>1 DEF CopiesAgree, Limit
    <2>3. CASE res.write = NoWrite
      <3>1. r.fields = Limit(a) /\ UNCHANGED callVars
        BY <1>4, <1>6, <1>13, <2>3
      <3>2. Limit(a) # NoOpinion
        BY EvseAssumption DEF Limit, NoOpinion
      <3>3. standing # NoDoc
        BY <1>1, <3>1, <3>2 DEF CopiesAgree
      <3>4. Limit(Wanted)["MaxCurrentA"] = Wanted
        BY EvseAssumption DEF Limit
      <3>5. Wanted = a
        BY <1>1, <1>11, <3>1, <3>3, <3>4 DEF CopiesAgree
      <3>6. ProfileInForce'
        BY <1>1, <1>7, <2>1, <3>1, <3>3, <3>5 DEF ProfileInForce, callVars
      <3> QED
        BY <1>9, <1>10, <2>2, <3>6 DEF EvseIInv
    <2>4. CASE res.write # NoWrite
      <3>1. ProfileInForce'
        BY <1>6, <1>7, <2>1, <2>4 DEF ProfileInForce
      <3> QED
        BY <1>9, <1>10, <2>2, <3>1 DEF EvseIInv
    <2> QED
      BY <2>3, <2>4
  <1> QED
    BY <1>12, <1>13

\* A sample observed, after the reassert that a reconnect calls for.
LEMMA ObserveKeeps ==
  ASSUME EvseIInv, ObserveEvse
  PROVE  EvseIInv'
  <1> DEFINE first == IF reconnectPending THEN Reconnected(r, now) ELSE Idle(r)
             o == [read |-> IF desiredMaxA = NoAmps THEN NoOpinion
                            ELSE [f \in Field |-> Readback(sample.amps)],
                   connected |-> sample.connected, plausible |-> TRUE,
                   finite |-> TRUE]
             second == Observe(first.r, o, now)
             write == IF second.write = NoWrite THEN first.write
                      ELSE second.write
  <1>1. EvseTypes /\ CopiesAgree
    BY DEF EvseIInv
  <1>2. r \in States /\ now \in Nat /\ Sound(r, now)
    BY <1>1 DEF EvseTypes, Sound
  <1>3. /\ sample # NoSample /\ sample' = NoSample
        /\ r' = second.r
        /\ Apply(write, desiredMaxA, setpoint)
        /\ UNCHANGED <<desiredMaxA, setpoint, standing, connected, currentA,
                       greeting, socket, demand, hubVars, now>>
        /\ reconnectPending' = FALSE
    BY DEF ObserveEvse
  <1>4. sample.amps \in Level /\ sample.connected \in BOOLEAN
    BY <1>1, <1>3 DEF EvseTypes, Currents
  <1>5. desiredMaxA = NoAmps \/ desiredMaxA \in Level
    <2>1. Wanted = Fold(standing.body)
      BY DEF Wanted, Fold
    <2> QED
      BY <1>1, <2>1, FoldType DEF CopiesAgree, EvseTypes
  <1>6. o \in Samples
    <2>1. CASE desiredMaxA = NoAmps
      BY <1>4, <2>1, NoOpinionType DEF Samples
    <2>2. CASE desiredMaxA # NoAmps
      <3>1. Readback(sample.amps) \in Level
        BY <1>4, <1>5, <2>2 DEF Readback
      <3>2. [f \in Field |-> Readback(sample.amps)] \in [Field -> Level]
        BY <3>1
      <3>3. [f \in Field |-> Readback(sample.amps)] \in Opinions
        BY <3>2 DEF Opinions
      <3> QED
        BY <1>4, <2>2, <3>3 DEF Samples
    <2> QED
      BY <2>1, <2>2
  <1> HIDE DEF o
  <1>7. /\ Sound(first.r, now) /\ first.r.fields = r.fields
        /\ first.r.applied = r.applied
        /\ r.applied /\ reconnectPending => first.write # NoWrite
        /\ ~r.applied => first.write = NoWrite
    <2>1. /\ Reconnected(r, now).r.fields = r.fields
          /\ r.applied => /\ Reconnected(r, now).r.applied
                          /\ Reconnected(r, now).write # NoWrite
          /\ ~r.applied => Reconnected(r, now) = Idle(r)
      BY <1>2, StandingDocument
    <2>2. Sound(Reconnected(r, now).r, now)
      BY <1>2, ReconnectedGood DEF Good
    <2>3. r.applied \in BOOLEAN /\ Reconnected(r, now).r.applied \in BOOLEAN
      BY <1>2, <2>2 DEF Sound, States
    <2>4. Idle(r).r = r /\ Idle(r).write = NoWrite
      BY DEF Idle, Result
    <2> QED
      BY <1>2, <2>1, <2>2, <2>3, <2>4
  <1> HIDE DEF first
  <1>8. /\ Sound(second.r, now) /\ second.r.fields = r.fields
        /\ second.r.applied = r.applied
        /\ ~r.applied => second.write = NoWrite
    <2>1. first.r \in States
      BY <1>7 DEF Sound
    <2>2. /\ second.r.fields = first.r.fields
          /\ first.r.applied => second.r.applied
          /\ ~first.r.applied => second.r = first.r /\ second.write = NoWrite
      BY <1>2, <2>1, StandingDocument
    <2>3. Sound(second.r, now)
      BY <1>2, <1>6, <1>7, ObserveGood DEF Good
    <2>4. second.r.applied \in BOOLEAN /\ first.r.applied \in BOOLEAN
      BY <2>1, <2>3 DEF Sound, States
    <2> QED
      BY <1>7, <2>2, <2>3, <2>4
  <1> HIDE DEF second
  <1>9. /\ write # NoWrite => r.applied
        /\ reconnectPending /\ r.applied => write # NoWrite
    BY <1>7, <1>8
  <1>10. \/ UNCHANGED <<greeting, reconnectPending>>
         \/ r.applied => write # NoWrite
    BY <1>1, <1>3, <1>9 DEF EvseTypes
  <1>11. sample' \in Currents
    BY <1>3 DEF Currents
  <1> HIDE DEF write
  <1> QED
    BY <1>3, <1>8, <1>9, <1>10, <1>11, ShellCallKeeps

\* Every step of the shell, the bridge, the station and the hub.
LEMMA EvseStep == ASSUME EvseIInv, [NextEvse]_evseVars PROVE EvseIInv'
  <1> USE DEF shellVars, callVars, bridgeVars, hubVars
  <1>1. EvseTypes /\ CopiesAgree /\ LateIsSpoilt /\ ProfileInForce
    BY DEF EvseIInv
  <1>2. /\ now \in Nat /\ seq \in Nat /\ events \in Nat
        /\ r \in States /\ Sound(r, now)
        /\ retained \in HubDocuments
        /\ {profile, currentA, demand} \subseteq Level
        /\ late \in Seq(Level) /\ sample \in Currents
        /\ {connected, setpoint, spoilt, reconnectPending} \subseteq BOOLEAN
        /\ {0, Rated} \subseteq Level
    BY <1>1, EvseAssumption DEF EvseTypes, Sound
  <1>3. CASE Deliver
    BY <1>3, DeliverKeeps DEF Deliver
  <1>4. CASE ObserveEvse
    BY <1>4, ObserveKeeps
  <1>5. CASE TickEvse
    <2> DEFINE res == Tick(r, now)
    <2>1. /\ res.r.fields = r.fields
          /\ r.applied => res.r.applied
          /\ ~r.applied => res = Idle(r)
          /\ Sound(res.r, now) /\ res.r \in States
      BY <1>2, StandingDocument, TickGood DEF Good, Sound
    <2>2. /\ r' = res.r /\ Apply(res.write, desiredMaxA, setpoint)
          /\ UNCHANGED <<desiredMaxA, setpoint, standing, bridgeVars, socket,
                         demand, hubVars, now>>
      BY <1>5 DEF TickEvse
    <2>3. r.applied \in BOOLEAN /\ res.r.applied \in BOOLEAN
      BY <1>2, <2>1 DEF States
    <2> HIDE DEF res
    <2>4. Idle(r).r = r /\ Idle(r).write = NoWrite
      BY DEF Idle, Result
    <2> QED
      BY <1>2, <2>1, <2>2, <2>3, <2>4, ShellCallKeeps
  <1>6. CASE StationConnects \/ MarkReconnected
    BY <1>2, <1>6, BystanderKeeps DEF StationConnects, MarkReconnected
  <1>7. CASE StationLeaves
    <2>1. /\ socket' = "down" /\ connected' = FALSE /\ late' = <<>>
          /\ UNCHANGED <<shellVars, profile, spoilt, events, currentA, sample,
                         greeting, reconnectPending, demand, hubVars, now>>
      BY <1>7 DEF StationLeaves
    <2>2. EvseTypes'
      <3>1. {connected', setpoint', spoilt', reconnectPending'}
              \subseteq BOOLEAN
        BY <1>2, <2>1
      <3> QED
        BY <1>1, <2>1, <3>1 DEF EvseTypes
    <2>3. CopiesAgree' /\ LateIsSpoilt' /\ ProfileInForce'
      BY <1>1, <2>1
         DEF CopiesAgree, LateIsSpoilt, ProfileInForce, Wanted, Limit
    <2> QED
      BY <2>2, <2>3 DEF EvseIInv
  <1>8. ASSUME NEW a \in Level, FoldCurrent(a)
        PROVE  currentA' \in Level /\ sample' \in Currents
    BY <1>2, <1>8 DEF FoldCurrent, Currents
  <1>9. CASE Meter
    <2>1. Drawn \in Level
      BY <1>2 DEF Drawn
    <2> QED
      BY <1>2, <1>8, <1>9, <2>1, BystanderKeeps DEF Meter
  <1>10. CASE MeterCorrupt
    BY <1>2, <1>8, <1>10, BystanderKeeps DEF MeterCorrupt, Event
  <1>11. CASE Session
    BY <1>2, <1>8, <1>11, BystanderKeeps DEF Session, Event
  <1>12. CASE StationTakes
    <2>1. /\ late # <<>> /\ late' = Tail(late)
          /\ profile' \in {profile, Head(late)}
          /\ UNCHANGED <<shellVars, spoilt, events, bridgeVars, socket,
                         demand, hubVars, now>>
      BY <1>12 DEF StationTakes
    <2>2. late' \in Seq(Level) /\ profile' \in Level
      BY <1>2, <2>1
    <2>3. EvseTypes'
      BY <1>1, <2>1, <2>2 DEF EvseTypes
    <2>4. spoilt'
      BY <1>1, <2>1 DEF LateIsSpoilt
    <2>5. CopiesAgree' /\ LateIsSpoilt' /\ ProfileInForce'
      BY <1>1, <2>1, <2>4
         DEF CopiesAgree, LateIsSpoilt, ProfileInForce, Wanted, Limit
    <2> QED
      BY <2>3, <2>5 DEF EvseIInv
  <1>13. CASE StationFault
    BY <1>2, <1>13, BystanderKeeps DEF StationFault, Event
  <1>14. CASE HubPublishes
    <2>1. PICK body \in Bodies : retained' = Document(body, seq, now)
      BY <1>14 DEF HubPublishes
    <2>2. retained' \in HubDocuments
      BY <1>2, <2>1 DEF Document, HubDocuments
    <2> QED
      BY <1>2, <1>14, <2>2, BystanderKeeps DEF HubPublishes
  <1>15. CASE HubRestarts
    BY <1>2, <1>15, BystanderKeeps DEF HubRestarts, Event
  <1>16. CASE Event /\ RestartEvse
    <2>1. Sound(New, now)
      BY <1>2, NewSound
    <2>2. /\ r' = New /\ desiredMaxA' = NoAmps /\ setpoint' = FALSE
          /\ standing' = NoDoc /\ spoilt' = FALSE /\ late' = <<>>
          /\ connected' = FALSE /\ currentA' = 0 /\ sample' = NoSample
          /\ reconnectPending' = FALSE /\ events' = events + 1
          /\ UNCHANGED <<profile, demand, seq, retained, now>>
      BY <1>16 DEF RestartEvse, Event
    <2>3. {connected', setpoint', spoilt', reconnectPending'} \subseteq BOOLEAN
      BY <2>2
    <2>4. EvseTypes'
      BY <1>2, <2>1, <2>2, <2>3 DEF EvseTypes, Currents
    <2>5. CopiesAgree' /\ LateIsSpoilt' /\ ProfileInForce'
      BY <2>2 DEF CopiesAgree, LateIsSpoilt, ProfileInForce, New
    <2> QED
      BY <2>4, <2>5 DEF EvseIInv
  <1>17. CASE Advance
    <2>1. now' = now + 1
      BY <1>17 DEF Advance
    <2>2. Sound(r, now')
      BY <1>2, <2>1, SoundLater
    <2> QED
      BY <1>2, <1>17, <2>1, <2>2, BystanderKeeps DEF Advance
  <1>18. CASE UNCHANGED evseVars
    BY <1>2, <1>18, BystanderKeeps DEF evseVars
  <1> QED
    BY <1>3, <1>4, <1>5, <1>6, <1>7, <1>9, <1>10, <1>11, <1>12, <1>13, <1>14,
       <1>15, <1>16, <1>17, <1>18 DEF NextEvse

\* A station that is reached holds the profile of the document adopted last,
\* a cease before any current, unless the last write failed or a call given
\* up is on its way (SetDesired, Observe, Apply, ApplyClear, MarkReconnected).
THEOREM LimitIsInForce == SpecEvse => []ProfileInForce
  <1>1. EvseIInv => ProfileInForce
    BY DEF EvseIInv
  <1> QED
    BY <1>1, EvseInit, EvseStep, PTL DEF SpecEvse
-----------------------------------------------------------------------------

PairingTypes ==
    /\ decision \in [Stations -> {"none", "approve", "deny"}]
    /\ saved \in [Stations -> {"none", "approve", "deny"}]
    /\ plant \in [Stations -> {"absent", "offline", "online"}]

\* Whatever a station may get into plant state by, now or after a restart: an
\* approval in memory, one in the file, a handler past the gate.
OnlyTheApproved ==
    \A s \in Stations :
        \/ decision[s] = "approve"
        \/ saved[s] = "approve"
        \/ \E h \in inside : h.station = s
        \/ plant[s] # "absent"
      => s \in approvedAt

PairingInv == PairingTypes /\ OnlyTheApproved

LEMMA PairingStarts == InitPairing => PairingInv
  BY DEF InitPairing, PairingInv, PairingTypes, OnlyTheApproved

\* Decisions: the only way into memory and file is an approval.
LEMMA DecisionKeepsGate ==
  ASSUME PairingInv, NEW s \in Stations, NEW d \in {"approve", "deny"},
         Decides(s, d)
  PROVE  PairingInv'
  <1>1. PairingTypes'
    BY DEF PairingInv, PairingTypes, Decides
  <1>2. OnlyTheApproved'
    BY DEF PairingInv, PairingTypes, OnlyTheApproved, Decides
  <1> QED
    BY <1>1, <1>2 DEF PairingInv

\* A handler goes past the gate only for an approved station ...
LEMMA ArrivalKeepsGate ==
  ASSUME PairingInv, NEW s \in Stations, NEW kind,
         Arrives(kind, s) \/ Boots(s)
  PROVE  PairingInv'
  <1>1. /\ UNCHANGED <<decision, saved, plant, approvedAt>>
        /\ \A h \in inside' : h \in inside \/ (h.station = s /\ Allowed(s))
    BY DEF Arrives, Boots, Enter, Allowed, gateVars
  <1> QED
    BY <1>1 DEF PairingInv, PairingTypes, OnlyTheApproved, Allowed

\* ... and folds in that station and no other.
LEMMA FoldKeepsGate ==
  ASSUME PairingInv, NEW s \in Stations, NEW kind, FoldIn(kind, s)
  PROVE  PairingInv'
  <1>1. s \in approvedAt
    BY DEF PairingInv, OnlyTheApproved, FoldIn
  <1>2. Folded(kind, s) \in {"absent", "offline", "online"}
    BY DEF PairingInv, PairingTypes, Folded
  <1>3. /\ UNCHANGED <<decision, saved, approvedAt>>
        /\ inside' \subseteq inside
        /\ plant' = [plant EXCEPT ![s] = Folded(kind, s)]
    BY DEF FoldIn, gateVars
  <1> QED
    BY <1>1, <1>2, <1>3 DEF PairingInv, PairingTypes, OnlyTheApproved

LEMMA LeavingKeepsGate ==
  ASSUME PairingInv, NEW s \in Stations, Leaves(s)
  PROVE  PairingInv'
  <1>1. /\ UNCHANGED <<decision, saved, approvedAt, inside>>
        /\ plant' = [plant EXCEPT ![s] = IF @ = "absent" THEN @ ELSE "offline"]
    BY DEF Leaves, gateVars
  <1> QED
    BY <1>1 DEF PairingInv, PairingTypes, OnlyTheApproved

LEMMA PairingStep == PairingInv /\ [NextPairing]_pairingVars => PairingInv'
  <1> SUFFICES ASSUME PairingInv, [NextPairing]_pairingVars
               PROVE  PairingInv'
    OBVIOUS
  <1>1. CASE UNCHANGED <<decision, saved, plant, inside, approvedAt>>
    BY <1>1 DEF PairingInv, PairingTypes, OnlyTheApproved
  <1>2. ASSUME NEW s \in Stations, Resolve(s) PROVE PairingInv'
    BY <1>1, <1>2 DEF Resolve
  <1>3. ASSUME NEW doc, DoPublish(doc) PROVE PairingInv'
    BY <1>1, <1>3 DEF DoPublish
  <1>4. CASE SecondPasses
    BY <1>1, <1>4 DEF SecondPasses
  <1>5. CASE RestartPairing
    BY <1>5 DEF RestartPairing, PairingInv, PairingTypes, OnlyTheApproved
  <1>6. CASE UNCHANGED pairingVars
    BY <1>1, <1>6 DEF pairingVars
  <1> QED
    BY <1>2, <1>3, <1>4, <1>5, <1>6, DecisionKeepsGate, ArrivalKeepsGate,
       FoldKeepsGate, LeavingKeepsGate DEF NextPairing

\* No station is ever in plant state that nobody has approved (pairing.go's
\* gate, through concurrent handlers, failed saves and restarts).
THEOREM StrangersAreKeptOut == SpecPairing => []StrangersStayOut
  <1>1. PairingInv => StrangersStayOut
    BY DEF PairingInv, OnlyTheApproved, StrangersStayOut
  <1> QED
    BY <1>1, PairingStarts, PairingStep, PTL DEF SpecPairing

-----------------------------------------------------------------------------
(* Induction.  The library's principles take an operator; this one is of   *)
(* sets, from the well-founded order of the intervals 0..n by inclusion.   *)

LEMMA LeastNumber ==
  ASSUME NEW T, T \subseteq Nat, NEW n \in T
  PROVE  \E x \in T : \A y \in T : x <= y
  <1> DEFINE S == 0..n
             Below == {0..m : m \in {k \in T : k <= n}}
             R == StrictSubsetOrdering(S)
  <1>1. n \in Nat /\ IsFiniteSet(S)
    BY FS_Interval
  <1>2. IsWellFoundedOn(R, FiniteSubsetsOf(S)) /\ FiniteSubsetsOf(S) = SUBSET S
    BY <1>1, FS_StrictSubsetOrderingWellFounded, FS_FiniteSubsetsOfFinite
  <1>3. Below \subseteq SUBSET S /\ Below # {}
    BY <1>1
  <1> HIDE DEF Below, R, S
  <1>4. PICK b \in Below : \A c \in Below : <<c, b>> \notin R
    BY <1>2, <1>3, WFMin
  <1>5. PICK x \in T : x <= n /\ b = 0..x
    BY <1>4 DEF Below
  <1>6. ASSUME NEW y \in T, y < x PROVE FALSE
    <2>0. x \in Nat /\ y \in Nat /\ y <= n
      BY <1>1, <1>5, <1>6
    <2>1. (0..y) \in Below
      BY <2>0 DEF Below
    <2>2. (0..y) \subseteq b
      BY <1>5, <1>6, <2>0
    <2>3. x \in b /\ x \notin 0..y
      BY <1>5, <1>6, <2>0
    <2>4. (0..y) # b
      BY <2>3
    <2>5. (0..y) \in SUBSET S /\ b \in SUBSET S
      BY <1>3, <1>4, <2>1
    <2>6. <<0..y, b>> \in R
      BY <2>2, <2>4, <2>5 DEF R, StrictSubsetOrdering
    <2> QED
      BY <1>4, <2>1, <2>6
  <1> QED
    BY <1>6

LEMMA Induction ==
  ASSUME NEW S, 0 \in S, \A n \in Nat : n \in S => n + 1 \in S
  PROVE  Nat \subseteq S
  <1> SUFFICES ASSUME NEW n \in Nat \ S PROVE FALSE
    OBVIOUS
  <1>1. PICK x \in Nat \ S : \A y \in Nat \ S : x <= y
    BY LeastNumber
  <1>2. x # 0 /\ x - 1 \in Nat /\ x - 1 < x
    OBVIOUS
  <1>3. (x - 1) + 1 \in S
    BY <1>1, <1>2
  <1> QED
    BY <1>3

\* What a function defined by recursion over an interval is: step[<<i, d>>] is
\* the value at i when d is the one before.
Course(f, N, D, d, step) ==
    /\ f \in [0..N -> D] /\ f[0] = d
    /\ \A i \in 1..N : f[i] = step[<<i, f[i - 1]>>]

LEMMA Recursion ==
  ASSUME NEW D, NEW d \in D, NEW N \in Nat, NEW step \in [(1..N) \X D -> D]
  PROVE  \E f : Course(f, N, D, d, step)
  <1> DEFINE Upto(m, f) == f \in [0..m -> D] /\ f[0] = d
                           /\ \A i \in 1..m : f[i] = step[<<i, f[i - 1]>>]
             S == {m \in Nat : m <= N => \E f : Upto(m, f)}
  <1>1. 0 \in S
    <2>1. Upto(0, [i \in 0..0 |-> d])
      OBVIOUS
    <2> QED
      BY <2>1
  <1>2. ASSUME NEW m \in Nat, m \in S PROVE m + 1 \in S
    <2> SUFFICES ASSUME m + 1 <= N PROVE \E f : Upto(m + 1, f)
      OBVIOUS
    <2>1. PICK g : Upto(m, g)
      BY <1>2
    <2> DEFINE f == [i \in 0..(m + 1) |-> IF i = m + 1 THEN step[<<m + 1, g[m]>>] ELSE g[i]]
    <2>2. g[m] \in D /\ step[<<m + 1, g[m]>>] \in D
      BY <2>1
    <2>3. f \in [0..(m + 1) -> D]
      BY <2>1, <2>2
    <2>4. f[0] = d
      BY <2>1
    <2>5. ASSUME NEW i \in 1..(m + 1) PROVE f[i] = step[<<i, f[i - 1]>>]
      <3>1. CASE i = m + 1
        <4>1. m \in 0..(m + 1) /\ m # m + 1 /\ (m + 1) - 1 = m /\ m + 1 \in 0..(m + 1)
          OBVIOUS
        <4>2. f[m] = g[m] /\ f[m + 1] = step[<<m + 1, g[m]>>]
          BY <4>1
        <4> HIDE DEF f
        <4> QED
          BY <3>1, <4>1, <4>2
      <3>2. CASE i \in 1..m
        <4>1. /\ i \in 0..(m + 1) /\ i # m + 1
              /\ i - 1 \in 0..(m + 1) /\ i - 1 # m + 1
          BY <3>2
        <4>2. f[i] = g[i] /\ f[i - 1] = g[i - 1]
          BY <4>1
        <4>3. g[i] = step[<<i, g[i - 1]>>]
          BY <2>1, <3>2
        <4> HIDE DEF f
        <4> QED
          BY <4>2, <4>3
      <3> QED
        BY <3>1, <3>2
    <2> QED
      BY <2>3, <2>4, <2>5
  <1>3. N \in S
    BY <1>1, <1>2, Induction
  <1>4. PICK f : Upto(N, f)
    BY <1>3
  <1> QED
    BY <1>4 DEF Course

\* Two functions that go on alike from one value are the same.
Alike(N, f, g) ==
    f[0] = g[0] /\ \A i \in 1..N : f[i - 1] = g[i - 1] => f[i] = g[i]

LEMMA SameCourse ==
  ASSUME NEW N \in Nat, NEW f, NEW g, Alike(N, f, g)
  PROVE  \A i \in 0..N : f[i] = g[i]
  <1> DEFINE S == {m \in Nat : m <= N => f[m] = g[m]}
  <1>1. 0 \in S
    BY DEF Alike
  <1>2. ASSUME NEW m \in Nat, m \in S PROVE m + 1 \in S
    <2>1. m + 1 <= N => m + 1 \in 1..N /\ m <= N /\ (m + 1) - 1 = m
      OBVIOUS
    <2> QED
      BY <1>2, <2>1 DEF Alike
  <1> HIDE DEF S
  <1>3. Nat \subseteq S
    BY <1>1, <1>2, Induction
  <1> QED
    BY <1>3 DEF S

-----------------------------------------------------------------------------
(* The records of a log, segment by segment.                               *)

Segment == [seq : Nat, recs : Seq(Record), synced : Nat]

\* g[i] holds the records of the first i segments.
Heads(segs, g) ==
    /\ g \in [0..Len(segs) -> Seq(Record)]
    /\ g[0] = <<>>
    /\ \A i \in 1..Len(segs) : g[i] = g[i - 1] \o segs[i].recs

LEMMA JoinedHeads ==
  ASSUME NEW segs \in Seq(Segment)
  PROVE  \E g : Heads(segs, g) /\ Joined(segs) = g[Len(segs)]
  <1> DEFINE N == Len(segs)
             D == Seq(Record)
             step == [p \in (1..N) \X D |-> p[2] \o segs[p[1]].recs]
             Sequel(u) == [i \in 0..N |-> IF i = 0 THEN <<>> ELSE u[i - 1] \o segs[i].recs]
             upto == CHOOSE u : u = Sequel(u)
  <1>1. N \in Nat /\ <<>> \in D /\ \A i \in 1..N : segs[i].recs \in D
    <2>1. \A i \in 1..N : segs[i] \in Segment
      OBVIOUS
    <2>2. \A i \in 1..N : segs[i].recs \in D
      BY <2>1 DEF Segment
    <2> QED
      BY <2>2
  <1>2. step \in [(1..N) \X D -> D]
    <2>1. ASSUME NEW q \in 1..N, NEW rec \in D PROVE rec \o segs[q].recs \in D
      BY <1>1, <2>1, ConcatProperties
    <2> HIDE DEF D
    <2> QED
      BY <2>1
  <1>3a. PICK f : Course(f, N, D, <<>>, step)
    <2>1. N \in Nat
      BY <1>1
    <2>2. <<>> \in D
      BY <1>1
    <2> HIDE DEF step, D, N
    <2> QED
      BY <1>2, <2>1, <2>2, Recursion
  <1>3. f \in [0..N -> D] /\ f[0] = <<>> /\ \A i \in 1..N : f[i] = step[<<i, f[i - 1]>>]
    BY <1>3a DEF Course
  <1>4. ASSUME NEW i \in 1..N PROVE f[i] = f[i - 1] \o segs[i].recs
    <2>1. f[i] = step[<<i, f[i - 1]>>]
      BY <1>3
    <2>2. i - 1 \in 0..N
      BY <1>1
    <2>3. <<i, f[i - 1]>> \in (1..N) \X D
      BY <1>3, <2>2
    <2> HIDE DEF D
    <2> QED
      BY <2>1, <2>3
  <1>5. f[0] = <<>>
    BY <1>3
  <1>6. f = Sequel(f)
    <2>1. ASSUME NEW i \in 0..N PROVE f[i] = IF i = 0 THEN <<>> ELSE f[i - 1] \o segs[i].recs
      <3>1. i = 0 \/ i \in 1..N
        BY <1>1
      <3> QED
        BY <1>4, <1>5, <3>1
    <2>2. f = [i \in 0..N |-> f[i]]
      BY <1>3
    <2> HIDE DEF D, N
    <2> QED
      BY <2>1, <2>2
  <1>7. upto = Sequel(upto)
    BY <1>6
  <1>8. Joined(segs) = upto[N]
    BY DEF Joined
  <1> HIDE DEF upto, step
  <1>9. upto[0] = <<>> /\ \A i \in 1..N : upto[i] = upto[i - 1] \o segs[i].recs
    <2>1. 0 \in 0..N /\ \A i \in 1..N : i \in 0..N /\ i # 0
      BY <1>1
    <2> QED
      BY <1>7, <2>1
  <1>10. \A i \in 0..N : upto[i] = f[i]
    <2>1. Alike(N, upto, f)
      BY <1>4, <1>5, <1>9 DEF Alike
    <2>2. N \in Nat
      BY <1>1
    <2> HIDE DEF N
    <2> QED
      BY <2>1, <2>2, SameCourse
  <1>11. Heads(segs, f)
    BY <1>3, <1>4 DEF Heads
  <1>12. Joined(segs) = f[N]
    BY <1>1, <1>8, <1>10
  <1> QED
    BY <1>11, <1>12

LEMMA JoinedType ==
  ASSUME NEW segs \in Seq(Segment)
  PROVE  Joined(segs) \in Seq(Record)
  <1>1. PICK g : Heads(segs, g) /\ Joined(segs) = g[Len(segs)]
    BY JoinedHeads
  <1>2. Len(segs) \in 0..Len(segs)
    OBVIOUS
  <1> QED
    BY <1>1, <1>2 DEF Heads

\* As long as two logs hold the same records they are joined alike.
LEMMA HeadsAlike ==
  ASSUME NEW s \in Seq(Segment), NEW t \in Seq(Segment), NEW g, NEW h,
         Heads(s, g), Heads(t, h), NEW k \in 0..Len(s), k <= Len(t),
         \A i \in 1..k : s[i].recs = t[i].recs
  PROVE  g[k] = h[k]
  <1>1. k \in Nat /\ \A i \in 1..k : i \in 1..Len(s) /\ i \in 1..Len(t)
    OBVIOUS
  <1>2. Alike(k, g, h)
    BY <1>1 DEF Alike, Heads
  <1>3. \A i \in 0..k : g[i] = h[i]
    BY <1>1, <1>2, SameCourse
  <1> QED
    BY <1>1, <1>3

LEMMA JoinedAlike ==
  ASSUME NEW s \in Seq(Segment), NEW t \in Seq(Segment), Len(s) = Len(t),
         \A i \in 1..Len(s) : s[i].recs = t[i].recs
  PROVE  Joined(s) = Joined(t)
  <1>1. PICK g : Heads(s, g) /\ Joined(s) = g[Len(s)]
    BY JoinedHeads
  <1>2. PICK h : Heads(t, h) /\ Joined(t) = h[Len(t)]
    BY JoinedHeads
  <1>3. Len(s) \in 0..Len(s) /\ Len(s) <= Len(t)
    OBVIOUS
  <1>4. g[Len(s)] = h[Len(s)]
    BY <1>1, <1>2, <1>3, HeadsAlike
  <1> QED
    BY <1>1, <1>2, <1>4

LEMMA JoinedNone == Joined(<<>>) = <<>>
  <1>1. <<>> \in Seq(Segment) /\ Len(<<>>) = 0
    OBVIOUS
  <1>2. PICK g : Heads(<<>>, g) /\ Joined(<<>>) = g[Len(<<>>)]
    BY <1>1, JoinedHeads
  <1> QED
    BY <1>1, <1>2 DEF Heads

LEMMA JoinedAppend ==
  ASSUME NEW s \in Seq(Segment), NEW e \in Segment
  PROVE  Joined(Append(s, e)) = Joined(s) \o e.recs
  <1> DEFINE t == Append(s, e)
             n == Len(s)
  <1>1. /\ t \in Seq(Segment) /\ Len(t) = n + 1 /\ n \in Nat /\ t[n + 1] = e
        /\ \A i \in 1..n : t[i] = s[i]
    OBVIOUS
  <1> HIDE DEF t
  <1>2. PICK g : Heads(s, g) /\ Joined(s) = g[n]
    BY JoinedHeads
  <1>3. PICK h : Heads(t, h) /\ Joined(t) = h[Len(t)]
    BY <1>1, JoinedHeads
  <1>4. n \in 0..Len(s) /\ n <= Len(t)
    BY <1>1
  <1>5. g[n] = h[n]
    BY <1>1, <1>2, <1>3, <1>4, HeadsAlike
  <1>6. h[n + 1] = h[n] \o e.recs
    <2>1. n + 1 \in 1..Len(t) /\ (n + 1) - 1 = n
      BY <1>1
    <2> QED
      BY <1>1, <1>3, <2>1 DEF Heads
  <1> QED
    BY <1>1, <1>2, <1>3, <1>5, <1>6 DEF t

\* A log may be cut anywhere.
LEMMA JoinedSplit ==
  ASSUME NEW s \in Seq(Segment), NEW k \in 0..Len(s)
  PROVE  Joined(s) = Joined(SubSeq(s, 1, k)) \o Joined(SubSeq(s, k + 1, Len(s)))
  <1> DEFINE n == Len(s)
             a == SubSeq(s, 1, k)
             b == SubSeq(s, k + 1, n)
             m == n - k
  <1>1. /\ n \in Nat /\ k \in Nat /\ m \in Nat
        /\ a \in Seq(Segment) /\ Len(a) = k /\ \A i \in 1..k : a[i] = s[i]
        /\ b \in Seq(Segment) /\ Len(b) = m /\ \A i \in 1..m : b[i] = s[k + i]
    <2>1. n \in Nat /\ k \in Nat /\ m \in Nat /\ \A i \in 1..n : s[i] \in Segment
      OBVIOUS
    <2>2. a \in Seq(Segment) /\ Len(a) = k /\ \A i \in 1..k : a[i] = s[i]
      BY <2>1
    <2>3. b \in Seq(Segment) /\ Len(b) = m /\ \A i \in 1..m : b[i] = s[k + i]
      BY <2>1
    <2> QED
      BY <2>1, <2>2, <2>3
  <1> HIDE DEF a, b
  <1>2. PICK g : Heads(s, g) /\ Joined(s) = g[n]
    BY JoinedHeads
  <1>3. PICK h : Heads(a, h) /\ Joined(a) = h[k]
    BY <1>1, JoinedHeads
  <1>4. PICK w : Heads(b, w) /\ Joined(b) = w[m]
    BY <1>1, JoinedHeads
  <1>5. g[k] = h[k]
    <2>1. k \in 0..Len(s) /\ k <= Len(a)
      BY <1>1
    <2>2. \A i \in 1..k : s[i].recs = a[i].recs
      BY <1>1
    <2> HIDE DEF n, m
    <2> QED
      BY <1>1, <1>2, <1>3, <2>1, <2>2, HeadsAlike, SMTT(60)
  <1> DEFINE whole == [i \in 0..m |-> g[k + i]]
             parts == [i \in 0..m |-> g[k] \o w[i]]
  <1>6. Alike(m, whole, parts)
    <2>1. g[k] \in Seq(Record) /\ w[0] = <<>>
      BY <1>1, <1>2, <1>4 DEF Heads
    <2>2. whole[0] = parts[0]
      <3>1. g[k] \o <<>> = g[k]
        BY <2>1, ConcatEmptySeq
      <3>2. 0 \in 0..m /\ k + 0 = k
        BY <1>1
      <3> QED
        BY <2>1, <3>1, <3>2
    <2>3. ASSUME NEW i \in 1..m, whole[i - 1] = parts[i - 1] PROVE whole[i] = parts[i]
      <3>1. /\ i \in 0..m /\ i - 1 \in 0..m /\ k + i \in 1..n /\ (k + i) - 1 = k + (i - 1)
            /\ k + (i - 1) \in 0..n
        BY <1>1
      <3>2. g[k + i] = g[k + (i - 1)] \o s[k + i].recs
        BY <1>2, <3>1 DEF Heads
      <3>3. w[i] = w[i - 1] \o b[i].recs /\ b[i] = s[k + i]
        BY <1>1, <1>4, <3>1 DEF Heads
      <3>4. g[k + (i - 1)] = g[k] \o w[i - 1]
        <4>1. whole[i - 1] = g[k + (i - 1)] /\ parts[i - 1] = g[k] \o w[i - 1]
          BY <3>1
        <4> QED
          BY <2>3, <4>1
      <3>5. w[i - 1] \in Seq(Record)
        BY <1>1, <1>4, <3>1 DEF Heads
      <3>6. b[i] \in Segment
        BY <1>1, ElementOfSeq
      <3>7. b[i].recs \in Seq(Record)
        BY <3>6 DEF Segment
      <3>8. (g[k] \o w[i - 1]) \o b[i].recs = g[k] \o (w[i - 1] \o b[i].recs)
        <4>1. g[k] \in Seq(Record)
          BY <2>1
        <4> DEFINE x == g[k]
                   y == w[i - 1]
                   z == b[i].recs
        <4>2. x \in Seq(Record) /\ y \in Seq(Record) /\ z \in Seq(Record)
          BY <3>5, <3>7, <4>1
        <4> HIDE DEF x, y, z
        <4>3. (x \o y) \o z = x \o (y \o z)
          BY <4>2, ConcatAssociative
        <4> QED
          BY <4>3 DEF x, y, z
      <3>9. g[k + i] = g[k] \o w[i]
        BY <3>2, <3>3, <3>4, <3>8
      <3> QED
        BY <3>1, <3>9
    <2> HIDE DEF whole, parts
    <2> QED
      BY <2>2, <2>3 DEF Alike
  <1>7. whole[m] = parts[m]
    <2> HIDE DEF whole, parts, m
    <2>1. \A i \in 0..m : whole[i] = parts[i]
      BY <1>1, <1>6, SameCourse
    <2> QED
      BY <1>1, <2>1
  <1>8. g[n] = g[k] \o w[m]
    <2>1. m \in 0..m /\ k + m = n
      BY <1>1
    <2>2. whole[m] = g[k + m] /\ parts[m] = g[k] \o w[m]
      BY <2>1
    <2> HIDE DEF whole, parts, m, n
    <2>3. g[k + m] = g[k] \o w[m]
      BY <1>7, <2>2
    <2> QED
      BY <2>1, <2>3
  <1>9. Joined(s) = Joined(a) \o Joined(b)
    BY <1>2, <1>3, <1>4, <1>5, <1>8
  <1> QED
    BY <1>9 DEF a, b
-----------------------------------------------------------------------------
(* What is left of a sequence without its first elements.                  *)

Rest(s, n) == SubSeq(s, n + 1, Len(s))

LEMMA FunctionIsSeq ==
  ASSUME NEW S, NEW n \in Nat, NEW f \in [1..n -> S]
  PROVE  f \in Seq(S) /\ Len(f) = n
  OBVIOUS

LEMMA RestProperties ==
  ASSUME NEW S, NEW s \in Seq(S), NEW n \in Nat
  PROVE  /\ Rest(s, n) \in Seq(S)
         /\ Len(Rest(s, n)) = IF n <= Len(s) THEN Len(s) - n ELSE 0
         /\ \A i \in 1..(Len(s) - n) : Rest(s, n)[i] = s[n + i]
  <1>1. Len(s) \in Nat /\ \A i \in (n + 1)..Len(s) : s[i] \in S
    OBVIOUS
  <1>2. n + 1 \in Int /\ Len(s) \in Int /\ Len(s) - (n + 1) + 1 = Len(s) - n
    BY <1>1
  <1>3. /\ Rest(s, n) \in Seq(S)
        /\ Len(Rest(s, n)) = IF n + 1 <= Len(s) THEN Len(s) - (n + 1) + 1 ELSE 0
        /\ \A i \in 1..(Len(s) - (n + 1) + 1) : Rest(s, n)[i] = s[(n + 1) + i - 1]
    BY <1>1, <1>2, SubSeqProperties DEF Rest
  <1>4. \A i \in 1..(Len(s) - n) : Rest(s, n)[i] = s[n + i]
    <2> TAKE i \in 1..(Len(s) - n)
    <2>1. (n + 1) + i - 1 = n + i
      OBVIOUS
    <2> QED
      BY <1>2, <1>3, <2>1
  <1>5. Len(Rest(s, n)) = IF n <= Len(s) THEN Len(s) - n ELSE 0
    BY <1>1, <1>3
  <1> QED
    BY <1>3, <1>4, <1>5

LEMMA RestOfAll ==
  ASSUME NEW S, NEW s \in Seq(S)
  PROVE  /\ Rest(s, 0) = s
         /\ \A n \in Nat : n >= Len(s) => Rest(s, n) = <<>>
  <1>1. Rest(s, 0) = s
    BY SubSeqFull DEF Rest
  <1>2. ASSUME NEW n \in Nat, n >= Len(s) PROVE Rest(s, n) = <<>>
    <2>1. Len(s) \in Int /\ n + 1 \in Int /\ Len(s) < n + 1
      BY <1>2
    <2> QED
      BY <2>1, SubSeqEmpty DEF Rest
  <1> QED
    BY <1>1, <1>2

LEMMA RestOfRest ==
  ASSUME NEW S, NEW s \in Seq(S), NEW n \in Nat, NEW m \in Nat
  PROVE  Rest(Rest(s, n), m) = Rest(s, n + m)
  <1> DEFINE a == Rest(s, n)
             b == Rest(a, m)
             c == Rest(s, n + m)
             L == Len(s)
  <1>0. L \in Nat /\ n + m \in Nat
    OBVIOUS
  <1>1. /\ a \in Seq(S)
        /\ Len(a) = IF n <= L THEN L - n ELSE 0
        /\ \A i \in 1..(L - n) : a[i] = s[n + i]
    BY RestProperties
  <1>2. /\ c \in Seq(S)
        /\ Len(c) = IF n + m <= L THEN L - (n + m) ELSE 0
        /\ \A i \in 1..(L - (n + m)) : c[i] = s[(n + m) + i]
    BY <1>0, RestProperties
  <1> HIDE DEF a
  <1>3. /\ b \in Seq(S)
        /\ Len(b) = IF m <= Len(a) THEN Len(a) - m ELSE 0
        /\ \A i \in 1..(Len(a) - m) : b[i] = a[m + i]
    BY <1>1, RestProperties
  <1> HIDE DEF b, c, L
  <1>4. Len(b) = Len(c)
    BY <1>0, <1>1, <1>2, <1>3
  <1>5. ASSUME NEW i \in 1..Len(b) PROVE b[i] = c[i]
    <2>1. /\ Len(a) = L - n /\ Len(b) = Len(a) - m /\ Len(c) = L - (n + m)
          /\ i \in 1..(Len(a) - m) /\ m + i \in 1..(L - n) /\ i \in 1..(L - (n + m))
          /\ n + (m + i) = (n + m) + i
      BY <1>0, <1>1, <1>2, <1>3, <1>4
    <2>2. b[i] = a[m + i] /\ a[m + i] = s[n + (m + i)] /\ c[i] = s[(n + m) + i]
      BY <1>1, <1>2, <1>3, <2>1
    <2> QED
      BY <2>1, <2>2
  <1>6. b = c
    BY <1>2, <1>3, <1>4, <1>5, SeqEqual
  <1> QED
    BY <1>6 DEF a, b, c

LEMMA RestOfConcat ==
  ASSUME NEW S, NEW s \in Seq(S), NEW t \in Seq(S), NEW n \in Nat
  PROVE  /\ Rest(s \o t, Len(s) + n) = Rest(t, n)
         /\ n <= Len(s) => Rest(s \o t, n) = Rest(s, n) \o t
  <1> DEFINE u == s \o t
             a == Rest(u, Len(s) + n)
             b == Rest(t, n)
             c == Rest(u, n)
             d == Rest(s, n)
             e == d \o t
  <1>0. Len(s) \in Nat /\ Len(t) \in Nat /\ Len(s) + n \in Nat
    OBVIOUS
  <1>1. /\ u \in Seq(S) /\ Len(u) = Len(s) + Len(t)
        /\ \A i \in 1..(Len(s) + Len(t)) : u[i] = IF i <= Len(s) THEN s[i] ELSE t[i - Len(s)]
    BY ConcatProperties
  <1> HIDE DEF u
  <1>2. /\ a \in Seq(S)
        /\ Len(a) = IF Len(s) + n <= Len(u) THEN Len(u) - (Len(s) + n) ELSE 0
        /\ \A i \in 1..(Len(u) - (Len(s) + n)) : a[i] = u[(Len(s) + n) + i]
    <2>1. u \in Seq(S) /\ Len(s) + n \in Nat
      BY <1>0, <1>1
    <2> DEFINE m == Len(s) + n
    <2> HIDE DEF m
    <2>2. /\ Rest(u, m) \in Seq(S)
          /\ Len(Rest(u, m)) = IF m <= Len(u) THEN Len(u) - m ELSE 0
          /\ \A i \in 1..(Len(u) - m) : Rest(u, m)[i] = u[m + i]
      BY <2>1, RestProperties DEF m
    <2> QED
      BY <2>2 DEF m
  <1>3. /\ b \in Seq(S)
        /\ Len(b) = IF n <= Len(t) THEN Len(t) - n ELSE 0
        /\ \A i \in 1..(Len(t) - n) : b[i] = t[n + i]
    BY RestProperties
  <1>4. /\ c \in Seq(S)
        /\ Len(c) = IF n <= Len(u) THEN Len(u) - n ELSE 0
        /\ \A i \in 1..(Len(u) - n) : c[i] = u[n + i]
    <2>1. u \in Seq(S)
      BY <1>1
    <2> QED
      BY <2>1, RestProperties
  <1>5. /\ d \in Seq(S)
        /\ Len(d) = IF n <= Len(s) THEN Len(s) - n ELSE 0
        /\ \A i \in 1..(Len(s) - n) : d[i] = s[n + i]
    BY RestProperties
  <1> HIDE DEF a, b, c, d
  <1>6. /\ e \in Seq(S) /\ Len(e) = Len(d) + Len(t)
        /\ \A i \in 1..(Len(d) + Len(t)) : e[i] = IF i <= Len(d) THEN d[i] ELSE t[i - Len(d)]
    BY <1>5, ConcatProperties
  <1> HIDE DEF e
  <1>7. a = b
    <2>1. Len(a) = Len(b)
      BY <1>0, <1>1, <1>2, <1>3
    <2>2. ASSUME NEW i \in 1..Len(a) PROVE a[i] = b[i]
      <3>1. /\ Len(a) = Len(t) - n
            /\ i \in 1..(Len(u) - (Len(s) + n)) /\ i \in 1..(Len(t) - n)
            /\ (Len(s) + n) + i \in 1..(Len(s) + Len(t)) /\ ~((Len(s) + n) + i <= Len(s))
            /\ ((Len(s) + n) + i) - Len(s) = n + i
        BY <1>0, <1>1, <1>2, <1>3, <2>1
      <3>2. a[i] = u[(Len(s) + n) + i] /\ b[i] = t[n + i]
        BY <1>2, <1>3, <3>1
      <3>3. u[(Len(s) + n) + i] = t[n + i]
        BY <1>1, <3>1
      <3> QED
        BY <3>2, <3>3
    <2> QED
      BY <1>2, <1>3, <2>1, <2>2, SeqEqual
  <1>8. ASSUME n <= Len(s) PROVE c = e
    <2>1. Len(c) = Len(e) /\ Len(d) = Len(s) - n
      BY <1>0, <1>1, <1>4, <1>5, <1>6, <1>8
    <2>2. ASSUME NEW i \in 1..Len(c) PROVE c[i] = e[i]
      <3>1. /\ Len(c) = (Len(s) - n) + Len(t) /\ Len(u) - n = (Len(s) - n) + Len(t)
            /\ n + i \in 1..(Len(s) + Len(t)) /\ i \in 1..(Len(d) + Len(t))
        BY <1>0, <1>1, <1>4, <1>8, <2>1
      <3>2. c[i] = u[n + i]
        BY <1>4, <3>1
      <3>3. CASE i <= Len(d)
        <4>1. n + i <= Len(s) /\ i \in 1..(Len(s) - n)
          BY <1>0, <1>8, <2>1, <3>3
        <4>2. u[n + i] = s[n + i] /\ e[i] = d[i] /\ d[i] = s[n + i]
          BY <1>1, <1>5, <1>6, <3>1, <3>3, <4>1
        <4> QED
          BY <3>2, <4>2
      <3>4. CASE ~(i <= Len(d))
        <4>1. ~(n + i <= Len(s)) /\ (n + i) - Len(s) = i - Len(d)
          BY <1>0, <1>8, <2>1, <3>4
        <4>2. u[n + i] = t[(n + i) - Len(s)] /\ e[i] = t[i - Len(d)]
          BY <1>1, <1>6, <3>1, <3>4, <4>1
        <4> QED
          BY <3>2, <4>1, <4>2
      <3> QED
        BY <3>3, <3>4
    <2> QED
      BY <1>4, <1>6, <2>1, <2>2, SeqEqual
  <1> QED
    BY <1>7, <1>8 DEF a, b, c, d, e, u

\* One sequence is what is left of another.
IsRest(t, s) == \E n \in Nat : t = Rest(s, n)

LEMMA RestTransitive ==
  ASSUME NEW S, NEW s \in Seq(S), NEW t, NEW u, IsRest(t, s), IsRest(u, t)
  PROVE  IsRest(u, s)
  <1>1. PICK n \in Nat : t = Rest(s, n)
    BY DEF IsRest
  <1>2. PICK m \in Nat : u = Rest(t, m)
    BY DEF IsRest
  <1>3. u = Rest(s, n + m) /\ n + m \in Nat
    BY <1>1, <1>2, RestOfRest
  <1> QED
    BY <1>3 DEF IsRest

LEMMA RestReflexive ==
  ASSUME NEW S, NEW s \in Seq(S)
  PROVE  IsRest(s, s)
  BY RestOfAll DEF IsRest

LEMMA RestOfNone ==
  ASSUME NEW t, IsRest(t, <<>>)
  PROVE  t = <<>>
  <1>1. PICK n \in Nat : t = Rest(<<>>, n)
    BY DEF IsRest
  <1>2. <<>> \in Seq({}) /\ n >= Len(<<>>)
    OBVIOUS
  <1>3. \A m \in Nat : m >= Len(<<>>) => Rest(<<>>, m) = <<>>
    BY <1>2, RestOfAll
  <1> QED
    BY <1>1, <1>2, <1>3

LEMMA RestIsSuffix ==
  ASSUME NEW S, NEW s \in Seq(S), NEW t, IsRest(t, s)
  PROVE  IsSuffix(t, s)
  <1>1. PICK n \in Nat : t = Rest(s, n)
    BY DEF IsRest
  <1> DEFINE rec == Reverse(s)
             q == Reverse(t)
             L == Len(s)
             M == Len(t)
  <1>2. /\ t \in Seq(S) /\ L \in Nat /\ M \in Nat
        /\ M = IF n <= L THEN L - n ELSE 0
        /\ \A i \in 1..(L - n) : t[i] = s[n + i]
    <2>1. /\ t \in Seq(S)
          /\ Len(t) = IF n <= Len(s) THEN Len(s) - n ELSE 0
          /\ \A i \in 1..(Len(s) - n) : t[i] = s[n + i]
      BY <1>1, RestProperties
    <2>2. L \in Nat /\ M \in Nat
      BY <2>1
    <2> QED
      BY <2>1, <2>2
  <1>3. rec \in [1..L -> S] /\ \A i \in 1..L : rec[i] = s[(L - i) + 1]
    <2>1. \A i \in 1..L : s[(L - i) + 1] \in S
      BY <1>2
    <2> QED
      BY <2>1 DEF Reverse
  <1>4. q \in [1..M -> S] /\ \A i \in 1..M : q[i] = t[(M - i) + 1]
    <2>1. \A i \in 1..M : t[(M - i) + 1] \in S
      BY <1>2
    <2> QED
      BY <2>1 DEF Reverse
  <1> HIDE DEF rec, q
  <1>5. rec \in Seq(S) /\ Len(rec) = L /\ q \in Seq(S) /\ Len(q) = M
    <2>1. L \in Nat /\ M \in Nat /\ rec \in [1..L -> S] /\ q \in [1..M -> S]
      BY <1>2, <1>3, <1>4
    <2> HIDE DEF L, M
    <2> QED
      BY <2>1, FunctionIsSeq
  <1>6. M <= L /\ \A i \in 1..M : q[i] = rec[i]
    <2>1. M <= L
      BY <1>2
    <2>2. ASSUME NEW i \in 1..M PROVE q[i] = rec[i]
      <3>0. L \in Nat /\ M \in Nat /\ M = IF n <= L THEN L - n ELSE 0
        BY <1>2
      <3>1. /\ M = L - n /\ (M - i) + 1 \in 1..(L - n) /\ i \in 1..L
            /\ n + ((M - i) + 1) = (L - i) + 1
        <4> HIDE DEF L, M
        <4> QED
          BY <3>0
      <3>2. t[(M - i) + 1] = s[n + ((M - i) + 1)]
        BY <1>2, <3>1
      <3>3. q[i] = t[(M - i) + 1] /\ rec[i] = s[(L - i) + 1]
        BY <1>3, <1>4, <3>1
      <3> QED
        BY <3>1, <3>2, <3>3
    <2> QED
      BY <2>1, <2>2
  <1> DEFINE qs == SubSeq(q, 1, M)
             rs == SubSeq(rec, 1, M)
  <1>7. qs \in Seq(S) /\ rs \in Seq(S) /\ Len(qs) = M /\ Len(rs) = M
        /\ \A i \in 1..M : qs[i] = q[i] /\ rs[i] = rec[i]
    BY <1>2, <1>5, <1>6
  <1> HIDE DEF qs, rs, M, L
  <1>8. qs = rs
    <2>1. Len(qs) = Len(rs) /\ \A i \in 1..Len(qs) : qs[i] = rs[i]
      BY <1>6, <1>7
    <2> QED
      BY <1>7, <2>1, SeqEqual
  <1>9. IsPrefix(q, rec)
    BY <1>5, <1>6, <1>8 DEF IsPrefix, qs, rs
  <1> QED
    BY <1>9 DEF IsSuffix, q, rec

-----------------------------------------------------------------------------
(* Positions in a log: how many records its first segments hold.           *)

Passed(segs, k) == Len(Joined(SubSeq(segs, 1, k)))

LEMMA FirstSegments ==
  ASSUME NEW s \in Seq(Segment), NEW k \in 0..Len(s)
  PROVE  /\ SubSeq(s, 1, k) \in Seq(Segment) /\ Len(SubSeq(s, 1, k)) = k
         /\ \A i \in 1..k : SubSeq(s, 1, k)[i] = s[i]
         /\ Joined(SubSeq(s, 1, k)) \in Seq(Record)
         /\ Passed(s, k) \in Nat
  <1>1. k \in Nat /\ Len(s) \in Nat /\ \A i \in 1..k : s[i] \in Segment
    OBVIOUS
  <1>2. SubSeq(s, 1, k) \in Seq(Segment) /\ Len(SubSeq(s, 1, k)) = k
    BY <1>1
  <1>3. \A i \in 1..k : SubSeq(s, 1, k)[i] = s[i]
    BY <1>1
  <1>4. Joined(SubSeq(s, 1, k)) \in Seq(Record)
    BY <1>2, JoinedType
  <1>5. Passed(s, k) \in Nat
    BY <1>4 DEF Passed
  <1> QED
    BY <1>2, <1>3, <1>4, <1>5

LEMMA SegmentsLeft ==
  ASSUME NEW s \in Seq(Segment), NEW k \in 0..Len(s)
  PROVE  /\ Rest(s, k) \in Seq(Segment) /\ Len(Rest(s, k)) = Len(s) - k
         /\ \A i \in 1..(Len(s) - k) : Rest(s, k)[i] = s[k + i]
         /\ Joined(Rest(s, k)) \in Seq(Record)
  <1>1. k \in Nat /\ k <= Len(s)
    OBVIOUS
  <1>2. /\ Rest(s, k) \in Seq(Segment) /\ Len(Rest(s, k)) = Len(s) - k
        /\ \A i \in 1..(Len(s) - k) : Rest(s, k)[i] = s[k + i]
    BY <1>1, RestProperties
  <1> QED
    BY <1>2, JoinedType

LEMMA JoinedStep ==
  ASSUME NEW s \in Seq(Segment), NEW k \in 1..Len(s)
  PROVE  /\ Joined(SubSeq(s, 1, k)) = Joined(SubSeq(s, 1, k - 1)) \o s[k].recs
         /\ Joined(SubSeq(s, 1, k - 1)) \in Seq(Record) /\ s[k].recs \in Seq(Record)
  <1> DEFINE f == SubSeq(s, 1, k - 1)
  <1>1. k - 1 \in 0..Len(s) /\ k \in 0..Len(s) /\ s[k] \in Segment
    OBVIOUS
  <1>2. f \in Seq(Segment) /\ Len(f) = k - 1 /\ \A i \in 1..(k - 1) : f[i] = s[i]
    BY <1>1, FirstSegments
  <1>3. /\ SubSeq(s, 1, k) \in Seq(Segment) /\ Len(SubSeq(s, 1, k)) = k
        /\ \A i \in 1..k : SubSeq(s, 1, k)[i] = s[i]
    BY <1>1, FirstSegments
  <1> HIDE DEF f
  <1>4. SubSeq(s, 1, k) = Append(f, s[k])
    <2>1. /\ Append(f, s[k]) \in Seq(Segment) /\ Len(Append(f, s[k])) = k
          /\ \A i \in 1..k : Append(f, s[k])[i] = s[i]
      BY <1>1, <1>2
    <2> QED
      BY <1>3, <2>1, SeqEqual
  <1>5. Joined(SubSeq(s, 1, k)) = Joined(f) \o s[k].recs
    BY <1>1, <1>2, <1>4, JoinedAppend
  <1>6. Joined(f) \in Seq(Record) /\ s[k].recs \in Seq(Record)
    BY <1>1, <1>2, JoinedType DEF Segment
  <1> QED
    BY <1>5, <1>6 DEF f

LEMMA PassedStep ==
  ASSUME NEW s \in Seq(Segment), NEW k \in 1..Len(s)
  PROVE  Passed(s, k) = Passed(s, k - 1) + Bytes(s[k])
  <1> DEFINE x == Joined(SubSeq(s, 1, k - 1))
             y == s[k].recs
  <1>1. Joined(SubSeq(s, 1, k)) = x \o y /\ x \in Seq(Record) /\ y \in Seq(Record)
    BY JoinedStep
  <1>2. Len(x \o y) = Len(x) + Len(y)
    BY <1>1, ConcatProperties
  <1> QED
    BY <1>1, <1>2 DEF Passed, Bytes

LEMMA PassedEnds ==
  ASSUME NEW s \in Seq(Segment)
  PROVE  Passed(s, 0) = 0 /\ Passed(s, Len(s)) = Len(Joined(s))
  <1>1. SubSeq(s, 1, 0) = <<>>
    BY SubSeqEmpty
  <1>2. SubSeq(s, 1, Len(s)) = s
    BY SubSeqFull
  <1>3. Len(Joined(<<>>)) = 0
    BY JoinedNone
  <1> QED
    BY <1>1, <1>2, <1>3 DEF Passed

\* A place in a log: o records into what is left after k segments.
LEMMA PlaceInLog ==
  ASSUME NEW s \in Seq(Segment), NEW k \in 0..Len(s), NEW o \in Nat
  PROVE  /\ Rest(Joined(Rest(s, k)), o) = Rest(Joined(s), Passed(s, k) + o)
         /\ Len(Joined(s)) = Passed(s, k) + Len(Joined(Rest(s, k)))
  <1> DEFINE a == Joined(SubSeq(s, 1, k))
             b == Joined(Rest(s, k))
  <1>1. a \in Seq(Record) /\ b \in Seq(Record)
    BY FirstSegments, SegmentsLeft
  <1>2. Joined(s) = a \o b
    BY JoinedSplit DEF Rest
  <1>3. Passed(s, k) = Len(a)
    BY DEF Passed
  <1> HIDE DEF a, b
  <1>4. Rest(a \o b, Len(a) + o) = Rest(b, o)
    BY <1>1, RestOfConcat
  <1>5. Len(a \o b) = Len(a) + Len(b)
    BY <1>1, ConcatProperties
  <1> QED
    BY <1>2, <1>3, <1>4, <1>5 DEF a, b

LEMMA PassedMonotone ==
  ASSUME NEW s \in Seq(Segment), NEW j \in 0..Len(s), NEW i \in 0..j
  PROVE  Passed(s, i) <= Passed(s, j)
  <1> DEFINE t == SubSeq(s, 1, j)
  <1>1. t \in Seq(Segment) /\ Len(t) = j /\ \A m \in 1..j : t[m] = s[m]
    BY FirstSegments
  <1>2. i \in 0..Len(t) /\ i \in 0..Len(s)
    BY <1>1
  <1>3. SubSeq(t, 1, i) = SubSeq(s, 1, i)
    <2> HIDE DEF t
    <2>1. /\ SubSeq(t, 1, i) \in Seq(Segment) /\ Len(SubSeq(t, 1, i)) = i
          /\ \A m \in 1..i : SubSeq(t, 1, i)[m] = t[m]
      BY <1>1, <1>2, FirstSegments
    <2>2. /\ SubSeq(s, 1, i) \in Seq(Segment) /\ Len(SubSeq(s, 1, i)) = i
          /\ \A m \in 1..i : SubSeq(s, 1, i)[m] = s[m]
      BY <1>2, FirstSegments
    <2>3. \A m \in 1..i : t[m] = s[m]
      BY <1>1
    <2>4. \A m \in 1..i : SubSeq(t, 1, i)[m] = SubSeq(s, 1, i)[m]
      BY <2>1, <2>2, <2>3
    <2> QED
      BY <2>1, <2>2, <2>4, SeqEqual
  <1>4. Passed(t, i) = Passed(s, i)
    BY <1>3 DEF Passed
  <1>5. Len(Joined(t)) = Passed(t, i) + Len(Joined(Rest(t, i)))
    <2> HIDE DEF t
    <2>1. 0 \in Nat
      OBVIOUS
    <2> QED
      BY <1>1, <1>2, <2>1, PlaceInLog
  <1>6. Len(Joined(Rest(t, i))) \in Nat /\ Passed(t, i) \in Nat
    <2> HIDE DEF t
    <2>1. Joined(Rest(t, i)) \in Seq(Record) /\ Passed(t, i) \in Nat
      BY <1>1, <1>2, SegmentsLeft, FirstSegments
    <2> QED
      BY <2>1
  <1>7. Passed(s, j) = Len(Joined(t))
    BY DEF Passed
  <1> QED
    BY <1>4, <1>5, <1>6, <1>7

-----------------------------------------------------------------------------
(* What holds of every class.                                              *)

Cursors == [seq : Nat, off : Nat]
ClassLog == [segs : Seq(Segment), cursor : Cursors, nextSeq : Nat, saved : Cursors]

\* The segments are in the order of their numbers, and all but the active one
\* are synced.
SoundSegs(segs, next) ==
    /\ segs \in Seq(Segment)
    /\ \A i, j \in 1..Len(segs) : i < j => segs[i].seq < segs[j].seq
    /\ \A i \in 1..Len(segs) : 1 <= segs[i].seq /\ segs[i].seq < next
    /\ \A i \in 1..Len(segs) : segs[i].synced <= Bytes(segs[i])
    /\ \A i \in 1..(Len(segs) - 1) : segs[i].synced = Bytes(segs[i])

\* The cursor is unset or in a segment that exists.
InSegment(segs, cursor) ==
    \E i \in 1..Len(segs) : segs[i].seq = cursor.seq /\ cursor.off <= Bytes(segs[i])

AtStart(cl) ==
    \/ cl.cursor = ZeroCursor
    \/ cl.segs # <<>> /\ cl.cursor.seq = cl.segs[1].seq /\ cl.cursor.off = 0

\* A cursor within the log is not ahead of its file.
Filed(cl) ==
    \/ AtStart(cl)
    \/ cl.saved.seq = cl.cursor.seq /\ cl.cursor.off <= cl.saved.off

SoundClass(cl) ==
    /\ cl \in ClassLog
    /\ SoundSegs(cl.segs, cl.nextSeq) /\ 1 <= cl.nextSeq
    /\ cl.cursor = ZeroCursor \/ InSegment(cl.segs, cl.cursor)
    /\ Filed(cl)

LEMMA LeastOfOne ==
  ASSUME NEW i \in Nat
  PROVE  Min({i}) = i
  BY DEF Min

LEMMA LeastIsIn ==
  ASSUME NEW T, T \subseteq Nat, T # {}
  PROVE  Min(T) \in T /\ \A y \in T : Min(T) <= y
  <1>1. PICK n : n \in T
    OBVIOUS
  <1>2. \E x \in T : \A y \in T : x <= y
    BY <1>1, LeastNumber
  <1> QED
    BY <1>2 DEF Min

LEMMA GreatestIsIn ==
  ASSUME NEW N \in Nat, NEW T, T \subseteq 0..N, T # {}
  PROVE  Max(T) \in T /\ \A y \in T : Max(T) >= y
  <1> DEFINE U == {N - y : y \in T}
  <1>1. U \subseteq Nat /\ U # {}
    <2>1. \A y \in T : N - y \in Nat
      OBVIOUS
    <2>2. PICK y \in T : TRUE
      OBVIOUS
    <2>3. N - y \in U
      OBVIOUS
    <2> QED
      BY <2>1, <2>3
  <1>2. Min(U) \in U /\ \A y \in U : Min(U) <= y
    BY <1>1, LeastIsIn
  <1>3. PICK x \in T : Min(U) = N - x
    BY <1>2
  <1>4. ASSUME NEW y \in T PROVE x >= y
    <2>1. N - y \in U
      OBVIOUS
    <2>2. N - x <= N - y
      BY <1>2, <1>3, <2>1
    <2>3. x \in Nat /\ y \in Nat
      OBVIOUS
    <2> QED
      BY <2>2, <2>3
  <1> QED
    BY <1>4 DEF Max

\* Where the walk of a class starts.
LEMMA StartInSegment ==
  ASSUME NEW cl, cl \in ClassLog, SoundSegs(cl.segs, cl.nextSeq),
         NEW i \in 1..Len(cl.segs), cl.segs[i].seq = cl.cursor.seq
  PROVE  StartIdx(cl) = i /\ StartOff(cl) = cl.cursor.off
  <1>0. cl.segs \in Seq(Segment)
    BY DEF SoundSegs
  <1>1. DOMAIN cl.segs = 1..Len(cl.segs)
    BY <1>0
  <1>2. \A j \in 1..Len(cl.segs) : cl.segs[j].seq \in Nat
    <2>1. \A j \in 1..Len(cl.segs) : cl.segs[j] \in Segment
      BY <1>0
    <2> QED
      BY <2>1 DEF Segment
  <1> DEFINE at == {j \in DOMAIN cl.segs : cl.segs[j].seq = cl.cursor.seq}
  <1>3. at = {i}
    <2>1. ASSUME NEW j \in at PROVE j = i
      <3>1. j \in 1..Len(cl.segs) /\ cl.segs[j].seq = cl.segs[i].seq
        BY <1>1
      <3>2. ~(j < i) /\ ~(i < j)
        BY <1>2, <3>1 DEF SoundSegs
      <3> QED
        BY <1>0, <3>1, <3>2
    <2>2. i \in at
      BY <1>1
    <2> HIDE DEF at
    <2> QED
      BY <2>1, <2>2
  <1>4. StartIdx(cl) = Min({i})
    BY <1>3 DEF StartIdx
  <1>5. i \in Nat
    BY <1>0
  <1>6. StartOff(cl) = cl.cursor.off
    BY <1>1 DEF StartOff
  <1> QED
    BY <1>4, <1>5, <1>6, LeastOfOne

LEMMA StartUnset ==
  ASSUME NEW cl, cl \in ClassLog, SoundSegs(cl.segs, cl.nextSeq), cl.cursor = ZeroCursor
  PROVE  StartIdx(cl) = 1 /\ StartOff(cl) = 0
  <1>0. cl.segs \in Seq(Segment)
    BY DEF SoundSegs
  <1>1. DOMAIN cl.segs = 1..Len(cl.segs)
    BY <1>0
  <1>2. \A j \in 1..Len(cl.segs) : 1 <= cl.segs[j].seq
    BY DEF SoundSegs
  <1>3. cl.cursor.seq = 0
    BY DEF ZeroCursor
  <1>4. \A j \in DOMAIN cl.segs : cl.segs[j].seq # cl.cursor.seq
    BY <1>1, <1>2, <1>3
  <1> QED
    BY <1>4 DEF StartIdx, StartOff

\* The walk of a class starts at a place of its log.
Starts(cl, k, o) ==
    /\ k \in 0..Len(cl.segs) /\ o \in Nat
    /\ StartIdx(cl) = k + 1 /\ StartOff(cl) = o
    /\ \/ cl.cursor = ZeroCursor /\ k = 0 /\ o = 0
       \/ /\ k < Len(cl.segs) /\ cl.cursor.seq = cl.segs[k + 1].seq
          /\ cl.cursor.off = o /\ o <= Bytes(cl.segs[k + 1])

LEMMA WalkStarts ==
  ASSUME NEW cl, cl \in ClassLog, SoundSegs(cl.segs, cl.nextSeq),
         cl.cursor = ZeroCursor \/ InSegment(cl.segs, cl.cursor)
  PROVE  \E k \in 0..Len(cl.segs), o \in Nat : Starts(cl, k, o)
  <1>0. cl.segs \in Seq(Segment) /\ Len(cl.segs) \in Nat
    BY DEF SoundSegs
  <1>1. CASE cl.cursor = ZeroCursor
    <2>1. StartIdx(cl) = 1 /\ StartOff(cl) = 0
      BY <1>1, StartUnset
    <2>2. Starts(cl, 0, 0)
      BY <1>0, <1>1, <2>1 DEF Starts
    <2> QED
      BY <1>0, <2>2
  <1>2. CASE InSegment(cl.segs, cl.cursor)
    <2>1. PICK i \in 1..Len(cl.segs) : cl.segs[i].seq = cl.cursor.seq
                                       /\ cl.cursor.off <= Bytes(cl.segs[i])
      BY <1>2 DEF InSegment
    <2>2. StartIdx(cl) = i /\ StartOff(cl) = cl.cursor.off
      BY <2>1, StartInSegment
    <2>3. cl.cursor.off \in Nat
      BY DEF ClassLog, Cursors
    <2>4. i - 1 \in 0..Len(cl.segs) /\ (i - 1) + 1 = i /\ i - 1 < Len(cl.segs)
      BY <1>0
    <2>5. Starts(cl, i - 1, cl.cursor.off)
      BY <2>1, <2>2, <2>3, <2>4 DEF Starts
    <2> QED
      BY <2>3, <2>4, <2>5
  <1> QED
    BY <1>1, <1>2

LEMMA WalkIsRest ==
  ASSUME NEW cl, cl \in ClassLog, NEW k, NEW o, Starts(cl, k, o)
  PROVE  /\ Walk(cl) = Rest(Joined(Rest(cl.segs, k)), o)
         /\ Walk(cl) = Rest(Joined(cl.segs), Passed(cl.segs, k) + o)
         /\ Passed(cl.segs, k) + o \in Nat
         /\ Passed(cl.segs, k) + o <= Len(Joined(cl.segs))
         /\ o <= Len(Joined(Rest(cl.segs, k)))
         /\ Walk(cl) \in Seq(Record)
         /\ Len(Walk(cl)) = Len(Joined(cl.segs)) - (Passed(cl.segs, k) + o)
  <1> DEFINE segs == cl.segs
  <1>0. /\ segs \in Seq(Segment) /\ k \in 0..Len(segs) /\ o \in Nat /\ k \in Nat
        /\ Len(segs) \in Nat
    BY DEF ClassLog, Starts
  <1>1. Walk(cl) = Rest(Joined(Rest(segs, k)), o)
    BY DEF Walk, Starts, Rest
  <1> HIDE DEF segs
  <1>2. /\ Rest(Joined(Rest(segs, k)), o) = Rest(Joined(segs), Passed(segs, k) + o)
        /\ Len(Joined(segs)) = Passed(segs, k) + Len(Joined(Rest(segs, k)))
    BY <1>0, PlaceInLog
  <1>3. /\ Passed(segs, k) \in Nat /\ Joined(Rest(segs, k)) \in Seq(Record)
        /\ Joined(segs) \in Seq(Record)
    BY <1>0, FirstSegments, SegmentsLeft, JoinedType
  <1>4. Len(Joined(Rest(segs, k))) \in Nat /\ Len(Joined(segs)) \in Nat
    BY <1>3
  <1>5. o <= Len(Joined(Rest(segs, k)))
    <2>1. CASE o = 0
      BY <1>4, <2>1
    <2>2. CASE k < Len(segs) /\ o <= Bytes(segs[k + 1])
      <3>1. k + 1 \in 1..Len(segs) /\ (k + 1) - 1 = k /\ k + 1 \in 0..Len(segs)
            /\ Len(segs) \in 0..Len(segs)
        BY <1>0, <2>2
      <3>2. Passed(segs, k + 1) = Passed(segs, k) + Bytes(segs[k + 1])
        <4>1. Passed(segs, k + 1) = Passed(segs, (k + 1) - 1) + Bytes(segs[k + 1])
          BY <1>0, <3>1, PassedStep
        <4> QED
          BY <3>1, <4>1
      <3>3. Passed(segs, k + 1) <= Passed(segs, Len(segs))
        <4>1. k + 1 \in 0..Len(segs)
          BY <3>1
        <4> QED
          BY <1>0, <3>1, <4>1, PassedMonotone
      <3>4. Passed(segs, Len(segs)) = Len(Joined(segs))
        BY <1>0, PassedEnds
      <3>5. Bytes(segs[k + 1]) \in Nat
        <4>1. segs[k + 1] \in Segment
          BY <1>0, <3>1
        <4> QED
          BY <4>1 DEF Bytes, Segment
      <3> QED
        BY <1>0, <1>2, <1>3, <1>4, <2>2, <3>2, <3>3, <3>4, <3>5
    <2>3. o = 0 \/ (k < Len(segs) /\ o <= Bytes(segs[k + 1]))
      BY DEF Starts, segs
    <2> QED
      BY <2>1, <2>2, <2>3
  <1>6. Passed(segs, k) + o \in Nat /\ Passed(segs, k) + o <= Len(Joined(segs))
    BY <1>0, <1>2, <1>3, <1>4, <1>5
  <1> DEFINE p == Passed(segs, k) + o
  <1>7. /\ Rest(Joined(segs), p) \in Seq(Record)
        /\ Len(Rest(Joined(segs), p)) = Len(Joined(segs)) - p
    <2>1. p \in Nat /\ p <= Len(Joined(segs))
      BY <1>6
    <2> HIDE DEF p
    <2>2. /\ Rest(Joined(segs), p) \in Seq(Record)
          /\ Len(Rest(Joined(segs), p)) = IF p <= Len(Joined(segs)) THEN Len(Joined(segs)) - p ELSE 0
      BY <1>3, <2>1, RestProperties
    <2> QED
      BY <2>1, <2>2
  <1> QED
    BY <1>1, <1>2, <1>5, <1>6, <1>7 DEF segs

LEMMA WalkWhere ==
  ASSUME NEW cl \in ClassLog, NEW k, NEW o, Starts(cl, k, o)
  PROVE  Walk(cl) = Rest(Joined(Rest(cl.segs, k)), o)
  BY WalkIsRest

LEMMA WalkOfSound ==
  ASSUME NEW cl, SoundClass(cl)
  PROVE  Walk(cl) \in Seq(Record)
  <1>1. \E k \in 0..Len(cl.segs), o \in Nat : Starts(cl, k, o)
    BY WalkStarts DEF SoundClass
  <1> QED
    BY <1>1, WalkIsRest DEF SoundClass

-----------------------------------------------------------------------------
(* The operations on one class keep it sound, and cut its walk at the head  *)
(* or extend it at the tail.                                                *)

LEMMA SoundRest ==
  ASSUME NEW segs, NEW next, SoundSegs(segs, next), NEW k \in 0..Len(segs)
  PROVE  SoundSegs(Rest(segs, k), next)
  <1>0. segs \in Seq(Segment) /\ Len(segs) \in Nat /\ k \in Nat
    BY DEF SoundSegs
  <1> DEFINE t == Rest(segs, k)
  <1>1. t \in Seq(Segment) /\ Len(t) = Len(segs) - k
        /\ \A i \in 1..(Len(segs) - k) : t[i] = segs[k + i]
    BY <1>0, SegmentsLeft
  <1> HIDE DEF t
  <1>2. \A i \in 1..Len(t) : k + i \in 1..Len(segs) /\ t[i] = segs[k + i]
    BY <1>0, <1>1
  <1>3. ASSUME NEW i \in 1..Len(t), NEW j \in 1..Len(t), i < j
        PROVE  t[i].seq < t[j].seq
    <2>1. k + i \in 1..Len(segs) /\ k + j \in 1..Len(segs) /\ k + i < k + j
      BY <1>0, <1>1, <1>2, <1>3
    <2>2. segs[k + i].seq < segs[k + j].seq
      BY <2>1 DEF SoundSegs
    <2> QED
      BY <1>2, <2>2
  <1>4. ASSUME NEW i \in 1..(Len(t) - 1) PROVE t[i].synced = Bytes(t[i])
    <2>1. k + i \in 1..(Len(segs) - 1) /\ i \in 1..Len(t)
      BY <1>0, <1>1
    <2>2. segs[k + i].synced = Bytes(segs[k + i])
      BY <2>1 DEF SoundSegs
    <2> QED
      BY <1>2, <2>1, <2>2
  <1>5. \A i \in 1..Len(t) : 1 <= t[i].seq /\ t[i].seq < next
    BY <1>2 DEF SoundSegs
  <1>6. \A i \in 1..Len(t) : t[i].synced <= Bytes(t[i])
    BY <1>2 DEF SoundSegs
  <1>7. SoundSegs(t, next)
    BY <1>1, <1>3, <1>4, <1>5, <1>6 DEF SoundSegs
  <1> QED
    BY <1>7 DEF t

\* The segments from a number on.
LEMMA FromIsRest ==
  ASSUME NEW segs, NEW next, SoundSegs(segs, next), NEW x \in Nat
  PROVE  \E k \in 0..Len(segs) :
            /\ From(segs, x) = Rest(segs, k)
            /\ \A i \in 1..Len(segs) : i > k <=> segs[i].seq >= x
  <1>0. /\ segs \in Seq(Segment) /\ Len(segs) \in Nat /\ DOMAIN segs = 1..Len(segs)
        /\ \A i \in 1..Len(segs) : segs[i].seq \in Nat
    <2>1. segs \in Seq(Segment)
      BY DEF SoundSegs
    <2>2. \A i \in 1..Len(segs) : segs[i] \in Segment
      BY <2>1
    <2> QED
      BY <2>1, <2>2 DEF Segment
  <1> DEFINE kept == {i \in DOMAIN segs : segs[i].seq >= x}
  <1>1. CASE kept = {}
    <2>1. From(segs, x) = <<>>
      BY <1>1 DEF From
    <2>2. Rest(segs, Len(segs)) = <<>>
      BY <1>0, RestOfAll
    <2>3. \A i \in 1..Len(segs) : i > Len(segs) <=> segs[i].seq >= x
      BY <1>0, <1>1
    <2>4. Len(segs) \in 0..Len(segs)
      BY <1>0
    <2> QED
      BY <2>1, <2>2, <2>3, <2>4
  <1>2. CASE kept # {}
    <2>1. kept \subseteq Nat /\ \A i \in kept : i \in 1..Len(segs)
      BY <1>0
    <2>2. Min(kept) \in kept /\ \A y \in kept : Min(kept) <= y
      <3> HIDE DEF kept
      <3> QED
        BY <1>2, <2>1, LeastIsIn
    <2> DEFINE m == Min(kept)
    <2>3. From(segs, x) = SubSeq(segs, m, Len(segs))
      BY <1>2 DEF From
    <2>4. m \in 1..Len(segs) /\ segs[m].seq >= x
      BY <2>1, <2>2
    <2>5. \A i \in 1..Len(segs) : segs[i].seq >= x => m <= i
      <3>1. \A i \in 1..Len(segs) : segs[i].seq >= x => i \in kept
        BY <1>0
      <3> QED
        BY <2>2, <3>1
    <2> HIDE DEF m, kept
    <2>6. m - 1 \in 0..Len(segs) /\ (m - 1) + 1 = m
      BY <1>0, <2>4
    <2>7. From(segs, x) = Rest(segs, m - 1)
      BY <2>3, <2>6 DEF Rest
    <2>8. ASSUME NEW i \in 1..Len(segs) PROVE i > m - 1 <=> segs[i].seq >= x
      <3>1. m < i => segs[m].seq < segs[i].seq
        BY <2>4 DEF SoundSegs
      <3>2. segs[i].seq \in Nat /\ segs[m].seq \in Nat /\ i \in Nat /\ m \in Nat
        BY <1>0, <2>4
      <3> QED
        BY <2>4, <2>5, <3>1, <3>2
    <2> QED
      BY <2>6, <2>7, <2>8
  <1> QED
    BY <1>1, <1>2

LEMMA SyncedSegs ==
  ASSUME NEW cl, cl \in ClassLog
  PROVE  LET t == Synced(cl).segs
         IN  /\ t \in Seq(Segment) /\ Len(t) = Len(cl.segs)
             /\ \A i \in 1..Len(cl.segs) :
                   /\ t[i].seq = cl.segs[i].seq /\ t[i].recs = cl.segs[i].recs
                   /\ t[i].synced = Bytes(cl.segs[i])
             /\ Synced(cl) = [cl EXCEPT !.segs = t]
             /\ Joined(t) = Joined(cl.segs)
  <1> DEFINE t == [i \in DOMAIN cl.segs |-> [cl.segs[i] EXCEPT !.synced = Bytes(cl.segs[i])]]
             n == Len(cl.segs)
  <1>1. /\ cl.segs \in Seq(Segment) /\ n \in Nat /\ DOMAIN cl.segs = 1..n
        /\ \A i \in 1..n : cl.segs[i] \in Segment /\ Bytes(cl.segs[i]) \in Nat
    <2>1. cl.segs \in Seq(Segment)
      BY DEF ClassLog
    <2>2. \A i \in 1..n : cl.segs[i] \in Segment
      BY <2>1
    <2>3. \A i \in 1..n : Bytes(cl.segs[i]) \in Nat
      BY <2>2 DEF Bytes, Segment
    <2> QED
      BY <2>1, <2>2, <2>3
  <1>2. t \in [1..n -> Segment]
    <2>1. \A i \in 1..n : [cl.segs[i] EXCEPT !.synced = Bytes(cl.segs[i])] \in Segment
      BY <1>1 DEF Segment
    <2> QED
      BY <1>1, <2>1
  <1>3. \A i \in 1..n : /\ t[i].seq = cl.segs[i].seq /\ t[i].recs = cl.segs[i].recs
                        /\ t[i].synced = Bytes(cl.segs[i])
    BY <1>1 DEF Segment
  <1>4. Synced(cl) = [cl EXCEPT !.segs = t]
    BY DEF Synced
  <1> HIDE DEF t
  <1>5. Synced(cl).segs = t
    BY <1>4 DEF ClassLog
  <1>6. t \in Seq(Segment) /\ Len(t) = n
    <2> HIDE DEF n
    <2> QED
      BY <1>1, <1>2, FunctionIsSeq
  <1>7. Joined(t) = Joined(cl.segs)
    BY <1>1, <1>3, <1>6, JoinedAlike
  <1> QED
    BY <1>3, <1>4, <1>5, <1>6, <1>7

LEMMA StartsIn ==
  ASSUME NEW cl, cl \in ClassLog, SoundSegs(cl.segs, cl.nextSeq),
         NEW k \in 0..(Len(cl.segs) - 1), cl.segs[k + 1].seq = cl.cursor.seq,
         cl.cursor.off <= Bytes(cl.segs[k + 1])
  PROVE  Starts(cl, k, cl.cursor.off)
  <1>0. cl.segs \in Seq(Segment) /\ Len(cl.segs) \in Nat
    BY DEF SoundSegs
  <1>1. k + 1 \in 1..Len(cl.segs) /\ k \in 0..Len(cl.segs) /\ k < Len(cl.segs)
    BY <1>0
  <1>2. StartIdx(cl) = k + 1 /\ StartOff(cl) = cl.cursor.off
    BY <1>1, StartInSegment
  <1>3. cl.cursor.off \in Nat
    BY DEF ClassLog, Cursors
  <1> QED
    BY <1>1, <1>2, <1>3 DEF Starts

LEMMA StartsUnset ==
  ASSUME NEW cl, cl \in ClassLog, SoundSegs(cl.segs, cl.nextSeq), cl.cursor = ZeroCursor
  PROVE  Starts(cl, 0, 0)
  <1>0. Len(cl.segs) \in Nat
    BY DEF SoundSegs
  <1>1. StartIdx(cl) = 1 /\ StartOff(cl) = 0
    BY StartUnset
  <1> QED
    BY <1>0, <1>1 DEF Starts

LEMMA RestAlike ==
  ASSUME NEW s \in Seq(Segment), NEW t \in Seq(Segment), Len(t) = Len(s),
         \A i \in 1..Len(s) : t[i].recs = s[i].recs, NEW k \in 0..Len(s)
  PROVE  Joined(Rest(t, k)) = Joined(Rest(s, k))
  <1> DEFINE a == Rest(s, k)
             b == Rest(t, k)
  <1>1. a \in Seq(Segment) /\ Len(a) = Len(s) - k /\ \A i \in 1..(Len(s) - k) : a[i] = s[k + i]
    BY SegmentsLeft
  <1>2. k \in 0..Len(t)
    OBVIOUS
  <1>3. b \in Seq(Segment) /\ Len(b) = Len(t) - k /\ \A i \in 1..(Len(t) - k) : b[i] = t[k + i]
    BY <1>2, SegmentsLeft
  <1> HIDE DEF a, b
  <1>4. \A i \in 1..Len(b) : b[i].recs = a[i].recs
    <2> TAKE i \in 1..Len(b)
    <2>1. i \in 1..(Len(s) - k) /\ k + i \in 1..Len(s)
      BY <1>3
    <2>2. a[i] = s[k + i] /\ b[i] = t[k + i]
      BY <1>1, <1>3, <2>1
    <2> QED
      BY <2>1, <2>2
  <1>5. Joined(b) = Joined(a)
    BY <1>1, <1>3, <1>4, JoinedAlike
  <1> QED
    BY <1>5 DEF a, b

\* What the walk reads: the numbers and records of the segments, the cursor.
LEMMA SameWalk ==
  ASSUME NEW cl, NEW other, cl \in ClassLog, other \in ClassLog,
         SoundSegs(cl.segs, cl.nextSeq), SoundSegs(other.segs, other.nextSeq),
         cl.cursor = ZeroCursor \/ InSegment(cl.segs, cl.cursor),
         other.cursor = cl.cursor, Len(other.segs) = Len(cl.segs),
         \A i \in 1..Len(cl.segs) : /\ other.segs[i].seq = cl.segs[i].seq
                                    /\ other.segs[i].recs = cl.segs[i].recs
  PROVE  Walk(other) = Walk(cl)
  <1>0. cl.segs \in Seq(Segment) /\ other.segs \in Seq(Segment) /\ Len(cl.segs) \in Nat
    BY DEF SoundSegs
  <1>1. PICK k \in 0..Len(cl.segs), o \in Nat : Starts(cl, k, o)
    BY WalkStarts
  <1>2. Starts(other, k, o)
    <2>1. CASE cl.cursor = ZeroCursor /\ k = 0 /\ o = 0
      BY <2>1, StartsUnset
    <2>2. CASE /\ k < Len(cl.segs) /\ cl.cursor.seq = cl.segs[k + 1].seq
               /\ cl.cursor.off = o /\ o <= Bytes(cl.segs[k + 1])
      <3>1. k \in 0..(Len(other.segs) - 1) /\ k + 1 \in 1..Len(cl.segs)
        BY <1>0, <1>1, <2>2
      <3>2. other.segs[k + 1].seq = other.cursor.seq
            /\ other.cursor.off <= Bytes(other.segs[k + 1]) /\ other.cursor.off = o
        BY <2>2, <3>1 DEF Bytes
      <3> QED
        BY <3>1, <3>2, StartsIn
    <2> QED
      BY <1>1, <2>1, <2>2 DEF Starts
  <1>3. Joined(Rest(other.segs, k)) = Joined(Rest(cl.segs, k))
    BY <1>0, RestAlike
  <1>4. Walk(cl) = Rest(Joined(Rest(cl.segs, k)), o)
    BY <1>1, WalkIsRest
  <1>5. Walk(other) = Rest(Joined(Rest(other.segs, k)), o)
    BY <1>2, WalkIsRest
  <1> QED
    BY <1>3, <1>4, <1>5

LEMMA SyncedSound ==
  ASSUME NEW cl, SoundClass(cl)
  PROVE  SoundClass(Synced(cl)) /\ Walk(Synced(cl)) = Walk(cl)
         /\ \A i \in 1..Len(cl.segs) : Synced(cl).segs[i].synced = Bytes(Synced(cl).segs[i])
  <1> DEFINE new == Synced(cl)
             t == new.segs
  <1>1. cl \in ClassLog /\ SoundSegs(cl.segs, cl.nextSeq) /\ Len(cl.segs) \in Nat
    BY DEF SoundClass, SoundSegs
  <1>2. /\ t \in Seq(Segment) /\ Len(t) = Len(cl.segs)
        /\ \A i \in 1..Len(cl.segs) :
              /\ t[i].seq = cl.segs[i].seq /\ t[i].recs = cl.segs[i].recs
              /\ t[i].synced = Bytes(cl.segs[i])
        /\ new = [cl EXCEPT !.segs = t]
    BY <1>1, SyncedSegs
  <1>3. \A i \in 1..Len(cl.segs) : Bytes(t[i]) = Bytes(cl.segs[i])
    BY <1>2 DEF Bytes
  <1> HIDE DEF t
  <1>4. /\ new.segs = t /\ new.cursor = cl.cursor /\ new.saved = cl.saved
        /\ new.nextSeq = cl.nextSeq /\ new \in ClassLog
    BY <1>1, <1>2 DEF ClassLog
  <1> HIDE DEF new
  <1>5. SoundSegs(t, cl.nextSeq)
    <2>1. \A i \in 1..Len(t) : t[i].synced = Bytes(t[i]) /\ Bytes(t[i]) \in Nat
      <3> TAKE i \in 1..Len(t)
      <3>1. t[i] \in Segment
        BY <1>2
      <3> QED
        BY <1>2, <1>3, <3>1 DEF Segment, Bytes
    <2>2. \A i \in 1..Len(t) : t[i].synced <= Bytes(t[i])
      BY <2>1
    <2>3. \A i, j \in 1..Len(t) : i < j => t[i].seq < t[j].seq
      BY <1>1, <1>2 DEF SoundSegs
    <2>4. \A i \in 1..Len(t) : 1 <= t[i].seq /\ t[i].seq < cl.nextSeq
      BY <1>1, <1>2 DEF SoundSegs
    <2>5. \A i \in 1..(Len(t) - 1) : t[i].synced = Bytes(t[i])
      BY <1>1, <1>2, <2>1
    <2> QED
      BY <1>2, <2>2, <2>3, <2>4, <2>5 DEF SoundSegs
  <1>6. InSegment(cl.segs, cl.cursor) => InSegment(t, cl.cursor)
    BY <1>2, <1>3 DEF InSegment
  <1>7. Filed(cl) => Filed(new)
    <2>1. cl.segs # <<>> => t # <<>> /\ 1 \in 1..Len(cl.segs)
      BY <1>1, <1>2 DEF SoundSegs
    <2>2. AtStart(cl) => AtStart(new)
      BY <1>2, <1>4, <2>1 DEF AtStart
    <2> QED
      BY <1>4, <2>2 DEF Filed
  <1>8. SoundClass(new)
    BY <1>4, <1>5, <1>6, <1>7 DEF SoundClass
  <1>9. Walk(new) = Walk(cl)
    <2>1. cl.cursor = ZeroCursor \/ InSegment(cl.segs, cl.cursor)
      BY DEF SoundClass
    <2> QED
      BY <1>1, <1>2, <1>4, <1>5, <2>1, SameWalk
  <1>10. \A i \in 1..Len(cl.segs) : t[i].synced = Bytes(t[i])
    BY <1>2, <1>3
  <1> QED
    BY <1>4, <1>8, <1>9, <1>10 DEF new

LEMMA EvictOldestSound ==
  ASSUME NEW cl, SoundClass(cl), cl.segs # <<>>
  PROVE  SoundClass(EvictOldest(cl)) /\ IsRest(Walk(EvictOldest(cl)), Walk(cl))
  <1> DEFINE new == EvictOldest(cl)
             segs == cl.segs
             t == Tail(segs)
             J == Joined(Rest(segs, 1))
  <1>1. /\ cl \in ClassLog /\ SoundSegs(segs, cl.nextSeq) /\ segs \in Seq(Segment)
        /\ Len(segs) \in Nat \ {0}
    BY DEF SoundClass, SoundSegs
  <1>2. t = Rest(segs, 1) /\ Head(segs) = segs[1]
    <2>1. t = SubSeq(segs, 2, Len(segs))
      BY <1>1, TailIsSubSeq
    <2>2. 1 + 1 = 2
      OBVIOUS
    <2> QED
      BY <1>1, <2>1, <2>2 DEF Rest
  <1>3. 1 \in 0..Len(segs) /\ 1 \in 1..Len(segs)
    BY <1>1
  <1>4. SoundSegs(t, cl.nextSeq)
    BY <1>1, <1>2, <1>3, SoundRest
  <1>5. t \in Seq(Segment) /\ Len(t) = Len(segs) - 1
        /\ \A i \in 1..(Len(segs) - 1) : t[i] = segs[1 + i]
    <2> HIDE DEF segs, t
    <2> QED
      BY <1>1, <1>2, <1>3, SegmentsLeft
  <1>6. \A i \in 1..Len(segs) : segs[i] \in Segment
    BY <1>1
  <1> DEFINE cur == IF cl.cursor.seq # segs[1].seq THEN cl.cursor
                    ELSE IF Len(segs) > 1 THEN [seq |-> segs[2].seq, off |-> 0]
                    ELSE ZeroCursor
  <1>7. new = [cl EXCEPT !.segs = t, !.cursor = cur]
    BY <1>2 DEF EvictOldest
  <1>8. cur \in Cursors
    <2>1. Len(segs) > 1 => segs[2].seq \in Nat
      <3>1. Len(segs) > 1 => 2 \in 1..Len(segs)
        BY <1>1
      <3> QED
        BY <1>6, <3>1 DEF Segment
    <2>2. cl.cursor \in Cursors /\ ZeroCursor \in Cursors
      BY <1>1 DEF ClassLog, Cursors, ZeroCursor
    <2> QED
      BY <2>1, <2>2 DEF Cursors
  <1> HIDE DEF t, cur
  <1>9. /\ new.segs = t /\ new.cursor = cur /\ new.saved = cl.saved
        /\ new.nextSeq = cl.nextSeq /\ new \in ClassLog
    BY <1>1, <1>5, <1>7, <1>8 DEF ClassLog
  <1> HIDE DEF new
  <1>10. Joined(segs) = segs[1].recs \o J /\ J \in Seq(Record) /\ segs[1].recs \in Seq(Record)
    <2>1. Joined(segs) = Joined(SubSeq(segs, 1, 1)) \o J
      <3> HIDE DEF segs
      <3> QED
        BY <1>1, <1>3, JoinedSplit DEF Rest
    <2>2. SubSeq(segs, 1, 1) = Append(<<>>, segs[1]) /\ <<>> \in Seq(Segment)
      <3> DEFINE f == SubSeq(segs, 1, 1)
                 e == Append(<<>>, segs[1])
      <3>1. f \in Seq(Segment) /\ Len(f) = 1 /\ \A i \in 1..1 : f[i] = segs[i]
        <4> HIDE DEF segs
        <4> QED
          BY <1>1, <1>3, FirstSegments
      <3>2. <<>> \in Seq(Segment) /\ segs[1] \in Segment
        BY <1>3, <1>6
      <3>3. e \in Seq(Segment) /\ Len(e) = 1 /\ e[1] = segs[1]
        <4> HIDE DEF segs
        <4> QED
          BY <3>2
      <3> HIDE DEF f, e
      <3>4. \A i \in 1..Len(f) : f[i] = e[i]
        BY <3>1, <3>3
      <3>5. f = e
        BY <3>1, <3>3, <3>4, SeqEqual
      <3> QED
        BY <3>2, <3>5 DEF f, e
    <2>3. Joined(SubSeq(segs, 1, 1)) = Joined(<<>>) \o segs[1].recs
      BY <1>3, <1>6, <2>2, JoinedAppend
    <2>4. segs[1].recs \in Seq(Record)
      BY <1>3, <1>6 DEF Segment
    <2>5. <<>> \o segs[1].recs = segs[1].recs
      BY <2>4, ConcatEmptySeq
    <2>6. J \in Seq(Record)
      <3> HIDE DEF segs
      <3> QED
        BY <1>1, <1>3, SegmentsLeft
    <2> HIDE DEF segs, J
    <2> QED
      BY <2>1, <2>3, <2>4, <2>5, <2>6, JoinedNone
  <1>11. PICK k \in 0..Len(segs), o \in Nat : Starts(cl, k, o)
    BY WalkStarts DEF SoundClass
  <1>12. Walk(cl) = Rest(Joined(Rest(segs, k)), o) /\ Walk(cl) \in Seq(Record)
    BY <1>1, <1>11, WalkIsRest
  <1>13. Rest(segs, 0) = segs /\ Rest(t, 0) = t
    BY <1>1, <1>5, RestOfAll
  <1>14. segs[1].seq \in Nat /\ 1 <= segs[1].seq
    BY <1>1, <1>3, <1>6 DEF Segment, SoundSegs
  \* the cursor was never set, or in the segment that goes
  <1>15. ASSUME k = 0, Starts(new, 0, 0), o <= Len(segs[1].recs)
         PROVE  IsRest(Walk(new), Walk(cl))
    <2>1. Walk(new) = Rest(Joined(Rest(t, 0)), 0)
      BY <1>9, <1>15, WalkIsRest
    <2>2. Walk(new) = J
      BY <1>2, <1>10, <1>13, <2>1, RestOfAll
    <2>3. Walk(cl) = Rest(segs[1].recs \o J, o)
      BY <1>10, <1>12, <1>13, <1>15
    <2> DEFINE a == segs[1].recs
    <2>4. a \in Seq(Record) /\ J \in Seq(Record) /\ a \o J \in Seq(Record)
          /\ Len(a) \in Nat /\ o <= Len(a)
      BY <1>10, <1>15, ConcatProperties
    <2> HIDE DEF a, J
    <2>5. Rest(Rest(a \o J, o), Len(a) - o) = Rest(a \o J, o + (Len(a) - o))
      <3>1. Len(a) - o \in Nat
        BY <2>4
      <3> QED
        BY <2>4, <3>1, RestOfRest
    <2>6. o + (Len(a) - o) = Len(a) + 0 /\ Len(a) - o \in Nat
      BY <2>4
    <2>7. Rest(a \o J, Len(a) + 0) = Rest(J, 0)
      <3>1. a \in Seq(Record) /\ J \in Seq(Record) /\ 0 \in Nat
        BY <2>4
      <3> QED
        BY <3>1, RestOfConcat, Zenon
    <2>8. Rest(J, 0) = J
      BY <2>4, RestOfAll
    <2>9. J = Rest(Walk(cl), Len(a) - o)
      BY <2>3, <2>5, <2>6, <2>7, <2>8 DEF a
    <2> QED
      BY <2>2, <2>6, <2>9 DEF IsRest
  <1>16. Filed(cl)
    BY DEF SoundClass
  <1>17. CASE cl.cursor = ZeroCursor
    <2>1. k = 0 /\ o = 0
      BY <1>1, <1>3, <1>6, <1>11, <1>17 DEF Starts, ZeroCursor, SoundSegs
    <2>2. cur = ZeroCursor
      BY <1>14, <1>17 DEF cur, ZeroCursor
    <2>3. Starts(new, 0, 0)
      BY <1>4, <1>9, <2>2, StartsUnset
    <2>4. Len(segs[1].recs) \in Nat
      BY <1>10
    <2>5. SoundClass(new)
      BY <1>4, <1>9, <2>2 DEF SoundClass, Filed, AtStart
    <2> QED
      BY <1>15, <2>1, <2>3, <2>4, <2>5 DEF new
  <1>18. CASE cl.cursor # ZeroCursor /\ k = 0
    <2>1. cl.cursor.seq = segs[1].seq /\ o <= Bytes(segs[1])
      BY <1>11, <1>18 DEF Starts
    <2>2. CASE Len(segs) > 1
      <3>1. cur = [seq |-> segs[2].seq, off |-> 0]
        BY <2>1, <2>2 DEF cur
      <3>2. 1 \in 1..(Len(segs) - 1) /\ 1 + 1 = 2 /\ 0 + 1 = 1 /\ 0 \in 0..(Len(t) - 1)
            /\ 1 \in 1..Len(t)
        BY <1>1, <1>5, <2>2
      <3>3. t[1] = segs[2] /\ t # <<>>
        BY <1>5, <3>2
      <3>4. Bytes(t[1]) \in Nat
        <4>1. t[1] \in Segment
          BY <1>5, <3>2
        <4> QED
          BY <4>1 DEF Bytes, Segment
      <3>5. new.cursor.seq = t[1].seq /\ new.cursor.off = 0 /\ 0 <= Bytes(t[1])
        BY <1>9, <3>1, <3>3, <3>4
      <3>6. Starts(new, 0, new.cursor.off)
        BY <1>4, <1>9, <3>2, <3>5, StartsIn
      <3>7. InSegment(new.segs, new.cursor)
        BY <1>9, <3>2, <3>5 DEF InSegment
      <3>8. SoundClass(new)
        BY <1>1, <1>4, <1>9, <3>3, <3>5, <3>7 DEF SoundClass, Filed, AtStart
      <3> QED
        BY <1>15, <1>18, <2>1, <3>5, <3>6, <3>8 DEF new, Bytes
    <2>3. CASE ~(Len(segs) > 1)
      <3>1. cur = ZeroCursor
        BY <2>1, <2>3 DEF cur
      <3>2. Starts(new, 0, 0)
        BY <1>4, <1>9, <3>1, StartsUnset
      <3>3. SoundClass(new)
        BY <1>1, <1>4, <1>9, <3>1 DEF SoundClass, Filed, AtStart
      <3> QED
        BY <1>15, <1>18, <2>1, <3>2, <3>3 DEF new, Bytes
    <2> QED
      BY <2>2, <2>3
  \* the cursor is in a later segment
  <1>19. CASE cl.cursor # ZeroCursor /\ k # 0
    <2>1. /\ k \in Nat /\ 0 < k /\ k < Len(segs) /\ cl.cursor.seq = segs[k + 1].seq
          /\ cl.cursor.off = o /\ o <= Bytes(segs[k + 1])
      BY <1>1, <1>11, <1>19 DEF Starts
    <2>2. /\ k + 1 \in 1..Len(segs) /\ 1 < k + 1 /\ k \in 1..(Len(segs) - 1)
          /\ k - 1 \in 0..(Len(t) - 1) /\ (k - 1) + 1 = k /\ 1 + k = k + 1 /\ k - 1 \in Nat
          /\ 1 + (k - 1) = k /\ k \in 1..Len(t)
      <3> DEFINE n == Len(segs)
                 m == Len(t)
      <3>1. n \in Nat /\ m = n - 1
        BY <1>1, <1>5
      <3>2. k \in Nat /\ 0 < k /\ k < n
        BY <2>1
      <3> HIDE DEF n, m
      <3>3. /\ k + 1 \in 1..n /\ 1 < k + 1 /\ k \in 1..(n - 1)
            /\ k - 1 \in 0..(m - 1) /\ (k - 1) + 1 = k /\ 1 + k = k + 1 /\ k - 1 \in Nat
            /\ 1 + (k - 1) = k /\ k \in 1..m
        BY <3>1, <3>2
      <3> QED
        BY <3>3 DEF n, m
    <2>3. segs[1].seq < segs[k + 1].seq
      BY <1>1, <1>3, <2>2 DEF SoundSegs
    <2>4. cur = cl.cursor
      <3>1. segs[k + 1].seq \in Nat
        BY <1>6, <2>2 DEF Segment
      <3> QED
        BY <1>14, <2>1, <2>3, <3>1 DEF cur
    <2>5. t[k] = segs[k + 1]
      BY <1>5, <2>2
    <2>6. Starts(new, k - 1, new.cursor.off)
      BY <1>4, <1>9, <2>1, <2>2, <2>4, <2>5, StartsIn
    <2>7. Walk(new) = Rest(Joined(Rest(t, k - 1)), o)
      BY <1>9, <2>1, <2>4, <2>6, WalkIsRest
    <2>8. Rest(t, k - 1) = Rest(segs, k)
      <3>1. Rest(Rest(segs, 1), k - 1) = Rest(segs, 1 + (k - 1))
        BY <1>1, <2>2, RestOfRest
      <3> QED
        BY <1>2, <2>2, <3>1
    <2>9. Walk(new) = Walk(cl)
      BY <1>12, <2>7, <2>8
    <2>10. IsRest(Walk(new), Walk(cl))
      BY <1>12, <2>9, RestReflexive
    <2>11. ~AtStart(cl)
      <3>1. segs[k + 1].seq \in Nat
        BY <1>6, <2>2 DEF Segment
      <3> QED
        BY <1>14, <1>19, <2>1, <2>3, <3>1 DEF AtStart
    <2>12. Filed(new)
      BY <1>9, <1>16, <2>4, <2>11 DEF Filed
    <2>13. InSegment(new.segs, new.cursor)
      BY <1>9, <2>1, <2>2, <2>4, <2>5 DEF InSegment
    <2>14. SoundClass(new)
      <3>1. 1 <= cl.nextSeq
        BY DEF SoundClass
      <3> QED
        BY <1>4, <1>9, <2>12, <2>13, <3>1 DEF SoundClass
    <2> QED
      BY <2>10, <2>14 DEF new
  <1> QED
    BY <1>17, <1>18, <1>19

LEMMA RestOfAppend ==
  ASSUME NEW S, NEW s \in Seq(S), NEW e \in S, NEW k \in 0..Len(s)
  PROVE  Rest(Append(s, e), k) = Append(Rest(s, k), e)
  <1>1. k \in Nat /\ k <= Len(s) /\ <<e>> \in Seq(S)
    OBVIOUS
  <1>2. Rest(s \o <<e>>, k) = Rest(s, k) \o <<e>>
    <2> DEFINE x == <<e>>
    <2> HIDE DEF x
    <2>1. x \in Seq(S)
      BY <1>1 DEF x
    <2>2. Rest(s \o x, k) = Rest(s, k) \o x
      BY <1>1, <2>1, RestOfConcat
    <2> QED
      BY <2>2 DEF x
  <1>3. Rest(s, k) \in Seq(S)
    BY <1>1, RestProperties
  <1>4. Append(s, e) = s \o <<e>> /\ Append(Rest(s, k), e) = Rest(s, k) \o <<e>>
    BY <1>3, AppendIsConcat
  <1> QED
    BY <1>2, <1>4

\* What is read of a log that has segments left after its first k.
LEMMA JoinedRestOfAppend ==
  ASSUME NEW s \in Seq(Segment), NEW e \in Segment, NEW k \in 0..Len(s)
  PROVE  /\ Joined(Rest(Append(s, e), k)) = Joined(Rest(s, k)) \o e.recs
         /\ Joined(Rest(s, k)) \in Seq(Record) /\ e.recs \in Seq(Record)
  <1>1. Rest(Append(s, e), k) = Append(Rest(s, k), e)
    BY RestOfAppend
  <1>2. Rest(s, k) \in Seq(Segment) /\ Joined(Rest(s, k)) \in Seq(Record)
    BY SegmentsLeft
  <1>3. Joined(Append(Rest(s, k), e)) = Joined(Rest(s, k)) \o e.recs
    BY <1>2, JoinedAppend
  <1>4. e.recs \in Seq(Record)
    BY DEF Segment
  <1> QED
    BY <1>1, <1>2, <1>3, <1>4

LEMMA SoundAppend ==
  ASSUME NEW segs, NEW next \in Nat, SoundSegs(segs, next), 1 <= next,
         \A i \in 1..Len(segs) : segs[i].synced = Bytes(segs[i])
  PROVE  SoundSegs(Append(segs, [seq |-> next, recs |-> <<>>, synced |-> 0]), next + 1)
  <1> DEFINE e == [seq |-> next, recs |-> <<>>, synced |-> 0]
             n == Len(segs)
             t == Append(segs, e)
  <1>1. segs \in Seq(Segment) /\ n \in Nat /\ \A i \in 1..n : segs[i] \in Segment
    BY DEF SoundSegs
  <1>2. e \in Segment /\ e.seq = next /\ e.synced = 0 /\ e.recs = <<>>
    BY DEF Segment
  <1> HIDE DEF e
  <1>3. t \in Seq(Segment) /\ Len(t) = n + 1 /\ t[n + 1] = e /\ \A i \in 1..n : t[i] = segs[i]
    BY <1>1, <1>2
  <1>4. \A i \in 1..(n + 1) : i \in 1..n \/ i = n + 1
    BY <1>1
  <1>5. \A i \in 1..n : segs[i].seq \in Nat /\ segs[i].seq < next
    BY <1>1 DEF SoundSegs, Segment
  <1>6. Bytes(e) = 0
    BY <1>2 DEF Bytes
  <1> HIDE DEF t
  <1>7. ASSUME NEW i \in 1..(n + 1), NEW j \in 1..(n + 1), i < j PROVE t[i].seq < t[j].seq
    <2>1. i \in 1..n
      BY <1>1, <1>7
    <2>2. CASE j \in 1..n
      <3>1. segs[i].seq < segs[j].seq
        BY <1>7, <2>1, <2>2 DEF SoundSegs
      <3> QED
        BY <1>3, <2>1, <2>2, <3>1
    <2>3. CASE j = n + 1
      BY <1>2, <1>3, <1>5, <2>1, <2>3
    <2> QED
      BY <1>4, <2>2, <2>3
  <1>8. ASSUME NEW i \in 1..(n + 1)
        PROVE  1 <= t[i].seq /\ t[i].seq < next + 1 /\ t[i].synced = Bytes(t[i])
               /\ t[i].synced <= Bytes(t[i])
    <2>1. CASE i \in 1..n
      <3>1. 1 <= segs[i].seq /\ segs[i].synced = Bytes(segs[i]) /\ segs[i].synced <= Bytes(segs[i])
        BY <2>1 DEF SoundSegs
      <3> QED
        BY <1>3, <1>5, <2>1, <3>1
    <2>2. CASE i = n + 1
      BY <1>2, <1>3, <1>6, <2>2
    <2> QED
      BY <1>4, <2>1, <2>2
  <1>9. \A i \in 1..(Len(t) - 1) : i \in 1..(n + 1)
    BY <1>1, <1>3
  <1>10. SoundSegs(t, next + 1)
    BY <1>3, <1>7, <1>8, <1>9 DEF SoundSegs
  <1> QED
    BY <1>10 DEF t, e

LEMMA NewSegment ==
  ASSUME NEW cl, SoundClass(cl), \A i \in 1..Len(cl.segs) : cl.segs[i].synced = Bytes(cl.segs[i]),
         NEW new, new = [cl EXCEPT
                           !.segs = Append(@, [seq |-> cl.nextSeq, recs |-> <<>>, synced |-> 0]),
                           !.nextSeq = @ + 1]
  PROVE  SoundClass(new) /\ Walk(new) = Walk(cl) /\ new.segs # <<>>
  <1> DEFINE e == [seq |-> cl.nextSeq, recs |-> <<>>, synced |-> 0]
             n == Len(cl.segs)
             t == Append(cl.segs, e)
  <1>1. /\ cl \in ClassLog /\ SoundSegs(cl.segs, cl.nextSeq) /\ 1 <= cl.nextSeq
        /\ cl.segs \in Seq(Segment) /\ n \in Nat /\ cl.nextSeq \in Nat
    BY DEF SoundClass, SoundSegs, ClassLog
  <1>2. e \in Segment /\ e.recs = <<>>
    BY <1>1 DEF Segment
  <1>3. SoundSegs(t, cl.nextSeq + 1)
    BY <1>1, SoundAppend
  <1>4. new = [cl EXCEPT !.segs = t, !.nextSeq = cl.nextSeq + 1]
    BY <1>1 DEF ClassLog
  <1> HIDE DEF e
  <1>5. t \in Seq(Segment) /\ Len(t) = n + 1 /\ \A i \in 1..n : t[i] = cl.segs[i]
    BY <1>1, <1>2
  <1>6. /\ new.segs = t /\ new.cursor = cl.cursor /\ new.saved = cl.saved
        /\ new.nextSeq = cl.nextSeq + 1 /\ new \in ClassLog
    <2>1. cl.nextSeq + 1 \in Nat
      BY <1>1
    <2> HIDE DEF t
    <2> QED
      BY <1>1, <1>4, <1>5, <2>1 DEF ClassLog
  <1>7. t # <<>>
    BY <1>1, <1>5
  <1>8. PICK k \in 0..n, o \in Nat : Starts(cl, k, o)
    BY WalkStarts DEF SoundClass
  <1>9. Walk(cl) = Rest(Joined(Rest(cl.segs, k)), o)
    BY <1>1, <1>8, WalkIsRest
  <1>10. Joined(Rest(t, k)) = Joined(Rest(cl.segs, k))
    <2>1. /\ Joined(Rest(t, k)) = Joined(Rest(cl.segs, k)) \o e.recs
          /\ Joined(Rest(cl.segs, k)) \in Seq(Record)
      BY <1>1, <1>2, JoinedRestOfAppend
    <2> QED
      BY <1>2, <2>1, ConcatEmptySeq
  <1> HIDE DEF t
  <1>11. Starts(new, k, o)
    <2>1. CASE cl.cursor = ZeroCursor /\ k = 0 /\ o = 0
      BY <1>3, <1>6, <2>1, StartsUnset
    <2>2. CASE /\ k < n /\ cl.cursor.seq = cl.segs[k + 1].seq
               /\ cl.cursor.off = o /\ o <= Bytes(cl.segs[k + 1])
      <3>1. k \in 0..(Len(t) - 1) /\ k + 1 \in 1..n
        BY <1>1, <1>5, <1>8, <2>2
      <3>2. t[k + 1] = cl.segs[k + 1]
        BY <1>5, <3>1
      <3> QED
        BY <1>3, <1>6, <2>2, <3>1, <3>2, StartsIn
    <2> QED
      BY <1>8, <2>1, <2>2 DEF Starts
  <1>12. Walk(new) = Walk(cl)
    <2>1. Walk(new) = Rest(Joined(Rest(new.segs, k)), o)
      <3>1. new \in ClassLog
        BY <1>6
      <3> QED
        BY <1>11, <3>1, WalkWhere, Zenon
    <2> QED
      BY <1>6, <1>9, <1>10, <2>1
  <1>13. InSegment(cl.segs, cl.cursor) => InSegment(t, cl.cursor)
    <2>1. \A i \in 1..n : i \in 1..Len(t) /\ t[i] = cl.segs[i]
      BY <1>1, <1>5
    <2> QED
      BY <2>1 DEF InSegment
  <1>14. Filed(cl) => Filed(new)
    <2>1. cl.segs # <<>> => 1 \in 1..n
      BY <1>1
    <2>2. AtStart(cl) => AtStart(new)
      BY <1>5, <1>6, <1>7, <2>1 DEF AtStart
    <2> QED
      BY <1>6, <2>2 DEF Filed
  <1>15. SoundClass(new)
    <2>1. 1 <= cl.nextSeq + 1
      BY <1>1
    <2> QED
      BY <1>3, <1>6, <1>13, <1>14, <2>1 DEF SoundClass
  <1> QED
    BY <1>6, <1>7, <1>12, <1>15

LEMMA ActiveSound ==
  ASSUME NEW cl, SoundClass(cl)
  PROVE  /\ SoundClass(WithActive(cl)) /\ Walk(WithActive(cl)) = Walk(cl)
         /\ WithActive(cl).segs # <<>>
  <1>1. CASE cl.segs # <<>> /\ ~Rotates(cl)
    <2>1. WithActive(cl) = cl
      BY <1>1 DEF WithActive
    <2> QED
      BY <1>1, <2>1
  <1>2. CASE Rotates(cl)
    <2> DEFINE full == Synced(cl)
    <2>1. cl \in ClassLog
      BY DEF SoundClass
    <2>2. Len(full.segs) = Len(cl.segs) /\ full.nextSeq = cl.nextSeq
      <3>1. Len(full.segs) = Len(cl.segs) /\ full = [cl EXCEPT !.segs = full.segs]
        BY <2>1, SyncedSegs
      <3>2. [cl EXCEPT !.segs = full.segs].nextSeq = cl.nextSeq
        BY <2>1 DEF ClassLog
      <3> QED
        BY <3>1, <3>2
    <2>3. /\ SoundClass(full) /\ Walk(full) = Walk(cl)
          /\ \A i \in 1..Len(full.segs) : full.segs[i].synced = Bytes(full.segs[i])
      BY <2>2, SyncedSound
    <2>4. WithActive(cl) =
            [full EXCEPT !.segs = Append(@, [seq |-> full.nextSeq, recs |-> <<>>, synced |-> 0]),
                         !.nextSeq = @ + 1]
      <3> HIDE DEF full
      <3>1. WithActive(cl) =
              [full EXCEPT !.segs = Append(@, [seq |-> cl.nextSeq, recs |-> <<>>, synced |-> 0]),
                           !.nextSeq = @ + 1]
        BY <1>2 DEF WithActive, full
      <3> QED
        BY <2>2, <3>1
    <2> HIDE DEF full
    <2> QED
      BY <2>3, <2>4, NewSegment
  <1>3. CASE cl.segs = <<>>
    <2>1. ~Rotates(cl)
      BY <1>3 DEF Rotates
    <2>2. WithActive(cl) =
            [cl EXCEPT !.segs = Append(@, [seq |-> cl.nextSeq, recs |-> <<>>, synced |-> 0]),
                       !.nextSeq = @ + 1]
      BY <1>3, <2>1 DEF WithActive
    <2>3. \A i \in 1..Len(cl.segs) : cl.segs[i].synced = Bytes(cl.segs[i])
      BY <1>3
    <2> QED
      BY <2>2, <2>3, NewSegment
  <1> QED
    BY <1>1, <1>2, <1>3

LEMMA BytesAreCounted ==
  ASSUME NEW seg \in Segment
  PROVE  Bytes(seg) \in Nat
  BY DEF Bytes, Segment

LEMMA WrittenSound ==
  ASSUME NEW cl, SoundClass(cl), NEW rec \in Record
  PROVE  SoundClass(Written(cl, rec)) /\ Walk(Written(cl, rec)) = Append(Walk(cl), rec)
  <1> DEFINE a == WithActive(cl)
             n == Len(a.segs)
             last == a.segs[n]
             longer == [last EXCEPT !.recs = Append(@, rec)]
             front == SubSeq(a.segs, 1, n - 1)
             t == [a.segs EXCEPT ![n] = longer]
             new == [a EXCEPT !.segs = t]
  <1>1. SoundClass(a) /\ Walk(a) = Walk(cl) /\ a.segs # <<>>
    BY ActiveSound
  <1>2. Written(cl, rec) = new
    BY DEF Written
  <1> HIDE DEF a
  <1>3. /\ a \in ClassLog /\ SoundSegs(a.segs, a.nextSeq) /\ a.segs \in Seq(Segment)
        /\ n \in Nat \ {0} /\ n \in 1..n /\ last \in Segment
        /\ \A i \in 1..n : a.segs[i] \in Segment
    <2>1. a \in ClassLog /\ SoundSegs(a.segs, a.nextSeq) /\ a.segs \in Seq(Segment)
      BY <1>1 DEF SoundClass, SoundSegs
    <2>2. n \in Nat \ {0} /\ n \in 1..n
      BY <1>1, <2>1
    <2>3. \A i \in 1..n : a.segs[i] \in Segment
      BY <2>1
    <2> QED
      BY <2>1, <2>2, <2>3
  <1>4. /\ longer \in Segment /\ longer.seq = last.seq /\ longer.synced = last.synced
        /\ longer.recs = Append(last.recs, rec) /\ last.recs \in Seq(Record)
    <2> HIDE DEF last
    <2>1. last.recs \in Seq(Record) /\ Append(last.recs, rec) \in Seq(Record)
      BY <1>3 DEF Segment
    <2> QED
      BY <1>3, <2>1 DEF Segment
  <1>5. Bytes(longer) = Bytes(last) + 1 /\ Bytes(last) \in Nat
    <2> HIDE DEF longer, last
    <2>1. Len(Append(last.recs, rec)) = Len(last.recs) + 1 /\ Len(last.recs) \in Nat
      BY <1>4
    <2> QED
      BY <1>4, <2>1 DEF Bytes
  <1> HIDE DEF longer, last
  <1>6. /\ t \in Seq(Segment) /\ Len(t) = n /\ t[n] = longer
        /\ \A i \in 1..(n - 1) : t[i] = a.segs[i] /\ i \in 1..n
    <2>1. /\ t \in Seq(Segment) /\ Len(t) = n
          /\ \A j \in 1..n : t[j] = IF j = n THEN longer ELSE a.segs[j]
      BY <1>3, <1>4, ExceptSeq
    <2>2. \A i \in 1..(n - 1) : i \in 1..n /\ i # n
      BY <1>3
    <2> QED
      BY <1>3, <2>1, <2>2
  <1>7. /\ front \in Seq(Segment) /\ Len(front) = n - 1
        /\ \A i \in 1..(n - 1) : front[i] = a.segs[i]
    <2>1. n - 1 \in 0..Len(a.segs)
      BY <1>3
    <2> QED
      BY <1>3, <2>1, FirstSegments
  <1> HIDE DEF t, front
  <1>8. a.segs = Append(front, last)
    <2>1. /\ Append(front, last) \in Seq(Segment) /\ Len(Append(front, last)) = n
          /\ \A i \in 1..n : Append(front, last)[i] = IF i = n THEN last ELSE front[i]
      BY <1>3, <1>7
    <2>2. \A i \in 1..n : a.segs[i] = Append(front, last)[i]
      BY <1>3, <1>7, <2>1 DEF last
    <2> QED
      BY <1>3, <2>1, <2>2, SeqEqual
  <1>9. t = Append(front, longer)
    <2>1. /\ Append(front, longer) \in Seq(Segment) /\ Len(Append(front, longer)) = n
          /\ \A i \in 1..n : Append(front, longer)[i] = IF i = n THEN longer ELSE front[i]
      BY <1>3, <1>4, <1>7
    <2>2. \A i \in 1..n : t[i] = Append(front, longer)[i]
      BY <1>3, <1>6, <1>7, <2>1
    <2> QED
      BY <1>6, <2>1, <2>2, SeqEqual
  <1>10. /\ new.segs = t /\ new.cursor = a.cursor /\ new.saved = a.saved
         /\ new.nextSeq = a.nextSeq /\ new \in ClassLog
    BY <1>3, <1>6 DEF ClassLog
  <1> HIDE DEF new
  <1>11. \A i \in 1..n : /\ t[i].seq = a.segs[i].seq /\ t[i].synced = a.segs[i].synced
                         /\ Bytes(a.segs[i]) <= Bytes(t[i])
    <2> SUFFICES ASSUME NEW i \in 1..n
                 PROVE  /\ t[i].seq = a.segs[i].seq /\ t[i].synced = a.segs[i].synced
                        /\ Bytes(a.segs[i]) <= Bytes(t[i])
      OBVIOUS
    <2>1. CASE i = n
      BY <1>4, <1>5, <1>6, <2>1 DEF last
    <2>2. CASE i \in 1..(n - 1)
      <3>1. t[i] = a.segs[i] /\ Bytes(a.segs[i]) \in Nat
        BY <1>3, <1>6, <2>2, BytesAreCounted
      <3> QED
        BY <3>1
    <2>3. i = n \/ i \in 1..(n - 1)
      BY <1>3
    <2> QED
      BY <2>1, <2>2, <2>3
  <1>12. SoundSegs(t, a.nextSeq)
    <2>1. \A i, j \in 1..n : i < j => t[i].seq < t[j].seq
      BY <1>3, <1>11 DEF SoundSegs
    <2>2. \A i \in 1..n : 1 <= t[i].seq /\ t[i].seq < a.nextSeq
      BY <1>3, <1>11 DEF SoundSegs
    <2>3. ASSUME NEW i \in 1..n PROVE t[i].synced <= Bytes(t[i])
      <3>1. t[i].synced <= Bytes(a.segs[i])
        BY <1>3, <1>11 DEF SoundSegs
      <3>2. t[i].synced \in Nat /\ Bytes(a.segs[i]) \in Nat /\ Bytes(t[i]) \in Nat
        <4>1. t[i] \in Segment /\ a.segs[i] \in Segment
          BY <1>3, <1>6, ElementOfSeq
        <4> QED
          BY <4>1, BytesAreCounted DEF Segment
      <3> QED
        BY <1>11, <3>1, <3>2
    <2>4. ASSUME NEW i \in 1..(n - 1) PROVE t[i].synced = Bytes(t[i])
      <3>1. a.segs[i].synced = Bytes(a.segs[i])
        BY <1>3 DEF SoundSegs
      <3> QED
        BY <1>6, <3>1
    <2> QED
      BY <1>6, <2>1, <2>2, <2>3, <2>4 DEF SoundSegs
  <1>13. InSegment(a.segs, a.cursor) => InSegment(t, a.cursor)
    <2> SUFFICES ASSUME NEW i \in 1..n, a.segs[i].seq = a.cursor.seq, a.cursor.off <= Bytes(a.segs[i])
                 PROVE  InSegment(t, a.cursor)
      BY DEF InSegment
    <2>1. a.cursor.off \in Nat /\ Bytes(a.segs[i]) \in Nat /\ Bytes(t[i]) \in Nat
      <3>1. t[i] \in Segment /\ a.segs[i] \in Segment
        BY <1>3, <1>6, ElementOfSeq
      <3>2. a.cursor.off \in Nat
        BY <1>3 DEF ClassLog, Cursors
      <3> QED
        BY <3>1, <3>2, BytesAreCounted
    <2>2. t[i].seq = a.cursor.seq /\ a.cursor.off <= Bytes(t[i]) /\ i \in 1..Len(t)
      BY <1>6, <1>11, <2>1
    <2> QED
      BY <2>2 DEF InSegment
  <1>14. Filed(new)
    <2>1. Filed(a) /\ 1 \in 1..n /\ t # <<>>
      BY <1>1, <1>3, <1>6 DEF SoundClass
    <2>2. AtStart(a) => AtStart(new)
      BY <1>10, <1>11, <2>1 DEF AtStart
    <2> QED
      BY <1>10, <2>1, <2>2 DEF Filed
  <1>15. SoundClass(new)
    BY <1>1, <1>10, <1>12, <1>13, <1>14 DEF SoundClass
  <1>16. PICK k \in 0..n, o \in Nat : Starts(a, k, o)
    BY <1>1, WalkStarts DEF SoundClass
  <1>17. k \in 0..(n - 1) /\ k \in 0..Len(front)
    <2>1. k < n
      BY <1>3, <1>16 DEF Starts
    <2> QED
      BY <1>3, <1>7, <2>1
  <1> DEFINE x == Joined(Rest(front, k))
  <1>18. Joined(Rest(a.segs, k)) = x \o last.recs /\ x \in Seq(Record)
    BY <1>3, <1>7, <1>8, <1>17, JoinedRestOfAppend
  <1>19. Joined(Rest(t, k)) = x \o Append(last.recs, rec)
    BY <1>4, <1>7, <1>9, <1>17, JoinedRestOfAppend
  <1> HIDE DEF x
  <1> DEFINE y == x \o last.recs
  <1>20. x \o Append(last.recs, rec) = Append(y, rec) /\ y \in Seq(Record)
    <2> DEFINE z == <<rec>>
    <2>1. z \in Seq(Record) /\ y \in Seq(Record)
      BY <1>4, <1>18, ConcatProperties
    <2>2. Append(last.recs, rec) = last.recs \o z
      BY <1>4, AppendIsConcat
    <2>3. Append(y, rec) = y \o z
      <3> HIDE DEF y
      <3> QED
        BY <2>1, AppendIsConcat
    <2> HIDE DEF z
    <2>4. (x \o last.recs) \o z = x \o (last.recs \o z)
      <3>1. last.recs \in Seq(Record)
        BY <1>4
      <3> DEFINE w == last.recs
      <3> HIDE DEF w
      <3>2. x \in Seq(Record) /\ w \in Seq(Record) /\ z \in Seq(Record)
        BY <1>18, <2>1, <3>1 DEF w
      <3>3. (x \o w) \o z = x \o (w \o z)
        BY <3>2, ConcatAssociative
      <3> QED
        BY <3>3 DEF w
    <2> QED
      BY <2>1, <2>2, <2>3, <2>4
  <1> HIDE DEF y
  <1>21. Walk(a) = Rest(y, o) /\ o <= Len(y)
    <2>1. o <= Len(Joined(Rest(a.segs, k))) /\ Walk(a) = Rest(Joined(Rest(a.segs, k)), o)
      BY <1>3, <1>16, WalkIsRest
    <2> QED
      BY <1>18, <2>1 DEF y
  <1>22. Starts(new, k, o)
    <2>1. CASE a.cursor = ZeroCursor /\ k = 0 /\ o = 0
      BY <1>10, <1>12, <2>1, StartsUnset
    <2>2. CASE /\ k < n /\ a.cursor.seq = a.segs[k + 1].seq
               /\ a.cursor.off = o /\ o <= Bytes(a.segs[k + 1])
      <3>1. k + 1 \in 1..n /\ k \in 0..(Len(t) - 1)
        BY <1>3, <1>6, <1>17
      <3>2. Bytes(a.segs[k + 1]) \in Nat /\ Bytes(t[k + 1]) \in Nat
        <4>1. t[k + 1] \in Segment /\ a.segs[k + 1] \in Segment
          BY <1>3, <1>6, <3>1, ElementOfSeq
        <4> QED
          BY <4>1, BytesAreCounted
      <3>3. t[k + 1].seq = new.cursor.seq /\ new.cursor.off <= Bytes(t[k + 1]) /\ new.cursor.off = o
        BY <1>10, <1>11, <1>16, <2>2, <3>1, <3>2
      <3> QED
        BY <1>10, <1>12, <3>1, <3>3, StartsIn
    <2> QED
      BY <1>16, <2>1, <2>2 DEF Starts
  <1>23. Walk(new) = Rest(Append(y, rec), o)
    <2>1. Walk(new) = Rest(Joined(Rest(new.segs, k)), o)
      BY <1>10, <1>22, WalkWhere
    <2> QED
      BY <1>10, <1>19, <1>20, <2>1
  <1>24. Rest(Append(y, rec), o) = Append(Rest(y, o), rec)
    <2>1. o \in 0..Len(y)
      BY <1>20, <1>21
    <2> QED
      BY <1>20, <2>1, RestOfAppend
  <1> QED
    BY <1>1, <1>2, <1>15, <1>21, <1>23, <1>24

\* Advanced finds the place n records on.
LEMMA AdvancedPlace ==
  ASSUME NEW cl, SoundClass(cl), cl.segs # <<>>, NEW n \in 0..Len(Walk(cl))
  PROVE  \E i \in 1..Len(cl.segs), off \in Nat :
            /\ Advanced(cl, n) = [seq |-> cl.segs[i].seq, off |-> off]
            /\ off <= Bytes(cl.segs[i])
            /\ Rest(Joined(Rest(cl.segs, i - 1)), off) = Rest(Walk(cl), n)
  <1> DEFINE segs == cl.segs
             L == Len(segs)
             P(i) == Passed(segs, i)
             W == Joined(segs)
             lens == [i \in DOMAIN segs |-> Bytes(segs[i])]
             s == StartIdx(cl)
             Sequel(u) == [i \in (s - 1)..L |-> IF i < s THEN 0 ELSE u[i - 1] + lens[i]]
             upto == CHOOSE u : u = Sequel(u)
             goal == StartOff(cl) + n
             far == {j \in s..L : upto[j] >= goal}
             m == Min(far)
             left == goal - upto[m - 1]
  <1>0. /\ cl \in ClassLog /\ SoundSegs(segs, cl.nextSeq) /\ segs \in Seq(Segment)
        /\ L \in Nat \ {0} /\ DOMAIN segs = 1..L
        /\ \A i \in 1..L : segs[i] \in Segment
    <2>1. cl \in ClassLog /\ SoundSegs(segs, cl.nextSeq) /\ segs \in Seq(Segment)
      BY DEF SoundClass, SoundSegs
    <2>2. L \in Nat \ {0} /\ DOMAIN segs = 1..L
      BY <2>1
    <2> QED
      BY <2>1, <2>2
  <1>1. PICK k \in 0..L, o \in Nat : Starts(cl, k, o)
    BY WalkStarts DEF SoundClass
  <1>2. /\ Walk(cl) = Rest(W, P(k) + o) /\ P(k) + o \in Nat /\ P(k) + o <= Len(W)
        /\ Len(Walk(cl)) = Len(W) - (P(k) + o)
    BY <1>0, <1>1, WalkIsRest
  <1>3. s = k + 1 /\ StartOff(cl) = o /\ k < L /\ k \in Nat /\ n \in Nat /\ s - 1 = k
    <2>1. s = k + 1 /\ StartOff(cl) = o /\ k < L /\ k \in Nat
      BY <1>0, <1>1 DEF Starts
    <2>2. n \in Nat
      OBVIOUS
    <2> HIDE DEF s
    <2> QED
      BY <2>1, <2>2
  <1> HIDE DEF s
  <1>4. Advanced(cl, n) = IF left >= lens[m] /\ m < L
                          THEN [seq |-> segs[m + 1].seq, off |-> 0]
                          ELSE [seq |-> segs[m].seq, off |-> left]
    BY DEF Advanced, s
  <1>5. \A i \in 0..L : P(i) \in Nat
    <2> HIDE DEF segs
    <2> QED
      BY <1>0, FirstSegments
  <1>6. \A i \in 1..L : lens[i] = Bytes(segs[i]) /\ lens[i] \in Nat
    BY <1>0, BytesAreCounted
  <1>7. \A i \in 1..L : P(i) = P(i - 1) + Bytes(segs[i])
    <2> HIDE DEF segs
    <2> QED
      BY <1>0, PassedStep
  <1>8. P(L) = Len(W)
    <2> HIDE DEF segs
    <2> QED
      BY <1>0, PassedEnds
  <1>9. W \in Seq(Record) /\ Len(W) \in Nat
    <2>1. W \in Seq(Record)
      BY <1>0, JoinedType
    <2> QED
      BY <2>1
  <1> HIDE DEF segs, lens, P, W, L
  <1> DEFINE f == [i \in (s - 1)..L |-> P(i) - P(k)]
  <1>10. f = Sequel(f)
    <2>1. ASSUME NEW i \in (s - 1)..L
          PROVE  P(i) - P(k) = IF i < s THEN 0 ELSE f[i - 1] + lens[i]
      <3>1. CASE i < s
        <4>1. i = k
          BY <1>0, <1>3, <3>1
        <4>2. P(k) \in Nat
          BY <1>1, <1>5
        <4> QED
          BY <3>1, <4>1, <4>2
      <3>2. CASE ~(i < s)
        <4>1. i \in 1..L /\ i - 1 \in (s - 1)..L /\ i - 1 \in 0..L /\ i \in 0..L
          BY <1>0, <1>3, <3>2
        <4>2. f[i - 1] = P(i - 1) - P(k)
          BY <4>1
        <4>3. P(i) = P(i - 1) + lens[i]
          BY <1>6, <1>7, <4>1
        <4>4. P(i) \in Nat /\ P(i - 1) \in Nat /\ P(k) \in Nat /\ lens[i] \in Nat
          BY <1>1, <1>5, <1>6, <4>1
        <4> HIDE DEF f
        <4> QED
          BY <3>2, <4>2, <4>3, <4>4
      <3> QED
        BY <3>1, <3>2
    <2>2. f = [i \in (s - 1)..L |-> IF i < s THEN 0 ELSE f[i - 1] + lens[i]]
      BY <2>1
    <2> QED
      BY <2>2
  <1>11. upto = Sequel(upto)
    <2> HIDE DEF f
    <2> QED
      BY <1>10
  <1> HIDE DEF upto
  <1>12. upto[k] = 0 /\ \A i \in (k + 1)..L : upto[i] = upto[i - 1] + lens[i]
    <2>1. k \in (s - 1)..L /\ k < s
      BY <1>0, <1>3
    <2>2. upto[k] = 0
      BY <1>11, <2>1
    <2>3. ASSUME NEW i \in (k + 1)..L PROVE upto[i] = upto[i - 1] + lens[i]
      <3>1. i \in (s - 1)..L /\ ~(i < s)
        BY <1>0, <1>3
      <3> QED
        BY <1>11, <3>1
    <2> QED
      BY <2>2, <2>3
  <1>13. \A i \in k..L : upto[i] = P(i) - P(k)
    <2> DEFINE S == {j \in Nat : k + j <= L => upto[k + j] = P(k + j) - P(k)}
    <2>1. 0 \in S
      <3>1. k + 0 = k /\ P(k) \in Nat
        BY <1>1, <1>3, <1>5
      <3> QED
        BY <1>12, <3>1
    <2>2. ASSUME NEW j \in Nat, j \in S PROVE j + 1 \in S
      <3> SUFFICES ASSUME k + (j + 1) <= L PROVE upto[k + (j + 1)] = P(k + (j + 1)) - P(k)
        OBVIOUS
      <3> DEFINE i == k + (j + 1)
      <3>1. i \in (k + 1)..L /\ i - 1 = k + j /\ k + j <= L /\ i \in 1..L
            /\ i \in 0..L /\ i - 1 \in 0..L
        BY <1>0, <1>3
      <3>2. upto[i - 1] = P(i - 1) - P(k)
        BY <2>2, <3>1
      <3> HIDE DEF i
      <3>3. P(i) = P(i - 1) + lens[i] /\ upto[i] = upto[i - 1] + lens[i]
        BY <1>6, <1>7, <1>12, <3>1
      <3>4. P(i) \in Nat /\ P(i - 1) \in Nat /\ P(k) \in Nat /\ lens[i] \in Nat
        BY <1>1, <1>5, <1>6, <3>1
      <3>5. upto[i] = P(i) - P(k)
        BY <3>2, <3>3, <3>4
      <3> QED
        BY <3>5 DEF i
    <2> HIDE DEF S
    <2>3. Nat \subseteq S
      BY <2>1, <2>2, Induction
    <2>4. ASSUME NEW i \in k..L PROVE upto[i] = P(i) - P(k)
      <3>1. i - k \in Nat /\ k + (i - k) = i /\ k + (i - k) <= L
        BY <1>0, <1>3
      <3>2. i - k \in S
        BY <2>3, <3>1
      <3>3. upto[k + (i - k)] = P(k + (i - k)) - P(k)
        BY <3>1, <3>2 DEF S
      <3> QED
        BY <3>1, <3>3
    <2> QED
      BY <2>4
  <1>14. goal \in Nat /\ goal = o + n /\ P(k) + goal <= P(L) /\ P(k) \in Nat
    <2>1. n <= Len(W) - (P(k) + o)
      BY <1>2, <1>3
    <2>2. P(k) \in Nat
      BY <1>1, <1>5
    <2> QED
      BY <1>1, <1>3, <1>8, <1>9, <2>1, <2>2
  <1> HIDE DEF goal
  <1>15. far \subseteq Nat /\ far # {}
    <2>1. L \in s..L /\ L \in k..L /\ L \in 0..L
      BY <1>0, <1>3
    <2>2. upto[L] = P(L) - P(k) /\ P(L) \in Nat
      BY <1>5, <1>13, <2>1
    <2>3. upto[L] >= goal
      BY <1>14, <2>2
    <2>4. L \in far
      BY <2>1, <2>3
    <2>5. \A j \in s..L : j \in Nat
      BY <1>0, <1>3
    <2> QED
      BY <2>4, <2>5
  <1>16. m \in far /\ \A y \in far : m <= y
    <2> HIDE DEF far
    <2> QED
      BY <1>15, LeastIsIn
  <1>17. m \in s..L /\ upto[m] >= goal /\ \A y \in s..L : upto[y] >= goal => m <= y
    BY <1>16
  <1> HIDE DEF m, far
  <1>18. /\ m \in 1..L /\ m \in 0..L /\ m - 1 \in 0..L /\ m \in k..L /\ m - 1 \in k..L
         /\ m \in Nat
    BY <1>0, <1>3, <1>17
  <1>19. upto[m] = P(m) - P(k) /\ upto[m - 1] = P(m - 1) - P(k)
         /\ P(m) = P(m - 1) + lens[m]
    BY <1>6, <1>7, <1>13, <1>18
  <1>20. P(m) \in Nat /\ P(m - 1) \in Nat /\ lens[m] \in Nat
    BY <1>5, <1>6, <1>18
  <1>21. upto[m - 1] <= goal
    <2>1. CASE m = s
      <3>1. m - 1 = k
        BY <1>3, <2>1
      <3> QED
        BY <1>12, <1>14, <3>1
    <2>2. CASE m # s
      <3>1. m - 1 \in s..L /\ ~(m <= m - 1)
        BY <1>0, <1>3, <1>17, <2>2
      <3>2. ~(upto[m - 1] >= goal)
        BY <1>17, <3>1
      <3>3. upto[m - 1] \in Int
        BY <1>14, <1>19, <1>20
      <3> QED
        BY <1>14, <3>2, <3>3
    <2> QED
      BY <2>1, <2>2
  <1>22. left \in Nat /\ left <= lens[m] /\ P(m - 1) + left = P(k) + goal
    <2> DEFINE a == P(m - 1)
               b == P(k)
               c == P(m)
               d == upto[m - 1]
               e == upto[m]
               l == lens[m]
    <2>1. /\ a \in Nat /\ b \in Nat /\ c \in Nat /\ l \in Nat /\ goal \in Nat
          /\ e = c - b /\ d = a - b /\ c = a + l /\ d <= goal /\ e >= goal
      BY <1>14, <1>17, <1>19, <1>20, <1>21
    <2>2. left = goal - d
      OBVIOUS
    <2> HIDE DEF a, b, c, d, e, l, left
    <2>3. left \in Nat /\ left <= l /\ a + left = b + goal
      BY <2>1, <2>2
    <2> QED
      BY <2>3 DEF a, b, l
  <1> HIDE DEF left
  <1>23. Rest(Walk(cl), n) = Rest(W, P(k) + goal)
    <2>1. Rest(Rest(W, P(k) + o), n) = Rest(W, (P(k) + o) + n)
      <3> DEFINE q == P(k) + o
      <3>1. q \in Nat
        BY <1>2
      <3> HIDE DEF q
      <3>2. Rest(Rest(W, q), n) = Rest(W, q + n)
        BY <1>3, <1>9, <3>1, RestOfRest
      <3> QED
        BY <3>2 DEF q
    <2>2. (P(k) + o) + n = P(k) + goal
      BY <1>1, <1>3, <1>14
    <2> QED
      BY <1>2, <2>1, <2>2
  <1>24. \A i \in 0..L, x \in Nat : Rest(Joined(Rest(segs, i)), x) = Rest(W, P(i) + x)
    <2>1. \A i \in 0..Len(segs), x \in Nat :
             Rest(Joined(Rest(segs, i)), x) = Rest(Joined(segs), Passed(segs, i) + x)
      BY <1>0, PlaceInLog
    <2> QED
      BY <2>1 DEF P, W, L
  <1>25. CASE left >= lens[m] /\ m < L
    <2>1. m + 1 \in 1..L /\ (m + 1) - 1 = m /\ 0 \in Nat
      BY <1>0, <1>18, <1>25
    <2>2. Rest(Joined(Rest(segs, m)), 0) = Rest(W, P(m) + 0)
      BY <1>18, <1>24
    <2>3. P(m) + 0 = P(k) + goal
      BY <1>14, <1>19, <1>20, <1>22, <1>25
    <2>4. Rest(Joined(Rest(segs, (m + 1) - 1)), 0) = Rest(Walk(cl), n)
      BY <1>23, <2>1, <2>2, <2>3
    <2>5. Advanced(cl, n) = [seq |-> segs[m + 1].seq, off |-> 0]
      BY <1>4, <1>25
    <2>6. 0 <= Bytes(segs[m + 1])
      <3>1. lens[m + 1] = Bytes(segs[m + 1]) /\ lens[m + 1] \in Nat
        BY <1>6, <2>1
      <3> QED
        BY <3>1
    <2> QED
      BY <2>1, <2>4, <2>5, <2>6 DEF segs, L
  <1>26. CASE ~(left >= lens[m] /\ m < L)
    <2>1. Rest(Joined(Rest(segs, m - 1)), left) = Rest(W, P(m - 1) + left)
      BY <1>18, <1>22, <1>24
    <2>2. Rest(Joined(Rest(segs, m - 1)), left) = Rest(Walk(cl), n)
      BY <1>22, <1>23, <2>1
    <2>3. Advanced(cl, n) = [seq |-> segs[m].seq, off |-> left]
      BY <1>4, <1>26
    <2>4. left <= Bytes(segs[m])
      BY <1>6, <1>18, <1>22
    <2> QED
      BY <1>18, <1>22, <2>2, <2>3, <2>4 DEF segs, L
  <1> QED
    BY <1>25, <1>26

\* The segments from the number of one of them on.
LEMMA FromSegment ==
  ASSUME NEW segs, NEW next, SoundSegs(segs, next), NEW i \in 1..Len(segs)
  PROVE  From(segs, segs[i].seq) = Rest(segs, i - 1)
  <1>1. segs \in Seq(Segment) /\ Len(segs) \in Nat /\ i \in Nat
    BY DEF SoundSegs
  <1>2. \A j \in 1..Len(segs) : segs[j].seq \in Nat
    <2>1. \A j \in 1..Len(segs) : segs[j] \in Segment
      BY <1>1
    <2> QED
      BY <2>1 DEF Segment
  <1>3. PICK k \in 0..Len(segs) :
           /\ From(segs, segs[i].seq) = Rest(segs, k)
           /\ \A j \in 1..Len(segs) : j > k <=> segs[j].seq >= segs[i].seq
    BY <1>2, FromIsRest
  <1>4. i > k
    BY <1>2, <1>3
  <1>5. ~(i - 1 > k)
    <2> SUFFICES ASSUME i - 1 > k PROVE FALSE
      OBVIOUS
    <2>1. i - 1 \in 1..Len(segs) /\ i - 1 < i
      BY <1>1
    <2>2. segs[i - 1].seq < segs[i].seq
      BY <2>1 DEF SoundSegs
    <2>3. segs[i - 1].seq >= segs[i].seq
      BY <1>3, <2>1
    <2> QED
      BY <1>2, <2>1, <2>2, <2>3
  <1>6. k = i - 1
    BY <1>1, <1>4, <1>5
  <1> QED
    BY <1>3, <1>6

\* The log of a class, what the cursor has passed included.
Whole(cl) == Joined(cl.segs)

\* The segments from one on hold the end of the log.
LEMMA WholeOfRest ==
  ASSUME NEW s \in Seq(Segment), NEW k \in 0..Len(s)
  PROVE  IsRest(Joined(Rest(s, k)), Joined(s))
  <1>1. Rest(Joined(Rest(s, k)), 0) = Rest(Joined(s), Passed(s, k) + 0)
    BY PlaceInLog
  <1>2. Joined(Rest(s, k)) \in Seq(Record) /\ Passed(s, k) \in Nat
    BY SegmentsLeft, FirstSegments
  <1>3. Rest(Joined(Rest(s, k)), 0) = Joined(Rest(s, k))
    BY <1>2, RestOfAll
  <1>4. Passed(s, k) + 0 \in Nat
    BY <1>2
  <1> QED
    BY <1>1, <1>3, <1>4 DEF IsRest

LEMMA WholeOfSound ==
  ASSUME NEW cl, SoundClass(cl)
  PROVE  Whole(cl) \in Seq(Record)
  BY JoinedType DEF Whole, SoundClass, SoundSegs

LEMMA EvictedWhole ==
  ASSUME NEW cl, SoundClass(cl), cl.segs # <<>>
  PROVE  IsRest(Whole(EvictOldest(cl)), Whole(cl))
  <1>1. cl.segs \in Seq(Segment) /\ 1 \in 0..Len(cl.segs)
    <2>1. cl.segs \in Seq(Segment)
      BY DEF SoundClass, SoundSegs
    <2> QED
      BY <2>1
  <1>2. EvictOldest(cl).segs = Tail(cl.segs)
    BY DEF EvictOldest, SoundClass, ClassLog
  <1>3. Tail(cl.segs) = Rest(cl.segs, 1)
    BY <1>1 DEF Rest
  <1> QED
    BY <1>1, <1>2, <1>3, WholeOfRest DEF Whole

LEMMA CommittedSound ==
  ASSUME NEW cl, SoundClass(cl), cl.segs # <<>>, NEW n \in Nat
  PROVE  /\ SoundClass(Committed(cl, n)) /\ IsRest(Walk(Committed(cl, n)), Walk(cl))
         /\ Walk(Committed(cl, n)) = Rest(Walk(cl), Min({n, Len(Walk(cl))}))
         /\ IsRest(Whole(Committed(cl, n)), Whole(cl))
  <1> DEFINE w == Len(Walk(cl))
             c == Min({n, w})
             to == Advanced(cl, c)
             full == Synced(cl)
             t == full.segs
             L == Len(cl.segs)
             b == [full EXCEPT !.cursor = to, !.saved = to]
             new == [b EXCEPT !.segs = From(t, to.seq)]
  <1>1. /\ SoundClass(full) /\ full \in ClassLog /\ SoundSegs(t, full.nextSeq)
        /\ t \in Seq(Segment) /\ 1 <= full.nextSeq
    BY SyncedSound DEF SoundClass, SoundSegs
  <1>2. cl \in ClassLog /\ cl.segs \in Seq(Segment) /\ L \in Nat
    BY DEF SoundClass, SoundSegs
  <1>3. Len(t) = L /\ \A i \in 1..L : t[i].seq = cl.segs[i].seq /\ t[i].recs = cl.segs[i].recs
    BY <1>2, SyncedSegs
  <1>4. w \in Nat
    <2>1. Walk(cl) \in Seq(Record)
      BY WalkOfSound
    <2> QED
      BY <2>1
  <1>5. c \in 0..w
    <2> HIDE DEF w
    <2>1. {n, w} \subseteq Nat /\ {n, w} # {}
      BY <1>4
    <2>2. c \in {n, w} /\ \A y \in {n, w} : c <= y
      BY <2>1, LeastIsIn
    <2> HIDE DEF c
    <2> QED
      BY <1>4, <2>2
  <1> HIDE DEF c
  <1>6. PICK i \in 1..L, off \in Nat :
           /\ to = [seq |-> cl.segs[i].seq, off |-> off]
           /\ off <= Bytes(cl.segs[i])
           /\ Rest(Joined(Rest(cl.segs, i - 1)), off) = Rest(Walk(cl), c)
    BY <1>5, AdvancedPlace
  <1>7. Committed(cl, n) = new
    <2> HIDE DEF full
    <2>1. Committed(cl, n) = GcConsumed(b)
      BY DEF Committed, c, full
    <2>2. b.segs = t /\ b.cursor = to
      BY <1>1 DEF ClassLog
    <2> HIDE DEF b, to, t
    <2> QED
      BY <2>1, <2>2 DEF GcConsumed
  <1> HIDE DEF to, full
  <1>8. /\ to.seq = t[i].seq /\ to.off = off /\ off <= Bytes(t[i]) /\ to \in Cursors
        /\ t[i] \in Segment
    <2>1. t[i] \in Segment
      BY <1>1, <1>3
    <2>2. t[i].seq = cl.segs[i].seq /\ Bytes(t[i]) = Bytes(cl.segs[i])
      BY <1>3 DEF Bytes
    <2>3. t[i].seq \in Nat
      BY <2>1 DEF Segment
    <2> HIDE DEF t
    <2> QED
      BY <1>6, <2>1, <2>2, <2>3 DEF Cursors
  <1> HIDE DEF t
  <1>9. From(t, to.seq) = Rest(t, i - 1)
    <2>1. i \in 1..Len(t)
      BY <1>3
    <2> QED
      BY <1>1, <1>8, <2>1, FromSegment
  <1> DEFINE u == Rest(t, i - 1)
  <1>10. i - 1 \in 0..Len(t) /\ 1 \in 1..(Len(t) - (i - 1)) /\ (i - 1) + 1 = i /\ i - 1 \in 0..L
    BY <1>2, <1>3
  <1>11. u \in Seq(Segment) /\ Len(u) = Len(t) - (i - 1) /\ u[1] = t[i]
    <2>1. \A j \in 1..(Len(t) - (i - 1)) : u[j] = t[(i - 1) + j]
      BY <1>1, <1>10, SegmentsLeft
    <2>2. u \in Seq(Segment) /\ Len(u) = Len(t) - (i - 1)
      BY <1>1, <1>10, SegmentsLeft
    <2> QED
      BY <1>10, <2>1, <2>2
  <1>12. SoundSegs(u, full.nextSeq)
    BY <1>1, <1>10, SoundRest
  <1> HIDE DEF u
  <1>13. /\ new.segs = u /\ new.cursor = to /\ new.saved = to /\ new.nextSeq = full.nextSeq
         /\ new \in ClassLog
    <2>1. new = [full EXCEPT !.cursor = to, !.saved = to, !.segs = u]
      BY <1>1, <1>9 DEF ClassLog, u
    <2> HIDE DEF new
    <2> QED
      BY <1>1, <1>8, <1>11, <2>1 DEF ClassLog
  <1> HIDE DEF new
  <1>14. 1 \in 1..Len(u) /\ 0 \in 0..(Len(u) - 1) /\ 0 + 1 = 1
    BY <1>2, <1>3, <1>10, <1>11
  <1>15. Starts(new, 0, off)
    <2>1. new.segs[0 + 1].seq = new.cursor.seq /\ new.cursor.off <= Bytes(new.segs[0 + 1])
          /\ new.cursor.off = off
      BY <1>8, <1>11, <1>13, <1>14
    <2>2. 0 \in 0..(Len(new.segs) - 1) /\ SoundSegs(new.segs, new.nextSeq) /\ new \in ClassLog
      BY <1>12, <1>13, <1>14
    <2>3. Starts(new, 0, new.cursor.off)
      BY <2>1, <2>2, StartsIn
    <2> QED
      BY <2>1, <2>3
  <1>16. InSegment(u, to)
    BY <1>8, <1>11, <1>14 DEF InSegment
  <1>17. Filed(new)
    <2>1. off <= off
      BY <1>6
    <2> QED
      BY <1>8, <1>13, <2>1 DEF Filed
  <1>18. SoundClass(new)
    BY <1>1, <1>12, <1>13, <1>16, <1>17 DEF SoundClass
  <1>19. Walk(new) = Rest(Walk(cl), c)
    <2>1. Walk(new) = Rest(Joined(Rest(u, 0)), off)
      BY <1>13, <1>15, WalkIsRest
    <2>2. Rest(u, 0) = u
      BY <1>11, RestOfAll
    <2>3. Joined(u) = Joined(Rest(cl.segs, i - 1))
      BY <1>1, <1>2, <1>3, <1>10, RestAlike DEF u
    <2> QED
      BY <1>6, <2>1, <2>2, <2>3
  <1>20. c \in Nat
    BY <1>4, <1>5
  <1>21. IsRest(Walk(new), Walk(cl))
    BY <1>19, <1>20 DEF IsRest
  <1>22. IsRest(Joined(new.segs), Joined(cl.segs))
    <2>1. IsRest(Joined(Rest(t, i - 1)), Joined(t))
      BY <1>1, <1>10, WholeOfRest
    <2>2. Joined(t) = Joined(cl.segs)
      BY <1>1, <1>2, <1>3, JoinedAlike
    <2> QED
      BY <1>13, <2>1, <2>2 DEF u
  <1>23. Walk(new) = Rest(Walk(cl), Min({n, Len(Walk(cl))}))
    BY <1>19 DEF c, w
  <1> QED
    BY <1>7, <1>18, <1>21, <1>22, <1>23 DEF Whole

\* A piece of a sequence's beginning, seen from a later element of it.
LEMMA PieceOf ==
  ASSUME NEW S, NEW w \in Seq(S), NEW q \in 0..Len(w), NEW m \in 0..Len(w), NEW p \in Nat,
         p >= q \/ p >= m
  PROVE  \E i \in 1..Len(Rest(w, q)) + 1, j \in 0..Len(Rest(w, q)) :
            Rest(SubSeq(w, 1, m), p) = SubSeq(Rest(w, q), i, j)
  <1> DEFINE h == SubSeq(w, 1, m)
             a == Rest(w, q)
             L == Len(w)
  <1>1. L \in Nat /\ q \in Nat /\ m \in Nat /\ q <= L /\ m <= L /\ \A i \in 1..L : w[i] \in S
    OBVIOUS
  <1>2. h \in Seq(S) /\ Len(h) = m /\ \A i \in 1..m : h[i] = w[i]
    BY <1>1
  <1>3. a \in Seq(S) /\ Len(a) = L - q /\ \A i \in 1..(L - q) : a[i] = w[q + i]
    BY <1>1, RestProperties
  <1> HIDE DEF h, a, L
  <1>4. CASE p >= m
    <2>1. Rest(h, p) = <<>>
      BY <1>2, <1>4, RestOfAll
    <2>2. SubSeq(a, 1, 0) = <<>>
      BY SubSeqEmpty
    <2>3. 1 \in 1..Len(a) + 1 /\ 0 \in 0..Len(a)
      BY <1>1, <1>3
    <2> QED
      BY <2>1, <2>2, <2>3 DEF h, a
  <1>5. CASE ~(p >= m)
    <2> DEFINE i == (p - q) + 1
               j == m - q
               x == Rest(h, p)
               y == SubSeq(a, i, j)
    <2>1. /\ i \in 1..Len(a) + 1 /\ j \in 0..Len(a) /\ i <= j /\ i \in Int /\ j \in Int
          /\ j - i + 1 = m - p /\ p < m /\ \A e \in i..j : e \in 1..Len(a)
      BY <1>1, <1>3, <1>5
    <2>2. /\ x \in Seq(S) /\ Len(x) = m - p
          /\ \A e \in 1..(m - p) : x[e] = h[p + e]
      <3>1. /\ x \in Seq(S) /\ Len(x) = IF p <= Len(h) THEN Len(h) - p ELSE 0
            /\ \A e \in 1..(Len(h) - p) : x[e] = h[p + e]
        BY <1>2, RestProperties
      <3>2. p <= m
        BY <1>1, <2>1
      <3> HIDE DEF x
      <3> QED
        BY <1>2, <3>1, <3>2
    <2>3. /\ y \in Seq(S) /\ Len(y) = m - p
          /\ \A e \in 1..(m - p) : y[e] = a[i + e - 1]
      <3>1. \A e \in i..j : a[e] \in S
        BY <1>3, <2>1
      <3> HIDE DEF i, j
      <3>2. /\ y \in Seq(S) /\ Len(y) = IF i <= j THEN j - i + 1 ELSE 0
            /\ \A e \in 1..(j - i + 1) : y[e] = a[i + e - 1]
        BY <2>1, <3>1, SubSeqProperties
      <3> HIDE DEF y
      <3> QED
        BY <2>1, <3>2
    <2> HIDE DEF x, y
    <2>4. \A e \in 1..Len(x) : x[e] = y[e]
      <3> TAKE e \in 1..Len(x)
      <3>1. /\ e \in 1..(m - p) /\ p + e \in 1..m /\ i + e - 1 \in 1..(L - q)
            /\ q + (i + e - 1) = p + e
        BY <1>1, <1>5, <2>1, <2>2, SMTT(60)
      <3> HIDE DEF i
      <3>2. x[e] = h[p + e] /\ y[e] = a[i + e - 1]
        BY <2>2, <2>3, <3>1
      <3>3. h[p + e] = w[p + e] /\ a[i + e - 1] = w[q + (i + e - 1)]
        BY <1>2, <1>3, <3>1
      <3> QED
        BY <3>1, <3>2, <3>3
    <2>5. x = y
      BY <2>2, <2>3, <2>4, SeqEqual
    <2> QED
      BY <2>1, <2>5 DEF x, y, h, a
  <1> QED
    BY <1>4, <1>5

\* What a crash may leave of a class: kept[i] records of segment i.
KeptOf(cl, kept) ==
    \A i \in 1..Len(cl.segs) : kept[i] \in cl.segs[i].synced..Bytes(cl.segs[i])

LEMMA DiskSegments ==
  ASSUME NEW cl, SoundClass(cl), NEW kept, KeptOf(cl, kept)
  PROVE  LET d == OnDisk(cl, kept)
             L == Len(cl.segs)
         IN  /\ d \in Seq(Segment) /\ Len(d) = L
             /\ \A i \in 1..L : d[i].seq = cl.segs[i].seq /\ d[i].synced = Bytes(d[i])
             /\ \A i \in 1..(L - 1) : d[i].recs = cl.segs[i].recs
             /\ \A i \in 1..L : d[i].recs = SubSeq(cl.segs[i].recs, 1, kept[i])
             /\ \A i \in 1..L : kept[i] \in 0..Bytes(cl.segs[i])
  <1> DEFINE d == OnDisk(cl, kept)
             L == Len(cl.segs)
             cut(i) == [cl.segs[i] EXCEPT !.recs = SubSeq(@, 1, kept[i]), !.synced = kept[i]]
  <1>1. /\ cl.segs \in Seq(Segment) /\ L \in Nat /\ DOMAIN cl.segs = 1..L
        /\ \A i \in 1..L : cl.segs[i] \in Segment
        /\ \A i \in 1..(L - 1) : cl.segs[i].synced = Bytes(cl.segs[i]) /\ i \in 1..L
    <2>1. cl.segs \in Seq(Segment) /\ \A i \in 1..(L - 1) : cl.segs[i].synced = Bytes(cl.segs[i])
      BY DEF SoundClass, SoundSegs
    <2>2. L \in Nat /\ DOMAIN cl.segs = 1..L /\ \A i \in 1..L : cl.segs[i] \in Segment
      BY <2>1
    <2>3. \A i \in 1..(L - 1) : i \in 1..L
      BY <2>2
    <2> QED
      BY <2>1, <2>2, <2>3
  <1>2. d = [i \in 1..L |-> cut(i)]
    BY <1>1 DEF OnDisk
  <1>3. ASSUME NEW i \in 1..L
        PROVE  /\ cut(i) \in Segment /\ cut(i).seq = cl.segs[i].seq /\ cut(i).synced = Bytes(cut(i))
               /\ cut(i).recs = SubSeq(cl.segs[i].recs, 1, kept[i])
               /\ kept[i] \in 0..Bytes(cl.segs[i])
               /\ kept[i] = Bytes(cl.segs[i]) => cut(i).recs = cl.segs[i].recs
    <2> DEFINE g == cl.segs[i]
               x == kept[i]
    <2>1. g \in Segment /\ g.recs \in Seq(Record) /\ g.synced \in Nat /\ Len(g.recs) \in Nat
      BY <1>1 DEF Segment
    <2>2. x \in 0..Len(g.recs)
      BY <2>1 DEF KeptOf, Bytes
    <2> DEFINE recs == SubSeq(g.recs, 1, x)
    <2> HIDE DEF g, x
    <2>3. recs \in Seq(Record) /\ Len(recs) = x
      <3>1. \A e \in 1..x : g.recs[e] \in Record
        BY <2>1, <2>2
      <3>2. x \in Int /\ x \in Nat
        BY <2>1, <2>2
      <3>3. recs \in Seq(Record) /\ Len(recs) = IF 1 <= x THEN x - 1 + 1 ELSE 0
        BY <3>1, <3>2, SubSeqProperties
      <3> QED
        BY <3>2, <3>3
    <2>4. x = Len(g.recs) => recs = g.recs
      BY <2>1, SubSeqFull
    <2> HIDE DEF recs
    <2> DEFINE e == [g EXCEPT !.recs = recs, !.synced = x]
    <2>5. e \in Segment /\ e.seq = g.seq /\ e.recs = recs /\ e.synced = x
      <3>1. x \in Nat
        BY <2>1, <2>2
      <3>2. g \in Segment /\ recs \in Seq(Record)
        BY <2>1, <2>3
      <3> QED
        BY <3>1, <3>2 DEF Segment
    <2>6. cut(i) = e
      BY DEF g, x, recs
    <2> HIDE DEF e
    <2>7. e.synced = Bytes(e)
      BY <2>3, <2>5 DEF Bytes
    <2>8. x = Bytes(g) => e.recs = g.recs
      BY <2>4, <2>5 DEF Bytes
    <2>9. x \in 0..Bytes(g) /\ e.recs = SubSeq(g.recs, 1, x)
      BY <2>2, <2>5 DEF Bytes, recs
    <2> HIDE DEF cut
    <2> QED
      BY <2>5, <2>6, <2>7, <2>8, <2>9 DEF g, x
  <1> HIDE DEF cut, d
  <1>4. d \in [1..L -> Segment] /\ \A i \in 1..L : d[i] = cut(i)
    BY <1>2, <1>3
  <1>5. d \in Seq(Segment) /\ Len(d) = L
    <2> HIDE DEF L
    <2> QED
      BY <1>1, <1>4, FunctionIsSeq
  <1>6. ASSUME NEW i \in 1..(L - 1) PROVE d[i].recs = cl.segs[i].recs
    <2>1. i \in 1..L /\ kept[i] \in Bytes(cl.segs[i])..Bytes(cl.segs[i])
      BY <1>1 DEF KeptOf
    <2>2. Bytes(cl.segs[i]) \in Nat
      BY <1>1, <2>1, BytesAreCounted
    <2>3. kept[i] = Bytes(cl.segs[i])
      BY <2>1, <2>2
    <2> QED
      BY <1>3, <1>4, <2>1, <2>3
  <1>7. \A i \in 1..L : /\ d[i].seq = cl.segs[i].seq /\ d[i].synced = Bytes(d[i])
                        /\ d[i].recs = SubSeq(cl.segs[i].recs, 1, kept[i])
                        /\ kept[i] \in 0..Bytes(cl.segs[i])
    BY <1>3, <1>4
  <1> QED
    BY <1>5, <1>6, <1>7 DEF d

LEMMA BeginningOfConcat ==
  ASSUME NEW S, NEW x \in Seq(S), NEW y \in Seq(S), NEW e \in 0..Len(y)
  PROVE  /\ x \o SubSeq(y, 1, e) = SubSeq(x \o y, 1, Len(x) + e)
         /\ Len(x) + e \in 0..Len(x \o y)
  <1> DEFINE u == x \o y
             v == SubSeq(y, 1, e)
             a == x \o v
             b == SubSeq(u, 1, Len(x) + e)
  <1>1. Len(x) \in Nat /\ Len(y) \in Nat /\ e \in Nat /\ e <= Len(y)
    OBVIOUS
  <1>2. /\ u \in Seq(S) /\ Len(u) = Len(x) + Len(y)
        /\ \A i \in 1..(Len(x) + Len(y)) : u[i] = IF i <= Len(x) THEN x[i] ELSE y[i - Len(x)]
    BY ConcatProperties
  <1>3. v \in Seq(S) /\ Len(v) = e /\ \A i \in 1..e : v[i] = y[i]
    <2>1. \A i \in 1..e : y[i] \in S
      OBVIOUS
    <2> QED
      BY <1>1, <2>1
  <1> HIDE DEF u, v
  <1>4. /\ a \in Seq(S) /\ Len(a) = Len(x) + e
        /\ \A i \in 1..(Len(x) + e) : a[i] = IF i <= Len(x) THEN x[i] ELSE v[i - Len(x)]
    <2>1. /\ a \in Seq(S) /\ Len(a) = Len(x) + Len(v)
          /\ \A i \in 1..(Len(x) + Len(v)) : a[i] = IF i <= Len(x) THEN x[i] ELSE v[i - Len(x)]
      BY <1>3, ConcatProperties
    <2> HIDE DEF a
    <2> QED
      BY <1>3, <2>1
  <1>5. /\ b \in Seq(S) /\ Len(b) = Len(x) + e /\ \A i \in 1..(Len(x) + e) : b[i] = u[i]
    <2> DEFINE n == Len(x) + e
    <2>1. n \in Nat /\ n \in Int /\ 1 \in Int /\ \A i \in 1..n : u[i] \in S
      BY <1>1, <1>2
    <2> HIDE DEF n
    <2>2. /\ SubSeq(u, 1, n) \in Seq(S) /\ Len(SubSeq(u, 1, n)) = IF 1 <= n THEN n - 1 + 1 ELSE 0
          /\ \A i \in 1..n - 1 + 1 : SubSeq(u, 1, n)[i] = u[1 + i - 1]
      BY <2>1, SubSeqProperties
    <2>3. \A i \in 1..n : i \in 1..n - 1 + 1 /\ 1 + i - 1 = i
      BY <2>1
    <2>4. \A i \in 1..n : SubSeq(u, 1, n)[i] = u[i]
      BY <2>2, <2>3
    <2>5. Len(SubSeq(u, 1, n)) = n
      BY <2>1, <2>2
    <2> QED
      BY <2>2, <2>4, <2>5 DEF n
  <1> HIDE DEF a, b
  <1>6. ASSUME NEW i \in 1..Len(a) PROVE a[i] = b[i]
    <2>1. i \in 1..(Len(x) + e) /\ i \in 1..(Len(x) + Len(y))
      BY <1>1, <1>4
    <2>2. a[i] = (IF i <= Len(x) THEN x[i] ELSE v[i - Len(x)]) /\ b[i] = u[i]
          /\ u[i] = IF i <= Len(x) THEN x[i] ELSE y[i - Len(x)]
      BY <1>2, <1>4, <1>5, <2>1
    <2>3. ~(i <= Len(x)) => v[i - Len(x)] = y[i - Len(x)]
      <3>1. ~(i <= Len(x)) => i - Len(x) \in 1..e
        BY <1>1, <2>1
      <3> QED
        BY <1>3, <3>1
    <2> QED
      BY <2>2, <2>3
  <1>7. a = b
    BY <1>4, <1>5, <1>6, SeqEqual
  <1>8. Len(x) + e \in 0..Len(u)
    BY <1>1, <1>2
  <1> QED
    BY <1>7, <1>8 DEF a, b, u, v

LEMMA DiskJoined ==
  ASSUME NEW cl, SoundClass(cl), NEW kept, KeptOf(cl, kept)
  PROVE  LET d == OnDisk(cl, kept)
             m == Len(Joined(d))
             W == Joined(cl.segs)
         IN  /\ m \in 0..Len(W) /\ Joined(d) = SubSeq(W, 1, m)
             /\ \A k \in 0..(Len(cl.segs) - 1) : Passed(d, k) = Passed(cl.segs, k)
  <1> DEFINE d == OnDisk(cl, kept)
             L == Len(cl.segs)
             W == Joined(cl.segs)
             rec == cl.segs[L].recs
             x == Joined(SubSeq(cl.segs, 1, L - 1))
  <1>1. /\ d \in Seq(Segment) /\ Len(d) = L
        /\ \A i \in 1..(L - 1) : d[i].recs = cl.segs[i].recs
        /\ \A i \in 1..L : d[i].recs = SubSeq(cl.segs[i].recs, 1, kept[i])
        /\ \A i \in 1..L : kept[i] \in 0..Bytes(cl.segs[i])
    BY DiskSegments
  <1> HIDE DEF d
  <1>2. cl.segs \in Seq(Segment) /\ L \in Nat
    BY DEF SoundClass, SoundSegs
  <1>3. ASSUME NEW k \in 0..(L - 1)
        PROVE  Joined(SubSeq(d, 1, k)) = Joined(SubSeq(cl.segs, 1, k))
    <2> DEFINE f == SubSeq(d, 1, k)
               g == SubSeq(cl.segs, 1, k)
    <2>1. k \in 0..Len(d) /\ k \in 0..L /\ \A i \in 1..k : i \in 1..(L - 1)
      BY <1>1, <1>2
    <2>2. f \in Seq(Segment) /\ Len(f) = k /\ \A i \in 1..k : f[i] = d[i]
      BY <1>1, <2>1, FirstSegments
    <2>3. g \in Seq(Segment) /\ Len(g) = k /\ \A i \in 1..k : g[i] = cl.segs[i]
      BY <1>2, <2>1, FirstSegments
    <2> HIDE DEF f, g
    <2>4. \A i \in 1..Len(f) : f[i].recs = g[i].recs
      BY <1>1, <2>1, <2>2, <2>3
    <2>5. Joined(f) = Joined(g)
      BY <2>2, <2>3, <2>4, JoinedAlike
    <2> QED
      BY <2>5 DEF f, g
  <1>4. \A k \in 0..(L - 1) : Passed(d, k) = Passed(cl.segs, k)
    BY <1>3 DEF Passed
  <1>5. CASE L = 0
    <2>1. d = <<>> /\ cl.segs = <<>>
      BY <1>1, <1>2, <1>5
    <2>2. Joined(d) = <<>> /\ W = <<>>
      BY <2>1, JoinedNone
    <2>3. SubSeq(<<>>, 1, 0) = <<>> /\ Len(<<>>) = 0
      BY SubSeqEmpty
    <2> HIDE DEF W
    <2>4. Len(Joined(d)) \in 0..Len(W) /\ Joined(d) = SubSeq(W, 1, Len(Joined(d)))
      BY <2>2, <2>3
    <2> QED
      BY <1>4, <2>4 DEF d, W
  <1>6. CASE L # 0
    <2>1. L \in 1..L /\ L \in 1..Len(d) /\ L - 1 \in 0..(L - 1)
      BY <1>1, <1>2, <1>6
    <2>2. Joined(SubSeq(cl.segs, 1, L)) = x \o rec /\ x \in Seq(Record) /\ rec \in Seq(Record)
      BY <1>2, <2>1, JoinedStep
    <2>3. Joined(SubSeq(d, 1, L)) = Joined(SubSeq(d, 1, L - 1)) \o d[L].recs
      BY <1>1, <2>1, JoinedStep
    <2>4. SubSeq(cl.segs, 1, L) = cl.segs /\ SubSeq(d, 1, L) = d
      <3>1. SubSeq(cl.segs, 1, Len(cl.segs)) = cl.segs
        BY <1>2, SubSeqFull
      <3>2. SubSeq(d, 1, Len(d)) = d
        BY <1>1, SubSeqFull
      <3> QED
        BY <1>1, <3>1, <3>2
    <2>5. Joined(SubSeq(d, 1, L - 1)) = x
      BY <1>3, <2>1
    <2> DEFINE e == kept[L]
    <2>6. d[L].recs = SubSeq(rec, 1, e) /\ e \in 0..Len(rec)
      BY <1>1, <2>1 DEF Bytes
    <2>7. W = x \o rec /\ Joined(d) = x \o SubSeq(rec, 1, e)
      BY <2>2, <2>3, <2>4, <2>5, <2>6
    <2> HIDE DEF e, x, rec, W
    <2>8. Joined(d) = SubSeq(W, 1, Len(x) + e) /\ Len(x) + e \in 0..Len(W) /\ W \in Seq(Record)
      BY <2>2, <2>6, <2>7, BeginningOfConcat, ConcatProperties
    <2> DEFINE n == Len(x) + e
    <2>9. n \in 0..Len(W) /\ Joined(d) = SubSeq(W, 1, n)
      BY <2>8
    <2> HIDE DEF n
    <2>10. Len(Joined(d)) = n
      BY <2>8, <2>9
    <2> QED
      BY <1>4, <2>9, <2>10 DEF d, W
  <1> QED
    BY <1>5, <1>6

\* A restart continues where the cursor's file says, or at the oldest segment
\* there is.
LEMMA NormalizedPlace ==
  ASSUME NEW segs, NEW next, SoundSegs(segs, next), segs # <<>>, NEW cur \in Cursors,
         segs[1].seq >= cur.seq
  PROVE  \E x \in Nat :
            /\ NormalizedCursor(cur, segs) = [seq |-> segs[1].seq, off |-> x]
            /\ x <= Bytes(segs[1])
            /\ \/ x = 0
               \/ segs[1].seq = cur.seq /\ x <= cur.off
            /\ segs[1].seq = cur.seq => x = cur.off \/ x = Bytes(segs[1])
  <1>1. /\ segs \in Seq(Segment) /\ Len(segs) \in Nat \ {0} /\ DOMAIN segs = 1..Len(segs)
        /\ 1 \in 1..Len(segs) /\ Head(segs) = segs[1]
        /\ \A i \in 1..Len(segs) : segs[i] \in Segment
    <2>1. segs \in Seq(Segment)
      BY DEF SoundSegs
    <2> QED
      BY <2>1
  <1>2. /\ cur.seq \in Nat /\ cur.off \in Nat /\ segs[1].seq \in Nat /\ Bytes(segs[1]) \in Nat
        /\ cur = [seq |-> cur.seq, off |-> cur.off]
    <2>1. segs[1] \in Segment
      BY <1>1
    <2> QED
      BY <2>1, BytesAreCounted DEF Segment, Cursors
  <1> DEFINE at == {i \in DOMAIN segs : segs[i].seq = cur.seq}
             x == Min({cur.off, Bytes(segs[1])})
  <1>3. CASE cur.seq < segs[1].seq
    <2>1. NormalizedCursor(cur, segs) = [seq |-> segs[1].seq, off |-> 0]
      <3>1. at = {}
        <4> SUFFICES ASSUME NEW i \in 1..Len(segs), segs[i].seq = cur.seq PROVE FALSE
          BY <1>1
        <4>1. 1 < i => segs[1].seq < segs[i].seq
          BY <1>1 DEF SoundSegs
        <4>2. i = 1 \/ 1 < i
          BY <1>1
        <4> QED
          BY <1>2, <1>3, <4>1, <4>2
      <3> DEFINE y == [cur EXCEPT !.off = Min({@, Bytes(segs[Min(at)])})]
                 z == [seq |-> Last(segs).seq, off |-> Bytes(Last(segs))]
      <3>2. ~(cur.seq > Last(segs).seq)
        <4>1. Len(segs) \in 1..Len(segs)
          BY <1>1
        <4>2. 1 < Len(segs) => segs[1].seq < segs[Len(segs)].seq
          BY <1>1, <4>1 DEF SoundSegs
        <4>3. segs[Len(segs)].seq \in Nat
          BY <1>1, <4>1 DEF Segment
        <4>4. Len(segs) = 1 \/ 1 < Len(segs)
          BY <1>1
        <4> QED
          BY <1>2, <1>3, <4>2, <4>3, <4>4 DEF Last
      <3>3. NormalizedCursor(cur, segs) =
              CASE cur.seq < Head(segs).seq -> [seq |-> Head(segs).seq, off |-> 0]
                [] at # {} -> y
                [] cur.seq > Last(segs).seq -> z
                [] OTHER -> [seq |-> Head(segs).seq, off |-> 0]
        BY DEF NormalizedCursor
      <3> HIDE DEF at, y, z
      <3> QED
        BY <1>1, <1>3, <3>1, <3>2, <3>3
    <2>2. segs[1].seq # cur.seq
      BY <1>2, <1>3
    <2> QED
      BY <1>2, <2>1, <2>2
  <1>4. CASE cur.seq = segs[1].seq
    <2>1. at = {1}
      <3>1. ASSUME NEW i \in 1..Len(segs), segs[i].seq = cur.seq PROVE i = 1
        <4>1. 1 < i => segs[1].seq < segs[i].seq
          BY <1>1 DEF SoundSegs
        <4>2. i = 1 \/ 1 < i
          BY <1>1
        <4> QED
          BY <1>2, <1>4, <3>1, <4>1, <4>2
      <3> QED
        BY <1>1, <1>4, <3>1
    <2>2. Min(at) = 1
      <3>1. 1 \in Nat
        OBVIOUS
      <3> QED
        BY <2>1, <3>1, LeastOfOne
    <2>3. x \in {cur.off, Bytes(segs[1])} /\ x <= cur.off /\ x <= Bytes(segs[1])
      <3>1. {cur.off, Bytes(segs[1])} \subseteq Nat /\ {cur.off, Bytes(segs[1])} # {}
        BY <1>2
      <3> QED
        BY <3>1, LeastIsIn
    <2>4. ~(cur.seq < Head(segs).seq) /\ at # {}
      BY <1>1, <1>2, <1>4, <2>1
    <2>5. ~(cur.seq > Last(segs).seq)
      <3>1. Len(segs) \in 1..Len(segs)
        BY <1>1
      <3>2. 1 < Len(segs) => segs[1].seq < segs[Len(segs)].seq
        BY <1>1, <3>1 DEF SoundSegs
      <3>3. segs[Len(segs)].seq \in Nat
        BY <1>1, <3>1 DEF Segment
      <3>4. Len(segs) = 1 \/ 1 < Len(segs)
        BY <1>1
      <3> QED
        BY <1>2, <1>4, <3>2, <3>3, <3>4 DEF Last
    <2> DEFINE y == [cur EXCEPT !.off = Min({@, Bytes(segs[Min(at)])})]
    <2>6. NormalizedCursor(cur, segs) = y
      <3>1. NormalizedCursor(cur, segs) =
              CASE cur.seq < Head(segs).seq -> [seq |-> Head(segs).seq, off |-> 0]
                [] at # {} -> y
                [] cur.seq > Last(segs).seq -> [seq |-> Last(segs).seq, off |-> Bytes(Last(segs))]
                [] OTHER -> [seq |-> Head(segs).seq, off |-> 0]
        BY DEF NormalizedCursor
      <3> HIDE DEF y, at
      <3> QED
        BY <2>4, <2>5, <3>1
    <2>7. y = [seq |-> segs[1].seq, off |-> x]
      <3> HIDE DEF at
      <3>1. y = [cur EXCEPT !.off = x]
        BY <1>2, <2>2
      <3> HIDE DEF y, x
      <3> QED
        BY <1>2, <1>4, <3>1
    <2> HIDE DEF x, y
    <2>8. x \in Nat /\ (x = cur.off \/ x = Bytes(segs[1]))
      BY <1>2, <2>3
    <2> QED
      BY <1>4, <2>3, <2>6, <2>7, <2>8
  <1>5. cur.seq < segs[1].seq \/ cur.seq = segs[1].seq
    BY <1>2
  <1> QED
    BY <1>3, <1>4, <1>5

LEMMA DiskSound ==
  ASSUME NEW cl, SoundClass(cl), NEW kept, KeptOf(cl, kept)
  PROVE  /\ SoundSegs(OnDisk(cl, kept), Recovered(cl, kept).nextSeq)
         /\ Recovered(cl, kept).nextSeq \in Nat \ {0}
  <1> DEFINE d == OnDisk(cl, kept)
             L == Len(cl.segs)
             next == IF cl.segs = <<>> THEN 1 ELSE cl.segs[L].seq + 1
  <1>1. /\ d \in Seq(Segment) /\ Len(d) = L
        /\ \A i \in 1..L : d[i].seq = cl.segs[i].seq /\ d[i].synced = Bytes(d[i])
    BY DiskSegments
  <1> HIDE DEF d
  <1>2. /\ SoundSegs(cl.segs, cl.nextSeq) /\ cl.segs \in Seq(Segment) /\ L \in Nat
        /\ \A i \in 1..L : cl.segs[i] \in Segment /\ cl.segs[i].seq \in Nat
    <2>1. SoundSegs(cl.segs, cl.nextSeq) /\ cl.segs \in Seq(Segment)
      BY DEF SoundClass, SoundSegs
    <2>2. \A i \in 1..L : cl.segs[i] \in Segment
      BY <2>1
    <2> QED
      BY <2>1, <2>2 DEF Segment
  <1>3. Recovered(cl, kept).nextSeq = next
    BY DEF Recovered, Last
  <1>4. next \in Nat \ {0} /\ \A i \in 1..L : cl.segs[i].seq < next
    <2>1. CASE L = 0
      <3>1. cl.segs = <<>>
        BY <1>2, <2>1
      <3> QED
        BY <2>1, <3>1
    <2>2. CASE L # 0
      <3>1. L \in 1..L /\ cl.segs # <<>>
        BY <1>2, <2>2
      <3>2. next = cl.segs[L].seq + 1 /\ cl.segs[L].seq \in Nat
        BY <1>2, <3>1
      <3>3. ASSUME NEW i \in 1..L PROVE cl.segs[i].seq <= cl.segs[L].seq
        <4>1. i < L => cl.segs[i].seq < cl.segs[L].seq
          BY <1>2, <3>1 DEF SoundSegs
        <4>2. i = L \/ i < L
          BY <1>2
        <4>3. cl.segs[i].seq \in Nat /\ cl.segs[L].seq \in Nat
          BY <1>2, <3>1
        <4> QED
          BY <4>1, <4>2, <4>3
      <3> HIDE DEF next
      <3> QED
        BY <1>2, <3>2, <3>3
    <2> QED
      BY <2>1, <2>2
  <1> HIDE DEF next
  <1>5. SoundSegs(d, next)
    <2>1. \A i, j \in 1..L : i < j => d[i].seq < d[j].seq
      BY <1>1, <1>2 DEF SoundSegs
    <2>2. \A i \in 1..L : 1 <= d[i].seq /\ d[i].seq < next
      BY <1>1, <1>2, <1>4 DEF SoundSegs
    <2>3. ASSUME NEW i \in 1..L PROVE d[i].synced <= Bytes(d[i])
      <3>1. d[i] \in Segment
        BY <1>1
      <3>2. Bytes(d[i]) \in Nat
        BY <3>1, BytesAreCounted
      <3> QED
        BY <1>1, <3>2
    <2>4. \A i \in 1..(L - 1) : d[i].synced = Bytes(d[i])
      BY <1>1, <1>2
    <2> QED
      BY <1>1, <2>1, <2>2, <2>3, <2>4 DEF SoundSegs
  <1> QED
    BY <1>3, <1>4, <1>5 DEF d

LEMMA RecoveredSound ==
  ASSUME NEW cl, SoundClass(cl), NEW kept, KeptOf(cl, kept)
  PROVE  /\ SoundClass(Recovered(cl, kept))
         /\ \E i \in 1..Len(Walk(cl)) + 1, j \in 0..Len(Walk(cl)) :
               Walk(Recovered(cl, kept)) = SubSeq(Walk(cl), i, j)
  <1> DEFINE d == OnDisk(cl, kept)
             L == Len(cl.segs)
             W == Joined(cl.segs)
             new == Recovered(cl, kept)
             next == new.nextSeq
             segs == From(d, cl.saved.seq)
             m == Len(Joined(d))
  <1>1. /\ cl \in ClassLog /\ SoundSegs(cl.segs, cl.nextSeq) /\ cl.segs \in Seq(Segment)
        /\ L \in Nat /\ W \in Seq(Record) /\ cl.saved \in Cursors /\ cl.saved.seq \in Nat
        /\ cl.saved.off \in Nat
    <2>1. cl \in ClassLog /\ SoundSegs(cl.segs, cl.nextSeq) /\ cl.segs \in Seq(Segment)
      BY DEF SoundClass, SoundSegs
    <2>2. L \in Nat /\ W \in Seq(Record)
      BY <2>1, JoinedType
    <2>3. cl.saved \in Cursors
      BY <2>1 DEF ClassLog
    <2> QED
      BY <2>1, <2>2, <2>3 DEF Cursors
  <1>2. /\ d \in Seq(Segment) /\ Len(d) = L
        /\ \A i \in 1..L : d[i].seq = cl.segs[i].seq
        /\ \A i \in 1..(L - 1) : d[i].recs = cl.segs[i].recs
    BY DiskSegments
  <1>3. /\ m \in 0..Len(W) /\ Joined(d) = SubSeq(W, 1, m)
        /\ \A k \in 0..(L - 1) : Passed(d, k) = Passed(cl.segs, k)
    BY DiskJoined
  <1>4. SoundSegs(d, next) /\ next \in Nat \ {0}
    BY DiskSound
  <1> HIDE DEF d, m
  <1>5. PICK j \in 0..Len(d) :
           /\ segs = Rest(d, j)
           /\ \A i \in 1..Len(d) : i > j <=> d[i].seq >= cl.saved.seq
    BY <1>1, <1>4, FromIsRest
  <1>6. /\ new.segs = segs /\ new.cursor = NormalizedCursor(cl.saved, segs)
        /\ new.saved = cl.saved
        /\ new = [segs |-> segs, cursor |-> NormalizedCursor(cl.saved, segs),
                  nextSeq |-> next, saved |-> cl.saved]
    BY DEF Recovered, d
  <1> HIDE DEF new, next, segs
  <1>7. /\ segs \in Seq(Segment) /\ Len(segs) = L - j
        /\ \A i \in 1..(L - j) : segs[i] = d[j + i]
    BY <1>2, <1>5, SegmentsLeft
  <1>8. SoundSegs(segs, next)
    BY <1>4, <1>5, SoundRest
  <1>9. PICK k \in 0..L, o \in Nat : Starts(cl, k, o)
    BY WalkStarts DEF SoundClass
  <1> DEFINE q == Passed(cl.segs, k) + o
  <1>10. Walk(cl) = Rest(W, q) /\ q \in 0..Len(W) /\ Walk(cl) \in Seq(Record)
    <2>1. /\ Walk(cl) = Rest(W, q) /\ q \in Nat /\ q <= Len(W) /\ Walk(cl) \in Seq(Record)
      BY <1>1, <1>9, WalkIsRest
    <2> QED
      BY <1>1, <2>1
  <1> HIDE DEF q
  <1>11. CASE segs = <<>>
    <2>1. new.cursor = ZeroCursor
      BY <1>6, <1>11 DEF NormalizedCursor
    <2>2. new \in ClassLog
      <3>1. ZeroCursor \in Cursors
        BY DEF ZeroCursor, Cursors
      <3> QED
        BY <1>1, <1>4, <1>6, <1>7, <2>1, <3>1 DEF ClassLog
    <2>3. new.nextSeq = next
      BY <1>6
    <2>4. SoundClass(new)
      <3>1. 1 <= next
        BY <1>4
      <3> QED
        BY <1>6, <1>8, <2>1, <2>2, <2>3, <3>1 DEF SoundClass, Filed, AtStart
    <2>5. Starts(new, 0, 0)
      BY <1>6, <1>8, <2>1, <2>2, <2>3, StartsUnset
    <2>6. Walk(new) = Rest(Joined(Rest(segs, 0)), 0)
      BY <1>6, <2>2, <2>5, WalkIsRest
    <2>7. Walk(new) = <<>>
      <3>1. Rest(segs, 0) = segs
        BY <1>7, RestOfAll
      <3>2. Joined(segs) = <<>>
        BY <1>11, JoinedNone
      <3>3. <<>> \in Seq({})
        OBVIOUS
      <3>4. Rest(<<>>, 0) = <<>>
        BY <3>3, RestOfAll
      <3> QED
        BY <2>6, <3>1, <3>2, <3>4
    <2>8. SubSeq(Walk(cl), 1, 0) = <<>> /\ 1 \in 1..Len(Walk(cl)) + 1 /\ 0 \in 0..Len(Walk(cl))
      <3>1. SubSeq(Walk(cl), 1, 0) = <<>>
        BY SubSeqEmpty
      <3>2. Len(Walk(cl)) \in Nat
        BY <1>10
      <3> QED
        BY <3>1, <3>2
    <2> QED
      BY <2>4, <2>7, <2>8 DEF new
  <1>12. CASE segs # <<>>
    <2>1. /\ j < L /\ j \in Nat /\ 1 \in 1..(L - j) /\ j + 1 \in 1..L /\ 1 \in 1..Len(segs)
          /\ 0 \in 0..(Len(segs) - 1) /\ 0 + 1 = 1 /\ j \in 0..(L - 1)
          /\ (j + 1) - 1 = j
      <3>1. Len(segs) # 0
        BY <1>7, <1>12
      <3> QED
        BY <1>1, <1>2, <1>5, <1>7, <3>1
    <2>2. segs[1] = d[j + 1] /\ d[j + 1].seq = cl.segs[j + 1].seq /\ d[j + 1] \in Segment
      <3>1. d \in Seq(Segment) /\ Len(d) = L /\ j + 1 \in 1..L
        BY <1>2, <2>1
      <3>2. d[j + 1] \in Segment
        BY <3>1
      <3>3. d[j + 1].seq = cl.segs[j + 1].seq
        BY <1>2, <3>1
      <3>4. segs[1] = d[j + 1]
        BY <1>7, <2>1
      <3> QED
        BY <3>2, <3>3, <3>4
    <2>3. segs[1].seq >= cl.saved.seq
      <3>1. j + 1 > j /\ j + 1 \in 1..Len(d)
        BY <1>2, <2>1
      <3> QED
        BY <1>5, <2>2, <3>1
    <2>4. PICK x \in Nat :
            /\ NormalizedCursor(cl.saved, segs) = [seq |-> segs[1].seq, off |-> x]
            /\ x <= Bytes(segs[1])
            /\ \/ x = 0
               \/ segs[1].seq = cl.saved.seq /\ x <= cl.saved.off
            /\ segs[1].seq = cl.saved.seq => x = cl.saved.off \/ x = Bytes(segs[1])
      BY <1>1, <1>8, <1>12, <2>3, NormalizedPlace
    <2>5. new.cursor.seq = segs[1].seq /\ new.cursor.off = x /\ new.cursor \in Cursors
      <3>1. segs[1].seq \in Nat
        BY <2>2 DEF Segment
      <3> QED
        BY <1>6, <2>4, <3>1 DEF Cursors
    <2>6. new \in ClassLog /\ new.nextSeq = next
      <3> DEFINE cur == NormalizedCursor(cl.saved, segs)
      <3>1. cur \in Cursors
        BY <1>6, <2>5
      <3> HIDE DEF cur
      <3> QED
        BY <1>1, <1>4, <1>6, <1>7, <3>1 DEF ClassLog, cur
    <2>7. InSegment(new.segs, new.cursor)
      BY <1>6, <2>1, <2>4, <2>5 DEF InSegment
    <2>8. Filed(new)
      <3>1. CASE x = 0
        BY <1>6, <1>12, <2>5, <3>1 DEF Filed, AtStart
      <3>2. CASE segs[1].seq = cl.saved.seq /\ x <= cl.saved.off
        BY <1>6, <2>5, <3>2 DEF Filed
      <3> QED
        BY <2>4, <3>1, <3>2
    <2>9. SoundClass(new)
      <3>1. 1 <= next
        BY <1>4
      <3> QED
        BY <1>6, <1>8, <2>6, <2>7, <2>8, <3>1 DEF SoundClass
    <2>10. Starts(new, 0, x)
      <3>1. /\ 0 \in 0..(Len(new.segs) - 1) /\ new.segs[0 + 1].seq = new.cursor.seq
            /\ new.cursor.off <= Bytes(new.segs[0 + 1]) /\ SoundSegs(new.segs, new.nextSeq)
        BY <1>6, <1>8, <2>1, <2>4, <2>5, <2>6
      <3>2. Starts(new, 0, new.cursor.off)
        BY <2>6, <3>1, StartsIn
      <3> QED
        BY <2>5, <3>2
    <2> DEFINE p == Passed(d, j) + x
    <2>11. Walk(new) = Rest(Joined(d), p)
      <3>1. Walk(new) = Rest(Joined(Rest(segs, 0)), x)
        BY <1>6, <2>6, <2>10, WalkIsRest
      <3>2. Rest(segs, 0) = segs
        BY <1>7, RestOfAll
      <3>3. Rest(Joined(Rest(d, j)), x) = Rest(Joined(d), Passed(d, j) + x)
        BY <1>2, <1>5, <2>4, PlaceInLog
      <3> QED
        BY <1>5, <3>1, <3>2, <3>3
    <2>12. p \in Nat /\ Passed(d, j) \in Nat
      <3>1. Passed(d, j) \in Nat
        BY <1>2, <1>5, FirstSegments
      <3> QED
        BY <2>4, <3>1
    <2>13. p >= q \/ p >= m
      <3>1. CASE AtStart(cl)
        <4>1. k = 0 /\ o = 0
          <5>1. CASE cl.cursor = ZeroCursor
            <6>1. StartIdx(cl) = 1 /\ StartOff(cl) = 0
              BY <1>1, <5>1, StartUnset
            <6>2. StartIdx(cl) = k + 1 /\ StartOff(cl) = o
              BY <1>9 DEF Starts
            <6> QED
              BY <1>1, <1>9, <6>1, <6>2
          <5>2. CASE cl.segs # <<>> /\ cl.cursor.seq = cl.segs[1].seq /\ cl.cursor.off = 0
            <6>1. 1 \in 1..Len(cl.segs)
              BY <2>1
            <6>2. StartIdx(cl) = 1 /\ StartOff(cl) = cl.cursor.off
              BY <1>1, <5>2, <6>1, StartInSegment
            <6>3. StartIdx(cl) = k + 1 /\ StartOff(cl) = o
              BY <1>9 DEF Starts
            <6> QED
              BY <1>1, <1>9, <5>2, <6>2, <6>3
          <5> QED
            BY <3>1, <5>1, <5>2 DEF AtStart
        <4>2. q = 0
          <5>1. Passed(cl.segs, 0) = 0
            BY <1>1, PassedEnds
          <5> QED
            BY <4>1, <5>1 DEF q
        <4> QED
          BY <2>12, <4>2
      <3>2. CASE ~AtStart(cl)
        <4>1. cl.saved.seq = cl.cursor.seq /\ cl.cursor.off <= cl.saved.off
          BY <3>2 DEF SoundClass, Filed
        <4>2. /\ k < L /\ cl.cursor.seq = cl.segs[k + 1].seq /\ cl.cursor.off = o
              /\ o <= Bytes(cl.segs[k + 1])
          BY <1>9, <3>2 DEF Starts, AtStart
        <4>3. k + 1 \in 1..L /\ k + 1 \in 1..Len(d) /\ k \in 0..(L - 1) /\ k \in Nat
          BY <1>1, <1>2, <1>9, <4>2
        <4>4. k = j
          <5>1. \A i \in 1..L : d[i].seq \in Nat
            <6>1. \A i \in 1..L : d[i] \in Segment
              BY <1>2
            <6> QED
              BY <6>1 DEF Segment
          <5>2. d[k + 1].seq = cl.saved.seq /\ d[j + 1].seq >= cl.saved.seq
            BY <1>2, <2>2, <2>3, <4>1, <4>2, <4>3
          <5>3. k + 1 > j
            BY <1>5, <4>3, <5>1, <5>2, SMTT(60)
          <5>4. ~(j + 1 < k + 1)
            <6>1. j + 1 < k + 1 => d[j + 1].seq < d[k + 1].seq
              BY <1>2, <1>4, <2>1, <4>3 DEF SoundSegs
            <6>2. d[j + 1].seq \in Nat /\ d[k + 1].seq \in Nat
              BY <2>1, <4>3, <5>1
            <6> QED
              BY <1>1, <5>2, <6>1, <6>2
          <5> QED
            BY <2>1, <4>3, <5>3, <5>4
        <4>5. segs[1].seq = cl.saved.seq
          BY <1>2, <2>2, <4>1, <4>2, <4>3, <4>4
        <4>6. Passed(d, j) = Passed(cl.segs, k) /\ q = Passed(cl.segs, k) + o
          BY <1>3, <2>1, <4>4 DEF q
        <4>7. CASE x = cl.saved.off
          <5>1. o <= x
            BY <4>1, <4>2, <4>7
          <5> QED
            BY <1>9, <2>4, <2>12, <4>6, <5>1
        <4>8. CASE x = Bytes(segs[1]) /\ j + 1 < L
          <5>1. j + 1 \in 1..(L - 1)
            BY <1>1, <2>1, <4>8
          <5>2. Bytes(segs[1]) = Bytes(cl.segs[k + 1])
            BY <1>2, <2>2, <4>4, <5>1 DEF Bytes
          <5>3. o <= x
            BY <4>2, <4>8, <5>2
          <5> QED
            BY <1>9, <2>4, <2>12, <4>6, <5>3
        <4>9. CASE x = Bytes(segs[1]) /\ ~(j + 1 < L)
          <5>1. j + 1 = L
            BY <1>1, <2>1, <4>9
          <5>2. Passed(d, j + 1) = Passed(d, (j + 1) - 1) + Bytes(d[j + 1])
            <6>1. j + 1 \in 1..Len(d)
              BY <1>2, <2>1
            <6> QED
              BY <1>2, <6>1, PassedStep
          <5>3. Passed(d, Len(d)) = Len(Joined(d))
            BY <1>2, PassedEnds
          <5>4. p = m
            BY <1>2, <2>1, <2>2, <4>9, <5>1, <5>2, <5>3 DEF m
          <5> QED
            BY <2>12, <5>4
        <4> QED
          BY <2>4, <4>5, <4>7, <4>8, <4>9
      <3> QED
        BY <3>1, <3>2
    <2> HIDE DEF p
    <2>14. \E i \in 1..Len(Rest(W, q)) + 1, e \in 0..Len(Rest(W, q)) :
              Rest(SubSeq(W, 1, m), p) = SubSeq(Rest(W, q), i, e)
      <3>1. W \in Seq(Record) /\ m \in 0..Len(W) /\ q \in 0..Len(W) /\ p \in Nat
        BY <1>1, <1>3, <1>10, <2>12
      <3> HIDE DEF W
      <3> QED
        BY <2>13, <3>1, PieceOf
    <2>15. \E i \in 1..Len(Walk(cl)) + 1, e \in 0..Len(Walk(cl)) :
              Walk(new) = SubSeq(Walk(cl), i, e)
      BY <1>3, <1>10, <2>11, <2>14
    <2> QED
      BY <2>9, <2>15 DEF new
  <1> QED
    BY <1>11, <1>12

-----------------------------------------------------------------------------
(* pendingBytes counts the records of the walk.                            *)

\* The offset in segment i at which the walk begins.
FromOff(k, o, i) == IF i = k + 1 THEN o ELSE 0

LEMMA PendingSet ==
  ASSUME NEW cl, SoundClass(cl), NEW k, NEW o, Starts(cl, k, o)
  PROVE  PendingBytes(cl) =
           Cardinality(UNION {{i} \X ((FromOff(k, o, i) + 1)..Bytes(cl.segs[i])) :
                                 i \in (k + 1)..Len(cl.segs)})
  <1> DEFINE L == Len(cl.segs)
             from(seg) == IF seg.seq = cl.cursor.seq THEN cl.cursor.off ELSE 0
             ahead == {i \in DOMAIN cl.segs : cl.segs[i].seq >= cl.cursor.seq}
  <1>1. /\ cl \in ClassLog /\ SoundSegs(cl.segs, cl.nextSeq) /\ cl.segs \in Seq(Segment)
        /\ L \in Nat /\ DOMAIN cl.segs = 1..L
        /\ \A i \in 1..L : cl.segs[i].seq \in Nat
    <2>1. cl \in ClassLog /\ SoundSegs(cl.segs, cl.nextSeq) /\ cl.segs \in Seq(Segment)
      BY DEF SoundClass, SoundSegs
    <2>2. L \in Nat /\ DOMAIN cl.segs = 1..L /\ \A i \in 1..L : cl.segs[i] \in Segment
      BY <2>1
    <2> QED
      BY <2>1, <2>2 DEF Segment
  <1>2. k \in Nat /\ o \in Nat
    BY <1>1 DEF Starts
  <1>3. ahead = (k + 1)..L /\ \A i \in (k + 1)..L : from(cl.segs[i]) = FromOff(k, o, i)
    <2>1. CASE cl.cursor = ZeroCursor /\ k = 0 /\ o = 0
      <3>1. cl.cursor.seq = 0 /\ cl.cursor.off = 0
        BY <2>1 DEF ZeroCursor
      <3>2. \A i \in 1..L : cl.segs[i].seq >= 0
        BY <1>1
      <3>3. ahead = 1..L
        BY <1>1, <3>1, <3>2
      <3>4. \A i \in 1..L : from(cl.segs[i]) = 0
        BY <3>1
      <3> QED
        BY <2>1, <3>3, <3>4 DEF FromOff
    <2>2. CASE k < L /\ cl.cursor.seq = cl.segs[k + 1].seq /\ cl.cursor.off = o
      <3>1. k + 1 \in 1..L
        BY <1>1, <1>2, <2>2
      <3>2. ASSUME NEW i \in 1..L
            PROVE  /\ cl.segs[i].seq >= cl.cursor.seq <=> i \in (k + 1)..L
                   /\ cl.segs[i].seq = cl.cursor.seq <=> i = k + 1
        <4>1. i < k + 1 => cl.segs[i].seq < cl.segs[k + 1].seq
          BY <1>1, <3>1 DEF SoundSegs
        <4>2. k + 1 < i => cl.segs[k + 1].seq < cl.segs[i].seq
          BY <1>1, <3>1 DEF SoundSegs
        <4>3. cl.segs[i].seq \in Nat /\ cl.segs[k + 1].seq \in Nat
          BY <1>1, <3>1
        <4>4. i < k + 1 \/ i = k + 1 \/ k + 1 < i
          BY <1>1, <1>2
        <4> QED
          BY <1>1, <1>2, <2>2, <4>1, <4>2, <4>3, <4>4
      <3>3. ahead = (k + 1)..L
        <4>1. \A i \in (k + 1)..L : i \in 1..L
          BY <1>1, <1>2
        <4> QED
          BY <1>1, <3>2, <4>1
      <3>4. \A i \in (k + 1)..L : from(cl.segs[i]) = FromOff(k, o, i)
        <4>1. \A i \in (k + 1)..L : i \in 1..L
          BY <1>1, <1>2
        <4> QED
          BY <2>2, <3>2, <4>1 DEF FromOff
      <3> QED
        BY <3>3, <3>4
    <2> QED
      BY <2>1, <2>2 DEF Starts
  <1>4. PendingBytes(cl) =
          Cardinality(UNION {{i} \X ((from(cl.segs[i]) + 1)..Bytes(cl.segs[i])) : i \in ahead})
    BY DEF PendingBytes
  <1> HIDE DEF ahead, from
  <1>5. {{i} \X ((from(cl.segs[i]) + 1)..Bytes(cl.segs[i])) : i \in ahead} =
        {{i} \X ((FromOff(k, o, i) + 1)..Bytes(cl.segs[i])) : i \in (k + 1)..L}
    BY <1>3
  <1> QED
    BY <1>4, <1>5

LEMMA PendingIsWalk ==
  ASSUME NEW cl, SoundClass(cl)
  PROVE  PendingBytes(cl) = Len(Walk(cl))
  <1> DEFINE segs == cl.segs
             L == Len(segs)
             W == Joined(segs)
             P(i) == Passed(segs, i)
             N == Len(Walk(cl))
  <1>1. PICK k \in 0..L, o \in Nat : Starts(cl, k, o)
    BY WalkStarts DEF SoundClass
  <1> DEFINE q == P(k) + o
             run(i) == (FromOff(k, o, i) + 1)..Bytes(segs[i])
             S == UNION {{i} \X run(i) : i \in (k + 1)..L}
             g == [e \in S |-> (P(e[1] - 1) + e[2]) - q]
  <1>2. PendingBytes(cl) = Cardinality(S)
    BY <1>1, PendingSet
  <1>3. /\ cl \in ClassLog /\ segs \in Seq(Segment) /\ L \in Nat /\ k \in Nat
        /\ \A i \in 1..L : Bytes(segs[i]) \in Nat
    <2>1. cl \in ClassLog /\ segs \in Seq(Segment)
      BY DEF SoundClass, SoundSegs
    <2>2. L \in Nat /\ k \in Nat /\ \A i \in 1..L : segs[i] \in Segment
      BY <1>1, <2>1
    <2> QED
      BY <2>1, <2>2, BytesAreCounted
  <1>4. /\ N = Len(W) - q /\ q \in Nat /\ q <= Len(W) /\ N \in Nat /\ Len(W) \in Nat
        /\ k < L => o <= Bytes(segs[k + 1])
    <2>1. /\ N = Len(W) - q /\ q \in Nat /\ q <= Len(W) /\ Walk(cl) \in Seq(Record)
      BY <1>1, <1>3, WalkIsRest
    <2>2. W \in Seq(Record)
      BY <1>3, JoinedType
    <2>3. N \in Nat /\ Len(W) \in Nat
      BY <2>1, <2>2
    <2>4. k < L => o <= Bytes(segs[k + 1])
      <3> SUFFICES ASSUME k < L PROVE o <= Bytes(segs[k + 1])
        OBVIOUS
      <3>1. k + 1 \in 1..L
        BY <1>3
      <3>2. Bytes(segs[k + 1]) \in Nat
        BY <1>3, <3>1
      <3> QED
        BY <1>1, <3>2 DEF Starts
    <2> QED
      BY <2>1, <2>3, <2>4
  <1>5. \A i \in 0..L : P(i) \in Nat
    <2> HIDE DEF segs
    <2> QED
      BY <1>3, FirstSegments
  <1>6. \A i \in 1..L : P(i) = P(i - 1) + Bytes(segs[i])
    <2> HIDE DEF segs
    <2> QED
      BY <1>3, PassedStep
  <1>7. P(L) = Len(W)
    <2> HIDE DEF segs
    <2> QED
      BY <1>3, PassedEnds
  <1>8. \A j \in 0..L : \A i \in 0..j : P(i) <= P(j)
    <2> HIDE DEF segs
    <2> QED
      BY <1>3, PassedMonotone
  <1> HIDE DEF segs, W, P, N, L
  <1>9. P(k) \in Nat
    BY <1>1, <1>5
  <1>10. ASSUME NEW e \in S
         PROVE  /\ e = <<e[1], e[2]>> /\ e[1] \in (k + 1)..L /\ e[2] \in run(e[1])
                /\ e[1] \in 1..L /\ e[1] - 1 \in 0..L /\ e[1] \in 0..L /\ e[2] \in Nat
                /\ e[1] \in Nat /\ 1 <= e[2] /\ e[2] <= Bytes(segs[e[1]])
                /\ e[1] = k + 1 => e[2] >= o + 1
    <2>1. PICK i \in (k + 1)..L : e \in {i} \X run(i)
      OBVIOUS
    <2>2. e = <<e[1], e[2]>> /\ e[1] = i /\ e[2] \in run(i)
      BY <2>1
    <2>3. /\ e[1] \in (k + 1)..L /\ e[1] \in 1..L /\ e[1] - 1 \in 0..L /\ e[1] \in 0..L
          /\ e[1] \in Nat /\ Bytes(segs[e[1]]) \in Nat
      BY <1>3, <2>2
    <2>4. e[2] \in Nat /\ 1 <= e[2] /\ e[2] <= Bytes(segs[e[1]]) /\ e[1] = k + 1 => e[2] >= o + 1
      <3>1. FromOff(k, o, i) \in Nat
        BY <1>1 DEF FromOff
      <3>2. e[2] \in (FromOff(k, o, i) + 1)..Bytes(segs[i])
        BY <2>2
      <3>3. e[2] \in Int /\ FromOff(k, o, i) + 1 <= e[2] /\ e[2] <= Bytes(segs[i])
        BY <2>2, <2>3, <3>1, <3>2
      <3>4. i = k + 1 => FromOff(k, o, i) = o
        BY DEF FromOff
      <3> QED
        BY <2>2, <3>1, <3>3, <3>4
    <2>5. e[2] \in Nat /\ 1 <= e[2] /\ e[2] <= Bytes(segs[e[1]]) /\ (e[1] = k + 1 => e[2] >= o + 1)
      <3>1. FromOff(k, o, i) \in Nat
        BY <1>1 DEF FromOff
      <3>2. e[2] \in (FromOff(k, o, i) + 1)..Bytes(segs[i])
        BY <2>2
      <3>3. e[2] \in Int /\ FromOff(k, o, i) + 1 <= e[2] /\ e[2] <= Bytes(segs[i])
        BY <2>2, <2>3, <3>1, <3>2
      <3>4. i = k + 1 => FromOff(k, o, i) = o
        BY DEF FromOff
      <3> QED
        BY <2>2, <3>1, <3>3, <3>4
    <2> QED
      BY <2>2, <2>3, <2>5
  <1>11. ASSUME NEW i \in (k + 1)..L, NEW x \in run(i)
         PROVE  <<i, x>> \in S
    <2>1. <<i, x>> \in {i} \X run(i)
      OBVIOUS
    <2> QED
      BY <2>1
  <1> HIDE DEF S, run
  <1>12. \A e \in S : /\ P(e[1] - 1) + e[2] <= P(e[1]) /\ P(e[1]) <= P(L)
                      /\ q + 1 <= P(e[1] - 1) + e[2]
                      /\ P(e[1] - 1) \in Nat /\ P(e[1]) \in Nat
    <2> TAKE e \in S
    <2> DEFINE i == e[1]
               x == e[2]
    <2>1. /\ i \in (k + 1)..L /\ i \in 1..L /\ i - 1 \in 0..L /\ i \in 0..L /\ x \in Nat
          /\ i \in Nat /\ 1 <= x /\ x <= Bytes(segs[i]) /\ (i = k + 1 => x >= o + 1)
      BY <1>10
    <2> HIDE DEF i, x
    <2>2. P(i) = P(i - 1) + Bytes(segs[i]) /\ P(i) \in Nat /\ P(i - 1) \in Nat
          /\ Bytes(segs[i]) \in Nat
      BY <1>3, <1>5, <1>6, <2>1
    <2>3. P(i - 1) + x <= P(i)
      BY <2>1, <2>2
    <2>4. P(i) <= P(L)
      <3>1. L \in 0..L /\ i \in 0..L
        BY <1>3, <2>1
      <3> QED
        BY <1>8, <3>1
    <2>5. q + 1 <= P(i - 1) + x
      <3>1. CASE i = k + 1
        <4>1. i - 1 = k
          BY <1>3, <3>1
        <4> QED
          BY <1>1, <1>9, <2>1, <3>1, <4>1
      <3>2. CASE i # k + 1
        <4>1. k + 1 \in 1..L /\ k + 1 \in 0..(i - 1) /\ (k + 1) - 1 = k /\ k < L /\ k + 1 \in 0..L
          BY <1>3, <2>1, <3>2
        <4>2. P(k + 1) <= P(i - 1)
          BY <1>8, <2>1, <4>1
        <4>3. P(k + 1) = P(k) + Bytes(segs[k + 1]) /\ Bytes(segs[k + 1]) \in Nat
              /\ o <= Bytes(segs[k + 1]) /\ P(k + 1) \in Nat
          BY <1>3, <1>4, <1>5, <1>6, <4>1
        <4> QED
          BY <1>1, <1>9, <2>1, <2>2, <4>2, <4>3
      <3> QED
        BY <3>1, <3>2
    <2> QED
      BY <2>2, <2>3, <2>4, <2>5 DEF i, x
  <1>13. \A e \in S : g[e] = (P(e[1] - 1) + e[2]) - q /\ g[e] \in 1..N
    <2> TAKE e \in S
    <2>1. g[e] = (P(e[1] - 1) + e[2]) - q
      OBVIOUS
    <2> HIDE DEF g
    <2> DEFINE a == P(e[1] - 1) + e[2]
    <2>2. a <= P(e[1]) /\ P(e[1]) <= P(L) /\ q + 1 <= a /\ a \in Nat /\ P(e[1]) \in Nat
      <3>1. e[2] \in Nat /\ P(e[1] - 1) \in Nat
        BY <1>10, <1>12
      <3> QED
        BY <1>12, <3>1
    <2> HIDE DEF a
    <2>3. a - q \in 1..N
      <3>1. a <= Len(W)
        BY <1>4, <1>7, <2>2
      <3> HIDE DEF q
      <3> QED
        BY <1>4, <2>2, <3>1
    <2> QED
      BY <2>1, <2>3 DEF a
  <1> DEFINE T == 1..N
  <1>14. g \in [S -> T]
    <2>1. g = [e \in S |-> g[e]]
      OBVIOUS
    <2>2. \A e \in S : g[e] \in T
      BY <1>13
    <2> HIDE DEF g, T
    <2> QED
      BY <2>1, <2>2
  <1> HIDE DEF g
  <1>15. ASSUME NEW d \in S, NEW e \in S, g[d] = g[e] PROVE ~(d[1] < e[1])
    <2> SUFFICES ASSUME d[1] < e[1] PROVE FALSE
      OBVIOUS
    <2>1. d[1] \in 0..(e[1] - 1) /\ e[1] - 1 \in 0..L
      BY <1>10, <1>15
    <2>2. P(d[1]) <= P(e[1] - 1)
      BY <1>8, <2>1
    <2>3. P(d[1] - 1) + d[2] <= P(d[1]) /\ P(d[1] - 1) \in Nat /\ P(e[1] - 1) \in Nat
          /\ P(d[1]) \in Nat
      BY <1>12
    <2>4. d[2] \in Nat /\ e[2] \in Nat /\ 1 <= e[2]
      BY <1>10
    <2>5. (P(d[1] - 1) + d[2]) - q = (P(e[1] - 1) + e[2]) - q
      BY <1>13, <1>15
    <2> HIDE DEF q
    <2> QED
      BY <1>4, <2>2, <2>3, <2>4, <2>5
  <1>16. ASSUME NEW d \in S, NEW e \in S, g[d] = g[e] PROVE d = e
    <2>1. ~(d[1] < e[1]) /\ ~(e[1] < d[1])
      BY <1>15, <1>16
    <2>2. d[1] = e[1]
      BY <1>10, <2>1
    <2>3. (P(d[1] - 1) + d[2]) - q = (P(e[1] - 1) + e[2]) - q
      BY <1>13, <1>16
    <2>4. P(d[1] - 1) \in Nat /\ d[2] \in Nat /\ e[2] \in Nat
      BY <1>10, <1>12
    <2>5. d[2] = e[2]
      <3> HIDE DEF q
      <3> QED
        BY <1>4, <2>2, <2>3, <2>4
    <2> QED
      BY <1>10, <2>2, <2>5
  <1>17. ASSUME NEW y \in T PROVE \E e \in S : g[e] = y
    <2> DEFINE z == q + y
               far == {i \in (k + 1)..L : P(i) >= z}
               m == Min(far)
               x == z - P(m - 1)
    <2>1. y \in Nat /\ 1 <= y /\ y <= N /\ z \in Nat /\ z <= P(L) /\ q < z
      <3>1. y \in Nat /\ 1 <= y /\ y <= N
        BY <1>4
      <3> HIDE DEF q
      <3> QED
        BY <1>4, <1>7, <3>1
    <2>2. k < L
      <3>1. L \in 0..L
        BY <1>3
      <3>2. k = L => q = P(L) + o
        OBVIOUS
      <3>3. k = L => ~(q < P(L))
        BY <1>1, <1>9, <3>2
      <3>4. q < P(L)
        <4>1. P(L) \in Nat
          BY <1>5, <3>1
        <4> HIDE DEF q, z
        <4> QED
          BY <1>4, <2>1, <4>1
      <3> QED
        BY <1>1, <1>3, <3>3, <3>4
    <2> HIDE DEF z
    <2>3. far \subseteq Nat /\ far # {}
      <3>1. L \in (k + 1)..L /\ L \in 0..L
        BY <1>3, <2>2
      <3>2. P(L) \in Nat
        BY <1>5, <3>1
      <3>3. L \in far
        BY <2>1, <3>1, <3>2
      <3>4. \A i \in (k + 1)..L : i \in Nat
        BY <1>3
      <3> QED
        BY <3>3, <3>4
    <2>4. m \in far /\ \A i \in far : m <= i
      <3> HIDE DEF far
      <3> QED
        BY <2>3, LeastIsIn
    <2>5. m \in (k + 1)..L /\ P(m) >= z /\ \A i \in (k + 1)..L : P(i) >= z => m <= i
      BY <2>4
    <2> HIDE DEF m, far
    <2>6. m \in 1..L /\ m \in 0..L /\ m - 1 \in 0..L /\ m \in Nat
      BY <1>3, <2>5
    <2>7. /\ P(m) \in Nat /\ P(m - 1) \in Nat /\ P(m) = P(m - 1) + Bytes(segs[m])
          /\ Bytes(segs[m]) \in Nat
      BY <1>3, <1>5, <1>6, <2>6
    <2>8. x >= FromOff(k, o, m) + 1 /\ x \in Int
      <3>1. CASE m = k + 1
        <4>1. m - 1 = k /\ FromOff(k, o, m) = o
          BY <1>3, <3>1 DEF FromOff
        <4>2. z = (P(k) + o) + y
          BY DEF z
        <4> QED
          BY <1>1, <1>9, <2>1, <4>1, <4>2
      <3>2. CASE m # k + 1
        <4>1. m - 1 \in (k + 1)..L /\ ~(m <= m - 1)
          BY <1>3, <2>5, <3>2
        <4>2. ~(P(m - 1) >= z)
          BY <2>5, <4>1
        <4>3. FromOff(k, o, m) = 0
          BY <3>2 DEF FromOff
        <4> QED
          BY <2>1, <2>7, <4>2, <4>3
      <3> QED
        BY <3>1, <3>2
    <2>9. x <= Bytes(segs[m])
      BY <2>1, <2>5, <2>7
    <2>10. x \in run(m)
      <3>1. FromOff(k, o, m) \in Nat
        BY <1>1 DEF FromOff
      <3> HIDE DEF x
      <3> QED
        BY <2>7, <2>8, <2>9, <3>1 DEF run
    <2>11. <<m, x>> \in S
      BY <1>11, <2>5, <2>10
    <2>12. g[<<m, x>>] = (P(m - 1) + x) - q
      <3> DEFINE e == <<m, x>>
      <3>1. e[1] = m /\ e[2] = x
        OBVIOUS
      <3>2. g[e] = (P(e[1] - 1) + e[2]) - q
        BY <1>13, <2>11
      <3> QED
        BY <3>1, <3>2
    <2>13. (P(m - 1) + x) - q = y
      <3>1. z = q + y
        BY DEF z
      <3> HIDE DEF q
      <3> QED
        BY <1>4, <2>1, <2>7, <3>1
    <2> QED
      BY <2>11, <2>12, <2>13
  <1>18. g \in Injection(S, T) /\ g \in Surjection(S, T)
    <2> HIDE DEF T
    <2> QED
      BY <1>14, <1>16, <1>17 DEF Injection, Surjection, IsInjective
  <1>19. IsFiniteSet(T) /\ Cardinality(T) = N
    <2>1. 1 \in Int /\ N \in Int
      BY <1>4
    <2>2. IsFiniteSet(T) /\ Cardinality(T) = IF 1 > N THEN 0 ELSE N - 1 + 1
      BY <2>1, FS_Interval
    <2> HIDE DEF T
    <2> QED
      BY <1>4, <2>2
  <1> HIDE DEF T
  <1>20. Cardinality(S) = N
    BY <1>18, <1>19, FS_Injection
  <1> QED
    BY <1>2, <1>20 DEF N, S, P, L, segs, run
\* A segment closed or recovered whole loses nothing.
LEMMA ClosedSound ==
  ASSUME NEW cl, SoundClass(cl)
  PROVE  /\ SoundClass(Closed(cl)) /\ Walk(Closed(cl)) = Walk(cl)
         /\ KeptOf(Closed(cl), [i \in DOMAIN Closed(cl).segs |-> Bytes(Closed(cl).segs[i])])
  <1> DEFINE full == Synced(cl)
             new == Closed(cl)
             file == IF cl.segs = <<>> THEN full.saved ELSE cl.cursor
  <1>1. /\ SoundClass(full) /\ Walk(full) = Walk(cl)
        /\ \A i \in 1..Len(cl.segs) : full.segs[i].synced = Bytes(full.segs[i])
    BY SyncedSound
  <1>2. cl \in ClassLog /\ SoundSegs(cl.segs, cl.nextSeq) /\ cl.segs \in Seq(Segment)
    BY DEF SoundClass, SoundSegs
  <1>3. full.cursor = cl.cursor /\ full.saved = cl.saved /\ Len(full.segs) = Len(cl.segs)
    <2>1. DOMAIN cl.segs = 1..Len(cl.segs) /\ Len(cl.segs) \in Nat
      BY <1>2
    <2>2. full = [cl EXCEPT !.segs = full.segs] /\ Len(full.segs) = Len(cl.segs)
      BY <1>2, SyncedSegs
    <2> HIDE DEF full
    <2> QED
      BY <1>2, <2>2 DEF ClassLog
  <1>4. new = [full EXCEPT !.saved = file]
    BY DEF Closed
  <1> HIDE DEF full
  <1>5. /\ full \in ClassLog /\ file \in Cursors
        /\ SoundSegs(full.segs, full.nextSeq) /\ 1 <= full.nextSeq
        /\ full.segs \in Seq(Segment)
    <2>1. /\ full \in ClassLog /\ SoundSegs(full.segs, full.nextSeq) /\ 1 <= full.nextSeq
          /\ full.segs \in Seq(Segment)
      BY <1>1 DEF SoundClass, SoundSegs
    <2>2. cl.cursor \in Cursors /\ full.saved \in Cursors
      BY <1>2, <2>1 DEF ClassLog
    <2> QED
      BY <2>1, <2>2
  <1> HIDE DEF file, new
  <1>6. /\ new.segs = full.segs /\ new.cursor = cl.cursor /\ new.nextSeq = full.nextSeq
        /\ new.saved = file /\ new \in ClassLog
    BY <1>3, <1>4, <1>5 DEF ClassLog
  <1>7. Filed(new)
    <2>1. CASE cl.segs = <<>>
      <3>1. file = full.saved
        BY <2>1 DEF file
      <3>2. Filed(full)
        BY <1>1 DEF SoundClass
      <3>3. AtStart(full) => AtStart(new)
        BY <1>3, <1>6 DEF AtStart
      <3> QED
        BY <1>3, <1>6, <3>1, <3>2, <3>3 DEF Filed
    <2>2. CASE cl.segs # <<>>
      <3>1. file = cl.cursor
        BY <2>2 DEF file
      <3>2. cl.cursor.off \in Nat
        BY <1>2 DEF ClassLog, Cursors
      <3> QED
        BY <1>6, <3>1, <3>2 DEF Filed
    <2> QED
      BY <2>1, <2>2
  <1>8. new.cursor = ZeroCursor \/ InSegment(new.segs, new.cursor)
    <2>1. full.cursor = ZeroCursor \/ InSegment(full.segs, full.cursor)
      BY <1>1 DEF SoundClass
    <2> QED
      BY <1>3, <1>6, <2>1
  <1>9. SoundClass(new)
    BY <1>5, <1>6, <1>7, <1>8 DEF SoundClass
  <1>10. Walk(new) = Walk(full)
    <2>1. \A i \in 1..Len(full.segs) : /\ new.segs[i].seq = full.segs[i].seq
                                       /\ new.segs[i].recs = full.segs[i].recs
      BY <1>6
    <2>2. StartIdx(new) = StartIdx(full) /\ StartOff(new) = StartOff(full)
      BY <1>3, <1>6 DEF StartIdx, StartOff
    <2> QED
      BY <1>6, <2>2 DEF Walk
  <1>11. KeptOf(new, [i \in DOMAIN new.segs |-> Bytes(new.segs[i])])
    <2> DEFINE kept == [i \in DOMAIN new.segs |-> Bytes(new.segs[i])]
    <2>1. ASSUME NEW i \in 1..Len(new.segs)
          PROVE  kept[i] \in new.segs[i].synced..Bytes(new.segs[i])
      <3>1. i \in DOMAIN new.segs /\ i \in 1..Len(cl.segs) /\ new.segs[i] \in Segment
        BY <1>3, <1>5, <1>6
      <3>2. kept[i] = Bytes(new.segs[i])
        BY <3>1
      <3>3. new.segs[i].synced = Bytes(new.segs[i]) /\ Bytes(new.segs[i]) \in Nat
        BY <1>1, <1>6, <3>1, BytesAreCounted
      <3> QED
        BY <3>2, <3>3
    <2> HIDE DEF kept
    <2>2. KeptOf(new, kept)
      BY <2>1 DEF KeptOf
    <2> QED
      BY <2>2 DEF kept
  <1> QED
    BY <1>1, <1>9, <1>10, <1>11 DEF new

-----------------------------------------------------------------------------
(* The classes, and the one that is the most or the least important.        *)

SoundSpool(sp) ==
    sp \in [Classes -> ClassLog] /\ \A c \in Classes : SoundClass(sp[c])

LEMMA ClassNumbers ==
  /\ IsFiniteSet(Classes) /\ Cardinality(Classes) - 1 \in Nat
  /\ Classes = 0..(Cardinality(Classes) - 1) /\ Classes \subseteq Nat
  /\ NoClass \notin Classes
  <1>1. IsFiniteSet(Classes) /\ Classes # {} /\ Classes = 0..(Cardinality(Classes) - 1)
    BY SpoolAssumption
  <1>2. Cardinality(Classes) \in Nat
    BY <1>1, FS_CardinalityType
  <1>3. PICK c : c \in Classes
    BY <1>1
  <1>4. c \in 0..(Cardinality(Classes) - 1)
    BY <1>1, <1>3
  <1>5. Cardinality(Classes) - 1 \in Nat
    BY <1>2, <1>4
  <1>6. Classes \subseteq Nat
    BY <1>1, <1>5
  <1> QED
    BY <1>1, <1>5, <1>6 DEF NoClass

LEMMA WalkOfNoSegments ==
  ASSUME NEW cl, SoundClass(cl), cl.segs = <<>>
  PROVE  Walk(cl) = <<>>
  <1>1. cl \in ClassLog /\ <<>> \in Seq(Segment) /\ Len(cl.segs) = 0
    BY DEF SoundClass
  <1>2. PICK k \in 0..Len(cl.segs), o \in Nat : Starts(cl, k, o)
    BY WalkStarts DEF SoundClass
  <1>3. IsRest(Walk(cl), Joined(cl.segs))
    <2>1. /\ Walk(cl) = Rest(Joined(cl.segs), Passed(cl.segs, k) + o)
          /\ Passed(cl.segs, k) + o \in Nat
      BY <1>1, <1>2, WalkIsRest
    <2> QED
      BY <2>1 DEF IsRest
  <1>4. IsRest(Walk(cl), <<>>)
    BY <1>3, JoinedNone
  <1> QED
    BY <1>4, RestOfNone

LEMMA TopIsFirst ==
  ASSUME NEW sp, SoundSpool(sp)
  PROVE  \/ TopClass(sp) = NoClass /\ \A c \in Classes : Walk(sp[c]) = <<>>
         \/ /\ TopClass(sp) \in Classes /\ Walk(sp[TopClass(sp)]) # <<>>
            /\ \A c \in Classes : c < TopClass(sp) => Walk(sp[c]) = <<>>
  <1> DEFINE busy == {c \in Classes : PendingBytes(sp[c]) > 0}
  <1>1. \A c \in Classes : c \in busy <=> Walk(sp[c]) # <<>>
    <2> TAKE c \in Classes
    <2>1. PendingBytes(sp[c]) = Len(Walk(sp[c])) /\ Walk(sp[c]) \in Seq(Record)
      BY PendingIsWalk, WalkOfSound DEF SoundSpool
    <2>2. Len(Walk(sp[c])) \in Nat /\ (Walk(sp[c]) = <<>> <=> Len(Walk(sp[c])) = 0)
      BY <2>1, EmptySeq, LenProperties
    <2> QED
      BY <2>1, <2>2
  <1>2. TopClass(sp) = IF busy = {} THEN NoClass ELSE Min(busy)
    BY DEF TopClass
  <1>3. busy \subseteq Classes /\ Classes \subseteq Nat
    BY ClassNumbers
  <1> HIDE DEF busy
  <1>4. CASE busy = {}
    BY <1>1, <1>2, <1>4
  <1>5. CASE busy # {}
    <2>1. Min(busy) \in busy /\ \A y \in busy : Min(busy) <= y
      <3>1. busy \subseteq Nat
        BY <1>3
      <3> QED
        BY <1>5, <3>1, LeastIsIn
    <2>2. TopClass(sp) = Min(busy)
      BY <1>2, <1>5
    <2>3. TopClass(sp) \in Classes /\ Walk(sp[TopClass(sp)]) # <<>>
      BY <1>1, <1>3, <2>1, <2>2
    <2>4. ASSUME NEW c \in Classes, c < TopClass(sp) PROVE c \notin busy
      <3>1. c \in Nat /\ TopClass(sp) \in Nat
        BY <1>3, <2>3
      <3> QED
        BY <2>1, <2>2, <2>4, <3>1
    <2> QED
      BY <1>1, <2>3, <2>4
  <1> QED
    BY <1>4, <1>5

LEMMA VictimIsLast ==
  ASSUME NEW sp, NEW c \in Classes
  PROVE  \/ /\ VictimClass(sp, c) = NoClass
            /\ \A k \in Classes : k >= c => sp[k].segs = <<>>
         \/ /\ VictimClass(sp, c) \in Classes /\ VictimClass(sp, c) # NoClass
            /\ VictimClass(sp, c) >= c /\ sp[VictimClass(sp, c)].segs # <<>>
            /\ \A k \in Classes : k > VictimClass(sp, c) => sp[k].segs = <<>>
  <1> DEFINE full == {k \in Classes : k >= c /\ sp[k].segs # <<>>}
             v == VictimClass(sp, c)
  <1>1. v = IF full = {} THEN NoClass ELSE Max(full)
    BY DEF VictimClass
  <1>2. /\ full \subseteq 0..(Cardinality(Classes) - 1) /\ Cardinality(Classes) - 1 \in Nat
        /\ Classes \subseteq Nat /\ NoClass \notin Classes
    BY ClassNumbers
  <1>3. CASE full = {}
    BY <1>1, <1>3
  <1>4. CASE full # {}
    <2>1. Max(full) \in full /\ \A y \in full : Max(full) >= y
      <3> HIDE DEF full
      <3> QED
        BY <1>2, <1>4, GreatestIsIn
    <2>2. v = Max(full)
      BY <1>1, <1>4
    <2> HIDE DEF v
    <2>3. v \in Classes /\ v >= c /\ sp[v].segs # <<>>
      BY <2>1, <2>2
    <2>4. ASSUME NEW k \in Classes, k > v PROVE sp[k].segs = <<>>
      <3>1. k \in Nat /\ v \in Nat /\ c \in Nat
        BY <1>2, <2>3
      <3>2. k \notin full
        BY <2>1, <2>2, <2>4, <3>1
      <3>3. k >= c
        BY <2>3, <2>4, <3>1
      <3> QED
        BY <3>2, <3>3
    <2> QED
      BY <1>2, <2>3, <2>4 DEF v
  <1> QED
    BY <1>3, <1>4

-----------------------------------------------------------------------------
(* The eviction loop.                                                       *)

\* Room made for a record of class c: records leave at the heads only, from a
\* class only when every less important one is empty.
Cut(sp, new, c) ==
    /\ \A k \in Classes : IsRest(Walk(new[k]), Walk(sp[k])) /\ IsRest(Whole(new[k]), Whole(sp[k]))
    /\ \A k \in Classes : new[k] # sp[k] =>
          k >= c /\ \A j \in Classes : j > k => new[j].segs = <<>>

Places(sp) == UNION {{k} \X DOMAIN sp[k].segs : k \in Classes}

LEMMA CutNothing ==
  ASSUME NEW sp, SoundSpool(sp), NEW c \in Classes
  PROVE  Cut(sp, sp, c)
  <1>1. ASSUME NEW k \in Classes
        PROVE  IsRest(Walk(sp[k]), Walk(sp[k])) /\ IsRest(Whole(sp[k]), Whole(sp[k]))
    <2>1. Walk(sp[k]) \in Seq(Record) /\ Whole(sp[k]) \in Seq(Record)
      BY WalkOfSound, WholeOfSound DEF SoundSpool
    <2> QED
      BY <2>1, RestReflexive
  <1> QED
    BY <1>1 DEF Cut

LEMMA EvictionCuts ==
  ASSUME NEW sp, SoundSpool(sp), NEW mid, SoundSpool(mid), NEW c \in Classes,
         Cut(sp, mid, c), VictimClass(mid, c) # NoClass
  PROVE  LET new == [mid EXCEPT ![VictimClass(mid, c)] = EvictOldest(@)]
         IN  SoundSpool(new) /\ Cut(sp, new, c)
  <1> DEFINE v == VictimClass(mid, c)
             e == EvictOldest(mid[v])
             new == [mid EXCEPT ![v] = e]
  <1>1. /\ v \in Classes /\ v >= c /\ mid[v].segs # <<>>
        /\ \A k \in Classes : k > v => mid[k].segs = <<>>
    BY VictimIsLast
  <1>2. mid \in [Classes -> ClassLog] /\ \A k \in Classes : SoundClass(mid[k])
    BY DEF SoundSpool
  <1> HIDE DEF v
  <1>3. SoundClass(e) /\ IsRest(Walk(e), Walk(mid[v])) /\ IsRest(Whole(e), Whole(mid[v]))
    BY <1>1, <1>2, EvictOldestSound, EvictedWhole
  <1>4. e \in ClassLog
    BY <1>3 DEF SoundClass
  <1> HIDE DEF e
  <1>5. new \in [Classes -> ClassLog] /\ \A k \in Classes : new[k] = IF k = v THEN e ELSE mid[k]
    BY <1>2, <1>4
  <1> HIDE DEF new
  <1>6. SoundSpool(new)
    BY <1>2, <1>3, <1>5 DEF SoundSpool
  <1>7. ASSUME NEW k \in Classes
        PROVE  IsRest(Walk(new[k]), Walk(sp[k])) /\ IsRest(Whole(new[k]), Whole(sp[k]))
    <2>1. /\ IsRest(Walk(mid[k]), Walk(sp[k])) /\ Walk(sp[k]) \in Seq(Record)
          /\ IsRest(Whole(mid[k]), Whole(sp[k])) /\ Whole(sp[k]) \in Seq(Record)
      BY WalkOfSound, WholeOfSound DEF Cut, SoundSpool
    <2>2. CASE k = v
      <3>1. IsRest(Walk(e), Walk(mid[k])) /\ IsRest(Whole(e), Whole(mid[k])) /\ new[k] = e
        BY <1>3, <1>5, <2>2
      <3> QED
        BY <2>1, <3>1, RestTransitive
    <2>3. CASE k # v
      BY <1>5, <2>1, <2>3
    <2> QED
      BY <2>2, <2>3
  <1>8. ASSUME NEW k \in Classes, new[k] # sp[k]
        PROVE  k >= c /\ \A j \in Classes : j > k => new[j].segs = <<>>
    <2>0. Classes \subseteq Nat
      BY ClassNumbers
    <2>1. CASE k = v
      <3>1. \A j \in Classes : j > k => j # v
        BY <2>0, <2>1
      <3> QED
        BY <1>1, <1>5, <2>1, <3>1
    <2>2. CASE k # v
      <3>1. k >= c /\ \A j \in Classes : j > k => mid[j].segs = <<>>
        <4>1. mid[k] # sp[k]
          BY <1>5, <1>8, <2>2
        <4> QED
          BY <4>1 DEF Cut
      <3>2. \A j \in Classes : j > k => j # v
        BY <1>1, <3>1
      <3> QED
        BY <1>5, <3>1, <3>2
    <2> QED
      BY <2>1, <2>2
  <1>9. Cut(sp, new, c)
    BY <1>7, <1>8 DEF Cut
  <1>10. new = [mid EXCEPT ![VictimClass(mid, c)] = EvictOldest(@)]
    BY <1>1, <1>2 DEF new, e, v
  <1> QED
    BY <1>6, <1>9, <1>10

LEMMA PlacesFinite ==
  ASSUME NEW sp, SoundSpool(sp)
  PROVE  IsFiniteSet(Places(sp)) /\ Cardinality(Places(sp)) \in Nat
  <1> DEFINE row(k) == {k} \X DOMAIN sp[k].segs
             T == {row(k) : k \in Classes}
  <1>1. ASSUME NEW k \in Classes PROVE IsFiniteSet(row(k))
    <2>1. sp[k].segs \in Seq(Segment)
      BY DEF SoundSpool, SoundClass, SoundSegs
    <2>2. DOMAIN sp[k].segs = 1..Len(sp[k].segs) /\ Len(sp[k].segs) \in Nat
      BY <2>1
    <2>3. IsFiniteSet(DOMAIN sp[k].segs)
      BY <2>2, FS_Interval
    <2>4. IsFiniteSet({k})
      BY FS_Singleton
    <2> QED
      BY <2>3, <2>4, FS_Product
  <1>2. IsFiniteSet(T)
    <2>1. IsFiniteSet(Classes)
      BY ClassNumbers
    <2> DEFINE f == [k \in Classes |-> row(k)]
    <2>2. \A k \in Classes : f[k] = row(k)
      OBVIOUS
    <2>3. f \in [Classes -> T] /\ \A rec \in T : \E k \in Classes : f[k] = rec
      OBVIOUS
    <2> HIDE DEF T, f
    <2>4. f \in Surjection(Classes, T)
      BY <2>3 DEF Surjection
    <2> QED
      BY <2>1, <2>4, FS_Surjection
  <1>3. IsFiniteSet(UNION T)
    <2>1. \A rec \in T : IsFiniteSet(rec)
      BY <1>1
    <2> HIDE DEF T
    <2> QED
      BY <1>2, <2>1, FS_UNION
  <1>4. IsFiniteSet(Places(sp))
    BY <1>3 DEF Places
  <1> QED
    BY <1>4, FS_CardinalityType

LEMMA EvictionCounts ==
  ASSUME NEW sp, SoundSpool(sp), NEW c \in Classes, VictimClass(sp, c) # NoClass
  PROVE  LET new == [sp EXCEPT ![VictimClass(sp, c)] = EvictOldest(@)]
         IN  Cardinality(Places(new)) = Cardinality(Places(sp)) - 1
  <1> DEFINE v == VictimClass(sp, c)
             e == EvictOldest(sp[v])
             new == [sp EXCEPT ![v] = EvictOldest(@)]
             m == Len(sp[v].segs)
             p == <<v, m>>
  <1>1. v \in Classes /\ sp[v].segs # <<>>
    BY VictimIsLast
  <1> HIDE DEF v
  <1>2. sp \in [Classes -> ClassLog] /\ sp[v] \in ClassLog /\ sp[v].segs \in Seq(Segment)
    BY <1>1 DEF SoundSpool, SoundClass, SoundSegs
  <1>3. m \in Nat \ {0} /\ DOMAIN sp[v].segs = 1..m
    BY <1>1, <1>2
  <1>4. e.segs = Tail(sp[v].segs)
    BY <1>2 DEF EvictOldest, ClassLog
  <1>5. DOMAIN e.segs = 1..(m - 1)
    BY <1>1, <1>2, <1>3, <1>4, HeadTailProperties
  <1>6. \A k \in Classes : DOMAIN new[k].segs = IF k = v THEN 1..(m - 1) ELSE DOMAIN sp[k].segs
    BY <1>1, <1>2, <1>5
  <1> HIDE DEF new, e, m
  <1>7. Places(new) = Places(sp) \ {p}
    <2>1. \A q : q \in Places(sp) <=> \E k \in Classes : \E i \in DOMAIN sp[k].segs : q = <<k, i>>
      BY DEF Places
    <2>2. \A q : q \in Places(new) <=> \E k \in Classes : \E i \in DOMAIN new[k].segs : q = <<k, i>>
      BY DEF Places
    <2>3. ASSUME NEW q \in Places(new) PROVE q \in Places(sp) \ {p}
      <3>1. PICK k \in Classes : \E i \in DOMAIN new[k].segs : q = <<k, i>>
        BY <2>2, <2>3
      <3>2. PICK i \in DOMAIN new[k].segs : q = <<k, i>>
        BY <3>1
      <3>3. i \in DOMAIN sp[k].segs /\ (k = v => i # m)
        BY <1>3, <1>6
      <3>4. q # p
        BY <3>2, <3>3
      <3> QED
        BY <2>1, <3>2, <3>3, <3>4
    <2>4. ASSUME NEW q \in Places(sp), q # p PROVE q \in Places(new)
      <3>1. PICK k \in Classes : \E i \in DOMAIN sp[k].segs : q = <<k, i>>
        BY <2>1, <2>4
      <3>2. PICK i \in DOMAIN sp[k].segs : q = <<k, i>>
        BY <3>1
      <3>3. k = v => i # m
        BY <2>4, <3>2
      <3>4. i \in DOMAIN new[k].segs
        BY <1>3, <1>6, <3>3
      <3> QED
        BY <2>2, <3>2, <3>4
    <2> HIDE DEF p
    <2> QED
      BY <2>3, <2>4
  <1>8. p \in Places(sp)
    <2>1. m \in DOMAIN sp[v].segs
      BY <1>3
    <2> QED
      BY <1>1, <2>1 DEF Places
  <1>9. IsFiniteSet(Places(sp)) /\ Cardinality(Places(sp)) \in Nat
    BY PlacesFinite
  <1>10. Cardinality(Places(new)) = Cardinality(Places(sp)) - 1
    <2> HIDE DEF p
    <2> QED
      BY <1>7, <1>8, <1>9, FS_RemoveElement
  <1> QED
    BY <1>10 DEF new, v

\* One turn of the loop.
Eased(sp, c) ==
    IF Fits(sp) \/ VictimClass(sp, c) = NoClass THEN sp
    ELSE [sp EXCEPT ![VictimClass(sp, c)] = EvictOldest(@)]

Loops(sp, c, f) ==
    LET N == Cardinality(Places(sp))
    IN  /\ f[0] = sp
        /\ \A i \in 1..N : f[i] = Eased(f[i - 1], c)
        /\ \A i \in 0..N : SoundSpool(f[i]) /\ Cut(sp, f[i], c)

LEMMA LoopRuns ==
  ASSUME NEW sp, SoundSpool(sp), NEW c \in Classes
  PROVE  \E f : Loops(sp, c, f) /\ MadeRoom(sp, c) = f[Cardinality(Places(sp))]
  <1> DEFINE N == Cardinality(Places(sp))
             D == {b \in [Classes -> ClassLog] : SoundSpool(b) /\ Cut(sp, b, c)}
             step == [q \in (1..N) \X D |-> Eased(q[2], c)]
             Sequel(u) == [n \in 0..N |-> IF n = 0 THEN sp
                              ELSE LET before == u[n - 1]
                                       v == VictimClass(before, c)
                                   IN  IF TotalBytes(before) + 1 <= MaxBytes \/ v = NoClass THEN before
                                       ELSE [before EXCEPT ![v] = EvictOldest(@)]]
             after == CHOOSE u : u = Sequel(u)
  <1>1. N \in Nat
    BY PlacesFinite
  <1>2. sp \in D
    BY CutNothing DEF SoundSpool
  <1>3. ASSUME NEW b \in D PROVE Eased(b, c) \in D
    <2>1. SoundSpool(b) /\ Cut(sp, b, c)
      OBVIOUS
    <2> DEFINE new == [b EXCEPT ![VictimClass(b, c)] = EvictOldest(@)]
    <2>2. CASE ~Fits(b) /\ VictimClass(b, c) # NoClass
      <3>1. SoundSpool(new) /\ Cut(sp, new, c)
        BY <2>1, <2>2, EvictionCuts
      <3>2. Eased(b, c) = new
        BY <2>2 DEF Eased
      <3> HIDE DEF new
      <3>3. new \in [Classes -> ClassLog]
        BY <3>1 DEF SoundSpool
      <3> QED
        BY <3>1, <3>2, <3>3
    <2>3. CASE Fits(b) \/ VictimClass(b, c) = NoClass
      BY <2>3 DEF Eased
    <2> QED
      BY <2>2, <2>3
  <1>4. step \in [(1..N) \X D -> D]
    <2> HIDE DEF D
    <2> QED
      BY <1>3
  <1>5. PICK f : Course(f, N, D, sp, step)
    <2> HIDE DEF step, D, N
    <2> QED
      BY <1>1, <1>2, <1>4, Recursion
  <1>6. f \in [0..N -> D] /\ f[0] = sp /\ \A i \in 1..N : f[i] = step[<<i, f[i - 1]>>]
    BY <1>5 DEF Course
  <1>7. ASSUME NEW i \in 1..N PROVE f[i] = Eased(f[i - 1], c)
    <2>1. i - 1 \in 0..N
      BY <1>1
    <2>2. f[i - 1] \in D
      BY <1>6, <2>1
    <2>3. <<i, f[i - 1]>> \in (1..N) \X D
      BY <2>2
    <2>4. f[i] = step[<<i, f[i - 1]>>]
      BY <1>6
    <2> HIDE DEF D
    <2> QED
      BY <2>3, <2>4
  <1>8. f = Sequel(f)
    <2>1. ASSUME NEW n \in 0..N
          PROVE  f[n] = IF n = 0 THEN sp
                        ELSE LET before == f[n - 1]
                                 v == VictimClass(before, c)
                             IN  IF TotalBytes(before) + 1 <= MaxBytes \/ v = NoClass THEN before
                                 ELSE [before EXCEPT ![v] = EvictOldest(@)]
      <3>1. n = 0 \/ n \in 1..N
        BY <1>1
      <3>2. CASE n = 0
        BY <1>6, <3>2
      <3>3. CASE n \in 1..N
        <4>1. n # 0 /\ f[n] = Eased(f[n - 1], c)
          BY <1>7, <3>3
        <4> QED
          BY <4>1 DEF Eased, Fits
      <3> QED
        BY <3>1, <3>2, <3>3
    <2>2. f = [n \in 0..N |-> f[n]]
      BY <1>6
    <2> HIDE DEF D, N
    <2> QED
      BY <2>1, <2>2, Zenon
  <1>9. after = Sequel(after)
    BY <1>8, Zenon
  <1>10. MadeRoom(sp, c) = after[N]
    BY DEF MadeRoom, Places
  <1> HIDE DEF after, step
  <1>11. after[0] = sp /\ \A i \in 1..N : after[i] = Eased(after[i - 1], c)
    <2>1. 0 \in 0..N /\ \A i \in 1..N : i \in 0..N /\ i # 0
      BY <1>1
    <2>2. after[0] = sp
      BY <1>9, <2>1
    <2>3. ASSUME NEW i \in 1..N PROVE after[i] = Eased(after[i - 1], c)
      BY <1>9, <2>1 DEF Eased, Fits
    <2> QED
      BY <2>2, <2>3
  <1>12. \A i \in 0..N : after[i] = f[i]
    <2>1. Alike(N, after, f)
      BY <1>6, <1>7, <1>11 DEF Alike
    <2> HIDE DEF N
    <2> QED
      BY <1>1, <2>1, SameCourse
  <1>13. MadeRoom(sp, c) = f[N]
    BY <1>1, <1>10, <1>12
  <1>14. Loops(sp, c, f)
    <2>1. \A i \in 0..N : SoundSpool(f[i]) /\ Cut(sp, f[i], c)
      BY <1>6
    <2> QED
      BY <1>6, <1>7, <2>1 DEF Loops
  <1> QED
    BY <1>13, <1>14

LEMMA RoomMade ==
  ASSUME NEW sp, SoundSpool(sp), NEW c \in Classes
  PROVE  /\ SoundSpool(MadeRoom(sp, c)) /\ Cut(sp, MadeRoom(sp, c), c)
         /\ \/ Fits(MadeRoom(sp, c))
            \/ \A k \in Classes : k >= c => MadeRoom(sp, c)[k].segs = <<>>
  <1> DEFINE N == Cardinality(Places(sp))
             Still(b) == Fits(b) \/ VictimClass(b, c) = NoClass
  <1>1. PICK f : Loops(sp, c, f) /\ MadeRoom(sp, c) = f[N]
    BY LoopRuns
  <1>2. N \in Nat
    BY PlacesFinite
  <1>3. /\ f[0] = sp
        /\ \A i \in 1..N : f[i] = Eased(f[i - 1], c)
        /\ \A i \in 0..N : SoundSpool(f[i]) /\ Cut(sp, f[i], c)
    BY <1>1 DEF Loops
  <1> DEFINE S == {m \in Nat : m <= N => Still(f[m]) \/ Cardinality(Places(f[m])) = N - m}
  <1>4. 0 \in S
    <2>1. Cardinality(Places(f[0])) = N - 0
      BY <1>2, <1>3
    <2> QED
      BY <2>1
  <1>5. ASSUME NEW m \in Nat, m \in S PROVE m + 1 \in S
    <2> SUFFICES ASSUME m + 1 <= N
                 PROVE  Still(f[m + 1]) \/ Cardinality(Places(f[m + 1])) = N - (m + 1)
      OBVIOUS
    <2>1. m <= N /\ m + 1 \in 1..N /\ (m + 1) - 1 = m /\ m \in 0..N
      BY <1>2
    <2>2. f[m + 1] = Eased(f[m], c) /\ SoundSpool(f[m])
      BY <1>3, <2>1
    <2>3. Still(f[m]) \/ Cardinality(Places(f[m])) = N - m
      BY <1>5, <2>1
    <2>4. CASE Still(f[m])
      <3>1. f[m + 1] = f[m]
        BY <2>2, <2>4 DEF Eased
      <3> QED
        BY <2>4, <3>1
    <2>5. CASE ~Still(f[m])
      <3> DEFINE new == [f[m] EXCEPT ![VictimClass(f[m], c)] = EvictOldest(@)]
      <3>1. f[m + 1] = new
        BY <2>2, <2>5 DEF Eased
      <3>2. Cardinality(Places(new)) = Cardinality(Places(f[m])) - 1
        BY <2>2, <2>5, EvictionCounts
      <3>3. Cardinality(Places(f[m + 1])) = (N - m) - 1
        BY <2>3, <2>5, <3>1, <3>2, Zenon
      <3> QED
        BY <1>2, <3>3
    <2> QED
      BY <2>4, <2>5
  <1>6. Still(f[N]) \/ Cardinality(Places(f[N])) = N - N
    <2>1. N \in S
      <3> HIDE DEF S, N
      <3> QED
        BY <1>2, <1>4, <1>5, Induction
    <2> QED
      BY <1>2, <2>1
  <1>7. SoundSpool(f[N]) /\ Cut(sp, f[N], c)
    BY <1>2, <1>3
  <1>8. Fits(f[N]) \/ \A k \in Classes : k >= c => f[N][k].segs = <<>>
    <2>1. CASE VictimClass(f[N], c) = NoClass
      BY <2>1, VictimIsLast
    <2>2. CASE Cardinality(Places(f[N])) = N - N
      <3>1. Cardinality(Places(f[N])) = 0
        BY <1>2, <2>2
      <3>2. Places(f[N]) = {}
        BY <1>7, <3>1, PlacesFinite, FS_EmptySet
      <3>3. ASSUME NEW k \in Classes PROVE f[N][k].segs = <<>>
        <4>1. f[N][k].segs \in Seq(Segment)
          BY <1>7 DEF SoundSpool, SoundClass, SoundSegs
        <4>2. \A i \in DOMAIN f[N][k].segs : <<k, i>> \in Places(f[N])
          <5> DEFINE b == f[N]
          <5> HIDE DEF b
          <5>1. \A i \in DOMAIN b[k].segs : <<k, i>> \in Places(b)
            BY DEF Places
          <5> QED
            BY <5>1 DEF b
        <4>3. 1 \notin DOMAIN f[N][k].segs
          BY <3>2, <4>2
        <4> QED
          BY <4>1, <4>3
      <3> QED
        BY <3>3
    <2> QED
      BY <1>6, <2>1, <2>2
  <1> QED
    BY <1>1, <1>7, <1>8

-----------------------------------------------------------------------------
(* The steps of the queue that the operations on the spool take.            *)

Queue(sp) == [c \in Classes |-> Walk(sp[c])]

LEMMA QueuesAreSeqs ==
  ASSUME NEW sp, SoundSpool(sp)
  PROVE  \A c \in Classes : Queue(sp)[c] = Walk(sp[c]) /\ Walk(sp[c]) \in Seq(Record)
  BY WalkOfSound DEF SoundSpool, Queue

\* The abstract specification's operators on sequences are the same.
LEMMA SameOperators ==
  /\ \A s, t : Abstract!IsSuffix(s, t) = IsSuffix(s, t)
  /\ \A s, t : Abstract!IsPrefix(s, t) = IsPrefix(s, t)
  /\ \A s : Abstract!Front(s) = Front(s) /\ Abstract!Last(s) = Last(s)
  <1>1. \A s : Abstract!Reverse(s) = Reverse(s)
    BY DEF Abstract!Reverse, Reverse
  <1>2. \A s, t : Abstract!IsPrefix(s, t) = IsPrefix(s, t)
    BY DEF Abstract!IsPrefix, IsPrefix
  <1>3. \A s, t : Abstract!IsSuffix(s, t) = IsSuffix(s, t)
    BY <1>1, <1>2, Zenon DEF Abstract!IsSuffix, IsSuffix
  <1>4. \A s : Abstract!Front(s) = Front(s)
    BY DEF Abstract!Front, Front
  <1>5. \A s : Abstract!Last(s) = Last(s)
    BY DEF Abstract!Last, Last
  <1> QED
    BY <1>2, <1>3, <1>4, <1>5

LEMMA CutIsFair ==
  ASSUME NEW sp, SoundSpool(sp), NEW new, SoundSpool(new), NEW c \in Classes, Cut(sp, new, c)
  PROVE  Abstract!FairCut(Queue(sp), Queue(new), c)
  <1>1. ASSUME NEW k \in Classes PROVE IsSuffix(Queue(new)[k], Queue(sp)[k])
    <2>1. IsRest(Walk(new[k]), Walk(sp[k]))
      BY DEF Cut
    <2>2. IsSuffix(Walk(new[k]), Walk(sp[k]))
      BY <2>1, QueuesAreSeqs, RestIsSuffix
    <2> QED
      BY <2>2, QueuesAreSeqs
  <1>2. ASSUME NEW k \in Classes, Queue(new)[k] # Queue(sp)[k]
        PROVE  k >= c /\ \A j \in Classes : j > k => Queue(new)[j] = <<>>
    <2>1. new[k] # sp[k]
      BY <1>2, QueuesAreSeqs
    <2>2. k >= c /\ \A j \in Classes : j > k => new[j].segs = <<>>
      BY <2>1 DEF Cut
    <2>3. \A j \in Classes : j > k => Walk(new[j]) = <<>>
      BY <2>2, WalkOfNoSegments DEF SoundSpool
    <2> QED
      BY <2>2, <2>3, QueuesAreSeqs
  <1> QED
    BY <1>1, <1>2, SameOperators DEF Abstract!FairCut

LEMMA FrontOfAppend ==
  ASSUME NEW S, NEW s \in Seq(S), NEW e \in S
  PROVE  Last(Append(s, e)) = e /\ Front(Append(s, e)) = s /\ Append(s, e) # <<>>
  <1> DEFINE t == Append(s, e)
             n == Len(s)
             f == SubSeq(t, 1, n)
  <1>1. /\ t \in Seq(S) /\ t # <<>> /\ Len(t) = n + 1 /\ n \in Nat
        /\ (\A i \in 1..n : t[i] = s[i]) /\ t[n + 1] = e
    BY AppendProperties
  <1> HIDE DEF t
  <1>2. Last(t) = e
    BY <1>1 DEF Last
  <1>3. Front(t) = f
    <2>1. Len(t) - 1 = n
      BY <1>1
    <2> QED
      BY <2>1 DEF Front
  <1>4. f \in Seq(S) /\ Len(f) = n /\ \A i \in 1..n : f[i] = t[i]
    <2> HIDE DEF n
    <2>1. \A i \in 1..n : t[i] \in S
      BY <1>1
    <2>2. /\ SubSeq(t, 1, n) \in Seq(S) /\ Len(SubSeq(t, 1, n)) = IF 1 <= n THEN n - 1 + 1 ELSE 0
          /\ \A i \in 1..n - 1 + 1 : SubSeq(t, 1, n)[i] = t[1 + i - 1]
      BY <1>1, <2>1, SubSeqProperties
    <2>3. \A i \in 1..n : i \in 1..n - 1 + 1 /\ 1 + i - 1 = i
      BY <1>1
    <2>4. \A i \in 1..n : SubSeq(t, 1, n)[i] = t[i]
      BY <2>2, <2>3
    <2>5. Len(SubSeq(t, 1, n)) = n
      BY <1>1, <2>2
    <2> QED
      BY <2>2, <2>4, <2>5
  <1> HIDE DEF f
  <1>5. f = s
    <2>1. \A i \in 1..Len(f) : f[i] = s[i]
      BY <1>1, <1>4
    <2> QED
      BY <1>4, <2>1, SeqEqual
  <1> QED
    BY <1>1, <1>2, <1>3, <1>5 DEF t

LEMMA StoredSpool ==
  ASSUME NEW room, SoundSpool(room), NEW c \in Classes, NEW rec \in Record
  PROVE  LET stored == [room EXCEPT ![c] = Written(@, rec)]
         IN  /\ SoundSpool(stored)
             /\ Queue(stored) = [Queue(room) EXCEPT ![c] = Append(@, rec)]
  <1> DEFINE w == Written(room[c], rec)
             stored == [room EXCEPT ![c] = w]
  <1>1. room \in [Classes -> ClassLog] /\ \A k \in Classes : SoundClass(room[k])
    BY DEF SoundSpool
  <1>2. SoundClass(w) /\ Walk(w) = Append(Walk(room[c]), rec)
    BY <1>1, WrittenSound
  <1>3. w \in ClassLog
    BY <1>2 DEF SoundClass
  <1> HIDE DEF w
  <1>4. stored \in [Classes -> ClassLog] /\ \A k \in Classes : stored[k] = IF k = c THEN w ELSE room[k]
    BY <1>1, <1>3
  <1> HIDE DEF stored
  <1>5. SoundSpool(stored)
    BY <1>1, <1>2, <1>4 DEF SoundSpool
  <1>6. Queue(stored) = [Queue(room) EXCEPT ![c] = Append(@, rec)]
    <2>1. \A k \in Classes : Walk(stored[k]) = IF k = c THEN Append(Walk(room[c]), rec) ELSE Walk(room[k])
      BY <1>2, <1>4
    <2> QED
      BY <2>1 DEF Queue
  <1> QED
    BY <1>1, <1>5, <1>6 DEF stored, w

LEMMA SyncedSpool ==
  ASSUME NEW sp, SoundSpool(sp)
  PROVE  LET new == [k \in Classes |-> Synced(sp[k])]
         IN  SoundSpool(new) /\ Queue(new) = Queue(sp)
  <1> DEFINE new == [k \in Classes |-> Synced(sp[k])]
  <1>1. ASSUME NEW k \in Classes PROVE SoundClass(Synced(sp[k])) /\ Walk(Synced(sp[k])) = Walk(sp[k])
    BY SyncedSound DEF SoundSpool
  <1>2. \A k \in Classes : Synced(sp[k]) \in ClassLog
    BY <1>1 DEF SoundClass
  <1>3. new \in [Classes -> ClassLog] /\ \A k \in Classes : new[k] = Synced(sp[k])
    BY <1>2
  <1> HIDE DEF new
  <1>4. SoundSpool(new)
    BY <1>1, <1>3 DEF SoundSpool
  <1>5. Queue(new) = Queue(sp)
    BY <1>1, <1>3 DEF Queue
  <1> QED
    BY <1>4, <1>5 DEF new

LEMMA AppendedStores ==
  ASSUME NEW sp, SoundSpool(sp), NEW s \in Stream, NEW rec \in Record, rec.stream = s,
         NEW sync \in BOOLEAN
  PROVE  LET new == Appended(MadeRoom(sp, ClassOf[s]), ClassOf[s], rec, sync)
         IN  /\ SoundSpool(new)
             /\ Abstract!Stored(Queue(sp), Queue(new)) \/ Abstract!Refused(Queue(sp), Queue(new))
  <1> DEFINE c == ClassOf[s]
             room == MadeRoom(sp, c)
             stored == [room EXCEPT ![c] = Written(@, rec)]
             synced == [k \in Classes |-> Synced(stored[k])]
             new == Appended(room, c, rec, sync)
  <1>1. c \in Classes
    BY UplinkAssumption
  <1> HIDE DEF c
  <1>2. /\ SoundSpool(room) /\ Cut(sp, room, c)
        /\ Fits(room) \/ \A k \in Classes : k >= c => room[k].segs = <<>>
    BY <1>1, RoomMade
  <1> HIDE DEF room
  <1>3. Abstract!FairCut(Queue(sp), Queue(room), c)
    BY <1>1, <1>2, CutIsFair
  <1>4. CASE ~Fits(room)
    <2>1. new = room
      BY <1>4 DEF Appended
    <2>2. ASSUME NEW k \in Classes, k >= c PROVE Queue(room)[k] = <<>>
      <3>1. SoundClass(room[k]) /\ room[k].segs = <<>>
        BY <1>2, <1>4, <2>2 DEF SoundSpool
      <3> QED
        BY <1>2, <3>1, WalkOfNoSegments, QueuesAreSeqs
    <2>3. Abstract!Refused(Queue(sp), Queue(room))
      BY <1>1, <1>3, <2>2 DEF Abstract!Refused
    <2> QED
      BY <1>2, <2>1, <2>3 DEF room, c
  <1>5. CASE Fits(room)
    <2>1. SoundSpool(stored) /\ Queue(stored) = [Queue(room) EXCEPT ![c] = Append(@, rec)]
      BY <1>1, <1>2, StoredSpool
    <2>2. new = IF sync THEN synced ELSE stored
      BY <1>5 DEF Appended
    <2> HIDE DEF stored
    <2>3. SoundSpool(synced) /\ Queue(synced) = Queue(stored)
      BY <2>1, SyncedSpool
    <2> HIDE DEF synced
    <2>4. SoundSpool(new) /\ Queue(new) = [Queue(room) EXCEPT ![c] = Append(@, rec)]
      <3>1. CASE sync
        BY <2>1, <2>2, <2>3, <3>1, Zenon
      <3>2. CASE ~sync
        BY <2>1, <2>2, <3>2, Zenon
      <3> QED
        BY <3>1, <3>2
    <2> HIDE DEF new
    <2>5. /\ Queue(new)[c] = Append(Walk(room[c]), rec)
          /\ [Queue(new) EXCEPT ![c] = Front(@)] = Queue(room)
      <3>1. Queue(room) \in [Classes -> Seq(Record)] /\ Queue(room)[c] = Walk(room[c])
        BY <1>1, <1>2, QueuesAreSeqs DEF Queue
      <3>2. Front(Append(Walk(room[c]), rec)) = Walk(room[c])
        BY <1>1, <1>2, QueuesAreSeqs, FrontOfAppend
      <3> DEFINE q == Queue(room)
                 a == Append(q[c], rec)
      <3>3. Queue(new) = [q EXCEPT ![c] = a] /\ Front(a) = q[c] /\ q \in [Classes -> Seq(Record)]
        BY <2>4, <3>1, <3>2
      <3>4. a = Append(Walk(room[c]), rec)
        BY <3>1
      <3> HIDE DEF q, a
      <3>5. Queue(new)[c] = a
        BY <1>1, <3>3
      <3>6. [Queue(new) EXCEPT ![c] = Front(@)] = q
        BY <1>1, <3>3
      <3> QED
        BY <3>4, <3>5, <3>6 DEF q
    <2>6. Append(Walk(room[c]), rec) # <<>> /\ Last(Append(Walk(room[c]), rec)) = rec
      BY <1>1, <1>2, QueuesAreSeqs, FrontOfAppend
    <2>7. ClassOf[Last(Queue(new)[c]).stream] = c
      <3>1. Last(Queue(new)[c]).stream = s
        BY <2>5, <2>6
      <3> QED
        BY <3>1 DEF c
    <2> DEFINE q == Queue(new)
    <2>8. Abstract!FairCut(Queue(sp), [q EXCEPT ![c] = Abstract!Front(@)], c)
      <3>1. Abstract!Front(q[c]) = Front(q[c])
        BY SameOperators
      <3>2. [q EXCEPT ![c] = Abstract!Front(@)] = [q EXCEPT ![c] = Front(@)]
        BY <3>1
      <3> QED
        BY <1>3, <2>5, <3>2
    <2>9. q[c] # <<>> /\ ClassOf[Abstract!Last(q[c]).stream] = c
      <3>1. Abstract!Last(q[c]) = Last(q[c])
        BY SameOperators
      <3> QED
        BY <2>5, <2>6, <2>7, <3>1
    <2>10. Abstract!Stored(Queue(sp), q)
      <3> HIDE DEF q
      <3> QED
        BY <1>1, <2>8, <2>9 DEF Abstract!Stored
    <2> QED
      BY <2>4, <2>10 DEF new, room, c
  <1> QED
    BY <1>4, <1>5

LEMMA CommitTakes ==
  ASSUME NEW sp, SoundSpool(sp), NEW last \in Classes \cup {NoClass}, NEW n \in Nat
  PROVE  LET c == CommitClass(sp, last)
             new == IF c = NoClass THEN sp ELSE [sp EXCEPT ![c] = Committed(@, n)]
         IN  SoundSpool(new) /\ Abstract!Taken(Queue(sp), Queue(new))
  <1> DEFINE c == CommitClass(sp, last)
             d == Committed(sp[c], n)
             new == IF c = NoClass THEN sp ELSE [sp EXCEPT ![c] = d]
  <1>1. sp \in [Classes -> ClassLog] /\ \A k \in Classes : SoundClass(sp[k])
    BY DEF SoundSpool
  <1>2. c = NoClass \/ (c \in Classes /\ Walk(sp[c]) # <<>>)
    <2>1. CASE c = TopClass(sp)
      BY <2>1, TopIsFirst
    <2>2. CASE c # TopClass(sp)
      <3>1. c = last /\ last # NoClass /\ PendingBytes(sp[last]) # 0
        BY <2>2 DEF CommitClass
      <3>2. last \in Classes /\ PendingBytes(sp[last]) = Len(Walk(sp[last]))
        BY <1>1, <3>1, PendingIsWalk
      <3>3. Walk(sp[last]) # <<>>
        BY <3>1, <3>2
      <3> QED
        BY <3>1, <3>2, <3>3
    <2> QED
      BY <2>1, <2>2
  <1> HIDE DEF c
  <1>3. ASSUME NEW k \in Classes PROVE IsSuffix(Queue(sp)[k], Queue(sp)[k])
    <2>1. Queue(sp)[k] \in Seq(Record)
      BY QueuesAreSeqs
    <2> QED
      BY <2>1, RestReflexive, RestIsSuffix
  <1>4. CASE c = NoClass
    <2>1. PICK k \in Classes : TRUE
      BY SpoolAssumption
    <2>2. new = sp
      BY <1>4
    <2>3. Abstract!IsSuffix(Queue(sp)[k], Queue(sp)[k])
      BY <1>3, SameOperators
    <2>4. Abstract!Taken(Queue(sp), Queue(sp))
      BY <2>1, <2>3 DEF Abstract!Taken
    <2> QED
      BY <2>2, <2>4 DEF c
  <1>5. CASE c # NoClass
    <2>1. c \in Classes /\ Walk(sp[c]) # <<>>
      BY <1>2, <1>5
    <2>2. sp[c].segs # <<>>
      BY <1>1, <2>1, WalkOfNoSegments
    <2>3. SoundClass(d) /\ IsRest(Walk(d), Walk(sp[c]))
      BY <1>1, <2>1, <2>2, CommittedSound
    <2>4. d \in ClassLog
      BY <2>3 DEF SoundClass
    <2> HIDE DEF d
    <2>5. new \in [Classes -> ClassLog] /\ \A k \in Classes : new[k] = IF k = c THEN d ELSE sp[k]
      BY <1>1, <1>5, <2>1, <2>4
    <2> HIDE DEF new
    <2>6. SoundSpool(new)
      BY <1>1, <2>3, <2>5 DEF SoundSpool
    <2>7. /\ Queue(new)[c] = Walk(d) /\ Queue(sp)[c] = Walk(sp[c])
          /\ \A k \in Classes \ {c} : Queue(new)[k] = Queue(sp)[k]
      BY <2>1, <2>5 DEF Queue
    <2>8. Abstract!IsSuffix(Queue(new)[c], Queue(sp)[c])
      <3>1. Walk(sp[c]) \in Seq(Record)
        BY <2>1, QueuesAreSeqs
      <3>2. IsSuffix(Walk(d), Walk(sp[c]))
        BY <2>3, <3>1, RestIsSuffix
      <3> QED
        BY <2>7, <3>2, SameOperators
    <2>9. Abstract!Taken(Queue(sp), Queue(new))
      BY <2>1, <2>7, <2>8 DEF Abstract!Taken
    <2> QED
      BY <2>6, <2>9 DEF new, d, c
  <1> QED
    BY <1>4, <1>5

LEMMA PieceOfBeginning ==
  ASSUME NEW S, NEW w \in Seq(S), NEW m \in 0..Len(w), NEW n \in 0..m
  PROVE  /\ SubSeq(w, 1, m) \in Seq(S) /\ Len(SubSeq(w, 1, m)) = m
         /\ \A i \in 1..m : SubSeq(w, 1, m)[i] = w[i]
         /\ SubSeq(SubSeq(w, 1, m), 1, n) = SubSeq(w, 1, n)
  <1>1. ASSUME NEW v \in Seq(S), NEW j \in 0..Len(v)
        PROVE  /\ SubSeq(v, 1, j) \in Seq(S) /\ Len(SubSeq(v, 1, j)) = j
               /\ \A i \in 1..j : SubSeq(v, 1, j)[i] = v[i]
    <2>1. j \in Nat /\ j \in Int /\ 1 \in Int /\ \A i \in 1..j : v[i] \in S
      OBVIOUS
    <2>2. /\ SubSeq(v, 1, j) \in Seq(S) /\ Len(SubSeq(v, 1, j)) = IF 1 <= j THEN j - 1 + 1 ELSE 0
          /\ \A i \in 1..j - 1 + 1 : SubSeq(v, 1, j)[i] = v[1 + i - 1]
      BY <2>1, SubSeqProperties
    <2>3. \A i \in 1..j : i \in 1..j - 1 + 1 /\ 1 + i - 1 = i
      BY <2>1
    <2>4. \A i \in 1..j : SubSeq(v, 1, j)[i] = v[i]
      BY <2>2, <2>3
    <2>5. Len(SubSeq(v, 1, j)) = j
      BY <2>1, <2>2
    <2> QED
      BY <2>2, <2>4, <2>5
  <1> DEFINE b == SubSeq(w, 1, m)
             x == SubSeq(b, 1, n)
             y == SubSeq(w, 1, n)
  <1>2. b \in Seq(S) /\ Len(b) = m /\ \A i \in 1..m : b[i] = w[i]
    BY <1>1
  <1>3. n \in 0..Len(w)
    OBVIOUS
  <1> HIDE DEF b
  <1>4. x \in Seq(S) /\ Len(x) = n /\ \A i \in 1..n : x[i] = b[i]
    BY <1>1, <1>2
  <1>5. y \in Seq(S) /\ Len(y) = n /\ \A i \in 1..n : y[i] = w[i]
    BY <1>1, <1>3
  <1> HIDE DEF x, y
  <1>6. \A i \in 1..Len(x) : x[i] = y[i]
    <2>1. \A i \in 1..n : i \in 1..m
      OBVIOUS
    <2> QED
      BY <1>2, <1>4, <1>5, <2>1
  <1>7. x = y
    BY <1>4, <1>5, <1>6, SeqEqual
  <1> QED
    BY <1>2, <1>7 DEF b, x, y

\* What is peeked and packed is a beginning of the top class's records.
LEMMA RunIsBeginning ==
  ASSUME NEW w \in Seq(Record), w # <<>>
  PROVE  \E m \in 1..Len(w) : LeadingRun(w) = SubSeq(w, 1, m)
  <1> DEFINE other == {i \in DOMAIN w : w[i].stream # w[1].stream}
  <1>1. Len(w) \in Nat \ {0} /\ DOMAIN w = 1..Len(w)
    BY EmptySeq
  <1>2. LeadingRun(w) = IF other = {} THEN w ELSE SubSeq(w, 1, Min(other) - 1)
    BY DEF LeadingRun
  <1>3. other \subseteq 1..Len(w) /\ 1 \notin other
    BY <1>1
  <1> HIDE DEF other
  <1>4. CASE other = {}
    <2>1. w = SubSeq(w, 1, Len(w))
      <3> DEFINE v == SubSeq(w, 1, Len(w))
      <3>0. Len(w) \in 0..Len(w)
        BY <1>1
      <3>1. v \in Seq(Record) /\ Len(v) = Len(w) /\ \A i \in 1..Len(w) : v[i] = w[i]
        BY <3>0, PieceOfBeginning
      <3> HIDE DEF v
      <3>2. v = w
        BY <3>1, SeqEqual
      <3> QED
        BY <3>2 DEF v
    <2>2. LeadingRun(w) = w /\ Len(w) \in 1..Len(w)
      BY <1>1, <1>2, <1>4
    <2> QED
      BY <2>1, <2>2
  <1>5. CASE other # {}
    <2>1. Min(other) \in other
      <3>1. other \subseteq Nat
        BY <1>3
      <3> QED
        BY <1>5, <3>1, LeastIsIn
    <2>2. PICK x \in 1..Len(w) : x = Min(other) /\ x # 1
      BY <1>3, <2>1
    <2>3. x - 1 \in 1..Len(w)
      BY <1>1, <2>2
    <2> QED
      BY <1>2, <1>5, <2>2, <2>3
  <1> QED
    BY <1>4, <1>5

LEMMA PeekedIsBeginning ==
  ASSUME NEW sp, SoundSpool(sp), TopClass(sp) # NoClass
  PROVE  LET w == Walk(sp[TopClass(sp)])
             run == LeadingRun(Peeked(sp, MaxPeek))
         IN  /\ w \in Seq(Record) /\ TopClass(sp) \in Classes /\ w # <<>>
             /\ \A c \in Classes : c < TopClass(sp) => Walk(sp[c]) = <<>>
             /\ Len(run) \in 1..Len(w)
             /\ \A n \in 1..Len(run) : SubSeq(run, 1, n) = SubSeq(w, 1, n)
  <1> DEFINE w == Walk(sp[TopClass(sp)])
             b == Min({MaxPeek, Len(w)})
             recs == SubSeq(w, 1, b)
             run == LeadingRun(recs)
  <1>1. /\ TopClass(sp) \in Classes /\ w # <<>>
        /\ \A c \in Classes : c < TopClass(sp) => Walk(sp[c]) = <<>>
    BY TopIsFirst
  <1>2. w \in Seq(Record)
    BY <1>1, QueuesAreSeqs
  <1>3. Peeked(sp, MaxPeek) = recs
    BY DEF Peeked
  <1> HIDE DEF w
  <1>4. Len(w) \in Nat \ {0}
    BY <1>1, <1>2, EmptySeq
  <1>5. b \in 1..Len(w)
    <2>1. MaxPeek \in Nat \ {0}
      BY UplinkAssumption
    <2> DEFINE T == {MaxPeek, Len(w)}
    <2>2. T \subseteq Nat /\ T # {} /\ Len(w) \in T /\ 0 \notin T
      BY <1>4, <2>1
    <2> HIDE DEF T
    <2>3. Min(T) \in T /\ Min(T) <= Len(w)
      BY <2>2, LeastIsIn
    <2>4. PICK x \in Nat \ {0} : x = Min(T) /\ x <= Len(w)
      BY <2>2, <2>3
    <2>5. Min(T) \in 1..Len(w)
      BY <1>4, <2>4
    <2> QED
      BY <2>5 DEF T
  <1> HIDE DEF b
  <1>6. recs \in Seq(Record) /\ Len(recs) = b /\ recs # <<>>
    <2>1. b \in 0..Len(w) /\ 0 \in 0..b
      BY <1>4, <1>5
    <2>2. recs \in Seq(Record) /\ Len(recs) = b
      BY <1>2, <2>1, PieceOfBeginning
    <2> HIDE DEF recs
    <2>3. recs # <<>>
      BY <1>4, <1>5, <2>2
    <2> QED
      BY <2>2, <2>3
  <1>7. PICK m \in 1..b : run = SubSeq(recs, 1, m)
    <2> HIDE DEF recs
    <2> QED
      BY <1>6, RunIsBeginning
  <1>8. run = SubSeq(w, 1, m) /\ m \in 1..Len(w) /\ Len(run) = m
    <2>1. b \in 0..Len(w) /\ m \in 0..b /\ m \in 0..Len(w) /\ m \in 1..Len(w) /\ 0 \in 0..m
      BY <1>4, <1>5
    <2>2. SubSeq(recs, 1, m) = SubSeq(w, 1, m)
      BY <1>2, <2>1, PieceOfBeginning
    <2>3. Len(SubSeq(w, 1, m)) = m
      BY <1>2, <2>1, PieceOfBeginning
    <2> HIDE DEF run
    <2> QED
      BY <1>7, <2>1, <2>2, <2>3
  <1>9. ASSUME NEW n \in 1..m PROVE SubSeq(run, 1, n) = SubSeq(w, 1, n)
    <2>1. m \in 0..Len(w) /\ n \in 0..m
      BY <1>8
    <2>2. SubSeq(SubSeq(w, 1, m), 1, n) = SubSeq(w, 1, n)
      BY <1>2, <2>1, PieceOfBeginning
    <2> HIDE DEF run
    <2> QED
      BY <1>8, <2>2
  <1> HIDE DEF run, recs
  <1>10. LeadingRun(Peeked(sp, MaxPeek)) = run
    BY <1>3 DEF run
  <1> QED
    BY <1>1, <1>2, <1>8, <1>9, <1>10, Zenon DEF w

LEMMA DrainOffers ==
  ASSUME NEW sp, SoundSpool(sp), TopClass(sp) # NoClass, NEW n,
         n \in 1..Len(LeadingRun(Peeked(sp, MaxPeek)))
  PROVE  LET recs == SubSeq(LeadingRun(Peeked(sp, MaxPeek)), 1, n)
         IN  recs \in Seq(Record) /\ recs # <<>> /\ Abstract!Offered(Queue(sp), recs)
  <1> DEFINE t == TopClass(sp)
             w == Walk(sp[t])
             run == LeadingRun(Peeked(sp, MaxPeek))
             recs == SubSeq(run, 1, n)
  <1>1. /\ w \in Seq(Record) /\ t \in Classes /\ w # <<>>
        /\ \A c \in Classes : c < t => Walk(sp[c]) = <<>>
        /\ Len(run) \in 1..Len(w)
        /\ \A i \in 1..Len(run) : SubSeq(run, 1, i) = SubSeq(w, 1, i)
    BY PeekedIsBeginning
  <1> HIDE DEF run, t
  <1>2. n \in 1..Len(run)
    BY DEF run
  <1>3. recs = SubSeq(w, 1, n) /\ n \in 1..Len(w)
    BY <1>1, <1>2
  <1> HIDE DEF w
  <1>4. recs \in Seq(Record) /\ Len(recs) = n
    <2>1. n \in 0..Len(w) /\ 0 \in 0..n
      BY <1>3
    <2>2. SubSeq(w, 1, n) \in Seq(Record) /\ Len(SubSeq(w, 1, n)) = n
      BY <1>1, <2>1, PieceOfBeginning
    <2> QED
      BY <1>3, <2>2
  <1>5. SubSeq(recs, 1, n) = SubSeq(w, 1, n)
    <2>1. n \in 0..Len(w) /\ n \in 0..n
      BY <1>3
    <2>2. SubSeq(SubSeq(w, 1, n), 1, n) = SubSeq(w, 1, n)
      BY <1>1, <2>1, PieceOfBeginning
    <2> QED
      BY <1>3, <2>2
  <1> HIDE DEF recs
  <1>6. recs # <<>>
    BY <1>3, <1>4
  <1>7. IsPrefix(recs, w)
    BY <1>1, <1>3, <1>4, <1>5 DEF IsPrefix
  <1>8. Abstract!Offered(Queue(sp), recs)
    <2>1. Queue(sp)[t] = w /\ \A c \in Classes : c < t => Queue(sp)[c] = <<>>
      BY <1>1 DEF Queue, w
    <2>2. Abstract!IsPrefix(recs, Queue(sp)[t])
      BY <1>7, <2>1, SameOperators
    <2>3. Queue(sp)[t] # <<>>
      BY <1>1, <2>1
    <2> QED
      BY <1>1, <2>1, <2>2, <2>3 DEF Abstract!Offered
  <1> QED
    BY <1>4, <1>6, <1>8 DEF recs, run

LEMMA RecoveredSpool ==
  ASSUME NEW sp, SoundSpool(sp), NEW closed, NEW kept,
         \A c \in Classes : /\ SoundClass(closed[c]) /\ Walk(closed[c]) = Walk(sp[c])
                            /\ KeptOf(closed[c], kept[c])
  PROVE  LET new == [c \in Classes |-> Recovered(closed[c], kept[c])]
         IN  SoundSpool(new) /\ Abstract!Reopened(Queue(sp), Queue(new))
  <1> DEFINE new == [c \in Classes |-> Recovered(closed[c], kept[c])]
  <1>1. ASSUME NEW c \in Classes
        PROVE  /\ SoundClass(Recovered(closed[c], kept[c]))
               /\ \E i \in 1..Len(Walk(sp[c])) + 1, j \in 0..Len(Walk(sp[c])) :
                     Walk(Recovered(closed[c], kept[c])) = SubSeq(Walk(sp[c]), i, j)
    <2> DEFINE cl == closed[c]
               kp == kept[c]
    <2>1. SoundClass(cl) /\ Walk(cl) = Walk(sp[c]) /\ KeptOf(cl, kp)
      OBVIOUS
    <2> HIDE DEF cl, kp
    <2>2. /\ SoundClass(Recovered(cl, kp))
          /\ \E i \in 1..Len(Walk(cl)) + 1, j \in 0..Len(Walk(cl)) :
                Walk(Recovered(cl, kp)) = SubSeq(Walk(cl), i, j)
      BY <2>1, RecoveredSound
    <2>3. /\ SoundClass(Recovered(cl, kp))
          /\ \E i \in 1..Len(Walk(sp[c])) + 1, j \in 0..Len(Walk(sp[c])) :
                Walk(Recovered(cl, kp)) = SubSeq(Walk(sp[c]), i, j)
      BY <2>1, <2>2
    <2> QED
      BY <2>3 DEF cl, kp
  <1>2. \A c \in Classes : Recovered(closed[c], kept[c]) \in ClassLog
    BY <1>1 DEF SoundClass
  <1>3. new \in [Classes -> ClassLog] /\ \A c \in Classes : new[c] = Recovered(closed[c], kept[c])
    BY <1>2
  <1> HIDE DEF new
  <1>4. SoundSpool(new)
    BY <1>1, <1>3 DEF SoundSpool
  <1>5. ASSUME NEW c \in Classes
        PROVE  \E i \in 1..Len(Queue(sp)[c]) + 1, j \in 0..Len(Queue(sp)[c]) :
                  Queue(new)[c] = SubSeq(Queue(sp)[c], i, j)
    <2>1. Queue(new)[c] = Walk(Recovered(closed[c], kept[c])) /\ Queue(sp)[c] = Walk(sp[c])
      BY <1>3 DEF Queue
    <2> QED
      BY <1>1, <2>1
  <1>6. Abstract!Reopened(Queue(sp), Queue(new))
    BY <1>5 DEF Abstract!Reopened
  <1> QED
    BY <1>4, <1>6 DEF new

-----------------------------------------------------------------------------
(* The uplink implements the queue per class.                               *)

UplinkInv ==
    /\ SoundSpool(class)
    /\ lastPeek \in Classes \cup {NoClass}
    /\ frame \in Seq(Record)

LEMMA UplinkStarts ==
  ASSUME Init
  PROVE  UplinkInv /\ Abstract!Init
  <1>1. EmptyClass \in ClassLog
    BY DEF EmptyClass, ClassLog, Cursors, ZeroCursor
  <1>2. SoundClass(EmptyClass)
    <2>1. /\ EmptyClass.segs = <<>> /\ EmptyClass.nextSeq = 1
          /\ EmptyClass.cursor = ZeroCursor
      BY DEF EmptyClass
    <2>2. SoundSegs(<<>>, 1)
      <3>1. <<>> \in Seq(Segment) /\ Len(<<>>) = 0
        BY EmptySeq
      <3> QED
        BY <3>1 DEF SoundSegs
    <2>3. Filed(EmptyClass)
      BY <2>1 DEF Filed, AtStart
    <2> QED
      BY <1>1, <2>1, <2>2, <2>3 DEF SoundClass
  <1>3. class \in [Classes -> ClassLog] /\ \A c \in Classes : class[c] = EmptyClass
    BY <1>1 DEF Init
  <1>4. SoundSpool(class)
    BY <1>2, <1>3 DEF SoundSpool
  <1>5. \A c \in Classes : Walk(class[c]) = <<>>
    <2>1. EmptyClass.segs = <<>>
      BY DEF EmptyClass
    <2> QED
      BY <1>2, <1>3, <2>1, WalkOfNoSegments
  <1>6. lastPeek \in Classes \cup {NoClass} /\ frame = <<>> /\ frame \in Seq(Record)
    BY DEF Init
  <1> QED
    BY <1>4, <1>5, <1>6 DEF UplinkInv, Abstract!Init

LEMMA CollectStores ==
  ASSUME UplinkInv, NEW s \in Stream, Collect(s)
  PROVE  UplinkInv' /\ Abstract!Store
  <1> DEFINE c == ClassOf[s]
             i == Cardinality(Born) + 1
             room == MadeRoom(class, c)
             rec == [id |-> i, stream |-> s]
  <1>1. rec \in Record /\ rec.stream = s
    <2>1. MaxRecords \in Nat
      BY UplinkAssumption
    <2>2. IsFiniteSet(Born)
      <3>1. IsFiniteSet(1..MaxRecords) /\ Born \subseteq 1..MaxRecords
        BY <2>1, FS_Interval DEF Born
      <3> QED
        BY <3>1, FS_Subset
    <2>3. Cardinality(Born) \in Nat
      BY <2>2, FS_CardinalityType
    <2>4. i <= MaxRecords
      BY DEF Collect
    <2> QED
      BY <2>1, <2>3, <2>4 DEF Record
  <1>2. /\ \E due \in {Fits(room), FALSE} : class' = Appended(room, c, rec, due)
        /\ lastPeek' = lastPeek /\ frame' = frame
    <2>1. lastPeek' = lastPeek /\ frame' = frame
      BY DEF Collect, batchVars
    <2>2. \E due \in {Fits(room), FALSE} : class' = Appended(room, c, rec, due)
      BY Zenon DEF Collect
    <2> QED
      BY <2>1, <2>2
  <1>3. PICK due \in {Fits(room), FALSE} : class' = Appended(room, c, rec, due)
    BY <1>2
  <1>4. due \in BOOLEAN
    <2>1. Fits(room) \in BOOLEAN
      <3> HIDE DEF room
      <3> QED
        BY DEF Fits
    <2> HIDE DEF room
    <2>2. due = Fits(room) \/ due = FALSE
      BY <1>3
    <2> QED
      BY <2>1, <2>2, Zenon
  <1> HIDE DEF rec
  <1>5. /\ SoundSpool(class')
        /\ \/ Abstract!Stored(Queue(class), Queue(class'))
           \/ Abstract!Refused(Queue(class), Queue(class'))
    <2>1. SoundSpool(class)
      BY DEF UplinkInv
    <2> QED
      BY <1>1, <1>3, <1>4, <2>1, AppendedStores
  <1>6. UplinkInv'
    BY <1>2, <1>5 DEF UplinkInv, SoundSpool
  <1>7. Abstract!Store
    BY <1>2, <1>5 DEF Abstract!Store, Queue
  <1> QED
    BY <1>6, <1>7

LEMMA DrainPeekOffers ==
  ASSUME UplinkInv, DrainPeek
  PROVE  UplinkInv' /\ Abstract!Offer
  <1> DEFINE run == LeadingRun(Peeked(class, MaxPeek))
  <1>1. SoundSpool(class)
    BY DEF UplinkInv
  <1>2. TopClass(class) # NoClass
    BY DEF DrainPeek, Peekable
  <1>3. Len(run) \in Nat \ {0}
    <2> DEFINE w == Walk(class[TopClass(class)])
    <2>1. Len(run) \in 1..Len(w) /\ w \in Seq(Record)
      BY <1>1, <1>2, PeekedIsBeginning
    <2> HIDE DEF run, w
    <2> QED
      BY <2>1
  <1>4. PICK n \in 1..Len(run) : frame' = SubSeq(run, 1, n)
    <2>1. \/ \E n \in Halvings(Len(run)) : frame' = SubSeq(run, 1, n)
          \/ frame' = SubSeq(run, 1, 1)
      BY DEF DrainPeek
    <2> HIDE DEF run
    <2>2. Halvings(Len(run)) \subseteq 1..Len(run) /\ 1 \in 1..Len(run)
      BY <1>3 DEF Halvings
    <2> QED
      BY <2>1, <2>2
  <1>5. frame' \in Seq(Record) /\ frame' # <<>> /\ Abstract!Offered(Queue(class), frame')
    BY <1>1, <1>2, <1>4, DrainOffers
  <1>6. class' = class /\ lastPeek' = TopClass(class)
    BY DEF DrainPeek
  <1>7. TopClass(class) \in Classes \cup {NoClass}
    BY <1>1, TopIsFirst
  <1>8. UplinkInv'
    BY <1>1, <1>5, <1>6, <1>7 DEF UplinkInv, SoundSpool
  <1>9. Abstract!Offer
    BY <1>5, <1>6 DEF Abstract!Offer, Queue
  <1> QED
    BY <1>8, <1>9

LEMMA CommitFrameTakes ==
  ASSUME UplinkInv, CommitFrame
  PROVE  UplinkInv' /\ Abstract!Take
  <1> DEFINE c == CommitClass(class, lastPeek)
             n == Len(frame)
             new == IF c = NoClass THEN class ELSE [class EXCEPT ![c] = Committed(@, n)]
  <1>1. class' = new /\ frame' = <<>> /\ lastPeek' = lastPeek
    BY DEF CommitFrame
  <1>2. SoundSpool(class) /\ lastPeek \in Classes \cup {NoClass} /\ n \in Nat
    BY DEF UplinkInv
  <1>3. SoundSpool(class') /\ Abstract!Taken(Queue(class), Queue(class'))
    <2> HIDE DEF n
    <2>1. SoundSpool(new) /\ Abstract!Taken(Queue(class), Queue(new))
      BY <1>2, CommitTakes
    <2> HIDE DEF new
    <2> QED
      BY <1>1, <2>1
  <1>4. UplinkInv'
    <2>1. frame' \in Seq(Record)
      BY <1>1, EmptySeq
    <2> HIDE DEF new
    <2> QED
      BY <1>1, <1>2, <1>3, <2>1 DEF UplinkInv, SoundSpool
  <1>5. Abstract!Take
    <2> HIDE DEF new
    <2> QED
      BY <1>1, <1>3 DEF Abstract!Take, Queue
  <1> QED
    BY <1>4, <1>5

LEMMA ReopenedRestarts ==
  ASSUME UplinkInv, NEW closed, NEW kept,
         \A c \in Classes : /\ SoundClass(closed[c]) /\ Walk(closed[c]) = Walk(class[c])
                            /\ KeptOf(closed[c], kept[c]),
         Reopened([c \in Classes |-> Recovered(closed[c], kept[c])])
  PROVE  UplinkInv' /\ Abstract!Restart
  <1> DEFINE new == [c \in Classes |-> Recovered(closed[c], kept[c])]
  <1>1. class' = new /\ frame' = <<>> /\ lastPeek' = NoClass
    BY DEF Reopened
  <1>2. SoundSpool(class)
    BY DEF UplinkInv
  <1>3. SoundSpool(new) /\ Abstract!Reopened(Queue(class), Queue(new))
    BY <1>2, RecoveredSpool
  <1> HIDE DEF new
  <1>4. frame' \in Seq(Record)
    BY <1>1, EmptySeq
  <1>5. UplinkInv'
    BY <1>1, <1>3, <1>4 DEF UplinkInv, SoundSpool
  <1>6. Abstract!Reopened(Queue(class), Queue(class'))
    BY <1>1, <1>3
  <1>7. Abstract!Restart
    BY <1>1, <1>6 DEF Abstract!Restart, Queue
  <1> QED
    BY <1>5, <1>7

LEMMA CrashRestarts ==
  ASSUME UplinkInv, Crash
  PROVE  UplinkInv' /\ Abstract!Restart
  <1>1. PICK kept : /\ \A c \in Classes : kept[c] \in Remains(class[c])
                    /\ Reopened([c \in Classes |-> Recovered(class[c], kept[c])])
    BY DEF Crash
  <1>2. ASSUME NEW c \in Classes
        PROVE  SoundClass(class[c]) /\ Walk(class[c]) = Walk(class[c]) /\ KeptOf(class[c], kept[c])
    <2>1. SoundClass(class[c]) /\ class[c].segs \in Seq(Segment)
      BY DEF UplinkInv, SoundSpool, SoundClass, SoundSegs
    <2>2. DOMAIN class[c].segs = 1..Len(class[c].segs)
      BY <2>1
    <2>3. kept[c] \in Remains(class[c])
      BY <1>1
    <2>4. KeptOf(class[c], kept[c])
      BY <2>2, <2>3 DEF Remains, KeptOf
    <2> QED
      BY <2>1, <2>4
  <1> QED
    BY <1>1, <1>2, ReopenedRestarts

LEMMA RestartRestarts ==
  ASSUME UplinkInv, Restart
  PROVE  UplinkInv' /\ Abstract!Restart
  <1> DEFINE whole(cl) == [i \in DOMAIN cl.segs |-> Bytes(cl.segs[i])]
             closed == [c \in Classes |-> Closed(class[c])]
             kept == [c \in Classes |-> whole(Closed(class[c]))]
             new == [c \in Classes |-> Recovered(closed[c], kept[c])]
  <1>1. \A c \in Classes : closed[c] = Closed(class[c]) /\ kept[c] = whole(Closed(class[c]))
    OBVIOUS
  <1>2. Reopened([c \in Classes |-> Recovered(Closed(class[c]), whole(Closed(class[c])))])
    BY DEF Restart
  <1> HIDE DEF closed, kept
  <1>3. ASSUME NEW c \in Classes
        PROVE  /\ SoundClass(closed[c]) /\ Walk(closed[c]) = Walk(class[c])
               /\ KeptOf(closed[c], kept[c])
    <2>1. SoundClass(class[c])
      BY DEF UplinkInv, SoundSpool
    <2>2. /\ SoundClass(Closed(class[c])) /\ Walk(Closed(class[c])) = Walk(class[c])
          /\ KeptOf(Closed(class[c]), whole(Closed(class[c])))
      BY <2>1, ClosedSound
    <2> HIDE DEF whole
    <2> QED
      BY <1>1, <2>2
  <1>4. new = [c \in Classes |-> Recovered(Closed(class[c]), whole(Closed(class[c])))]
    <2> HIDE DEF whole
    <2> QED
      BY <1>1
  <1>5. Reopened(new)
    BY <1>2, <1>4
  <1> QED
    BY <1>3, <1>5, ReopenedRestarts

\* The steps of a publish leave the spool alone.
LEMMA PublishIsQuiet ==
  ASSUME UplinkInv
  PROVE  /\ PublishAcked \/ BumpSeq \/ UNCHANGED vars => UplinkInv' /\ UNCHANGED Abstract!vars
         /\ PublishGivenUp => UplinkInv' /\ Abstract!Take
  <1>1. ASSUME PublishAcked \/ BumpSeq \/ UNCHANGED vars
        PROVE  UplinkInv' /\ UNCHANGED Abstract!vars
    <2>1. class' = class /\ lastPeek' = lastPeek /\ frame' = frame
      BY <1>1 DEF PublishAcked, BumpSeq, vars
    <2> QED
      BY <2>1 DEF UplinkInv, SoundSpool, Abstract!vars
  <1>2. ASSUME PublishGivenUp
        PROVE  UplinkInv' /\ Abstract!Take
    <2>1. class' = class /\ lastPeek' = lastPeek /\ frame' = <<>> /\ frame' \in Seq(Record)
      BY <1>2, EmptySeq DEF PublishGivenUp
    <2>2. UplinkInv'
      BY <2>1 DEF UplinkInv, SoundSpool
    <2>3. PICK c \in Classes : TRUE
      BY SpoolAssumption
    <2>4. Abstract!IsSuffix(Queue(class)[c], Queue(class)[c])
      <3>1. Queue(class)[c] \in Seq(Record)
        BY QueuesAreSeqs DEF UplinkInv
      <3> QED
        BY <3>1, RestReflexive, RestIsSuffix, SameOperators
    <2>5. Abstract!Taken(Queue(class), Queue(class))
      BY <2>3, <2>4 DEF Abstract!Taken
    <2>6. Abstract!Take
      BY <2>1, <2>5 DEF Abstract!Take, Queue
    <2> QED
      BY <2>2, <2>6
  <1> QED
    BY <1>1, <1>2

\* The spool with its segments, cursors, files and evictions is a queue per
\* class: records are stored at the tail of their class, room is made at the
\* heads and never in a more important class, the batcher is offered the oldest
\* records of the most important class that has any, and neither a commit nor a
\* crash reorders or repeats a record (spool.go's package comment).
THEOREM UplinkIsClassQueue == Spec => IsClassQueue
  <1>1. Init => UplinkInv /\ Abstract!Init
    BY UplinkStarts
  <1>2. UplinkInv /\ [Next]_vars => UplinkInv' /\ [Abstract!Next]_(Abstract!vars)
    <2> SUFFICES ASSUME UplinkInv, [Next]_vars
                 PROVE  UplinkInv' /\ [Abstract!Next]_(Abstract!vars)
      OBVIOUS
    <2>1. ASSUME NEW s \in Stream, Collect(s) PROVE UplinkInv' /\ Abstract!Next
      BY <2>1, CollectStores DEF Abstract!Next
    <2>2. CASE DrainPeek
      BY <2>2, DrainPeekOffers DEF Abstract!Next
    <2>3. CASE PublishAcked \/ BumpSeq \/ UNCHANGED vars
      BY <2>3, PublishIsQuiet
    <2>4. CASE PublishGivenUp
      BY <2>4, PublishIsQuiet DEF Abstract!Next
    <2>5. CASE CommitFrame
      BY <2>5, CommitFrameTakes DEF Abstract!Next
    <2>6. CASE Crash
      BY <2>6, CrashRestarts DEF Abstract!Next
    <2>7. CASE Restart
      BY <2>7, RestartRestarts DEF Abstract!Next
    <2> QED
      BY <2>1, <2>2, <2>3, <2>4, <2>5, <2>6, <2>7 DEF Next
  <1> QED
    BY <1>1, <1>2, PTL DEF Spec, IsClassQueue, Abstract!Spec

-----------------------------------------------------------------------------
(* Where a record is: one place of one log.                                *)

\* No two elements carry the same id.
Apart(s) == \A p, q \in 1..Len(s) : s[p].id = s[q].id => p = q

\* A contiguous piece of a sequence, at its place.
IsPiece(t, s) ==
    \E a \in Nat :
        /\ a + Len(t) <= Len(s)
        /\ \A i \in 1..Len(t) : t[i] = s[a + i]

LEMMA IdsAre ==
  ASSUME NEW s \in Seq(Record)
  PROVE  /\ Ids(s) = {s[i].id : i \in 1..Len(s)}
         /\ Ids(s) \subseteq 1..MaxRecords
  <1>1. DOMAIN s = 1..Len(s) /\ \A i \in 1..Len(s) : s[i] \in Record
    OBVIOUS
  <1> QED
    BY <1>1 DEF Ids, Record

LEMMA PieceKeeps ==
  ASSUME NEW s \in Seq(Record), NEW t \in Seq(Record), IsPiece(t, s)
  PROVE  Ids(t) \subseteq Ids(s) /\ (Apart(s) => Apart(t))
  <1>1. PICK a \in Nat : a + Len(t) <= Len(s) /\ \A i \in 1..Len(t) : t[i] = s[a + i]
    BY DEF IsPiece
  <1>2. Len(s) \in Nat /\ Len(t) \in Nat
    OBVIOUS
  <1>3. \A i \in 1..Len(t) : a + i \in 1..Len(s)
    BY <1>1, <1>2
  <1>4. Ids(t) \subseteq Ids(s)
    <2>1. Ids(t) = {t[i].id : i \in 1..Len(t)} /\ Ids(s) = {s[i].id : i \in 1..Len(s)}
      BY IdsAre
    <2>2. ASSUME NEW i \in 1..Len(t) PROVE t[i].id \in Ids(s)
      <3>1. t[i] = s[a + i] /\ a + i \in 1..Len(s)
        BY <1>1, <1>3
      <3> QED
        BY <2>1, <3>1
    <2> QED
      BY <2>1, <2>2
  <1>5. ASSUME Apart(s), NEW p \in 1..Len(t), NEW q \in 1..Len(t), t[p].id = t[q].id
        PROVE  p = q
    <2>1. s[a + p].id = s[a + q].id /\ a + p \in 1..Len(s) /\ a + q \in 1..Len(s)
      BY <1>1, <1>3, <1>5
    <2>2. a + p = a + q
      BY <1>5, <2>1 DEF Apart
    <2> QED
      BY <1>2, <2>2
  <1> QED
    BY <1>4, <1>5 DEF Apart

LEMMA RestIsPiece ==
  ASSUME NEW s \in Seq(Record), NEW t, IsRest(t, s)
  PROVE  t \in Seq(Record) /\ IsPiece(t, s)
  <1>1. PICK n \in Nat : t = Rest(s, n)
    BY DEF IsRest
  <1>2. /\ t \in Seq(Record)
        /\ Len(t) = IF n <= Len(s) THEN Len(s) - n ELSE 0
        /\ \A i \in 1..(Len(s) - n) : t[i] = s[n + i]
    BY <1>1, RestProperties
  <1>3. Len(s) \in Nat
    OBVIOUS
  <1>4. CASE n <= Len(s)
    <2>1. Len(t) = Len(s) - n /\ n + Len(t) <= Len(s)
      BY <1>2, <1>3, <1>4
    <2> QED
      BY <1>2, <2>1 DEF IsPiece
  <1>5. CASE ~(n <= Len(s))
    <2>1. Len(t) = 0 /\ 0 + Len(t) <= Len(s) /\ 0 \in Nat /\ 1..Len(t) = {}
      BY <1>2, <1>3, <1>5
    <2> QED
      BY <1>2, <2>1 DEF IsPiece
  <1> QED
    BY <1>4, <1>5

LEMMA SubSeqIsPiece ==
  ASSUME NEW s \in Seq(Record), NEW i \in 1..Len(s) + 1, NEW j \in 0..Len(s)
  PROVE  SubSeq(s, i, j) \in Seq(Record) /\ IsPiece(SubSeq(s, i, j), s)
  <1> DEFINE t == SubSeq(s, i, j)
  <1>1. Len(s) \in Nat
    OBVIOUS
  <1>2. CASE i <= j
    <2>1. /\ t \in Seq(Record) /\ Len(t) = j - i + 1
          /\ \A k \in 1..(j - i + 1) : t[k] = s[i + k - 1]
      <3>1. i \in 1..Len(s) /\ j \in 1..Len(s)
        BY <1>1, <1>2
      <3> QED
        BY <1>1, <1>2, <3>1
    <2> HIDE DEF t
    <2>2. i - 1 \in Nat /\ (i - 1) + Len(t) <= Len(s)
      BY <1>1, <1>2, <2>1
    <2>3. \A k \in 1..Len(t) : t[k] = s[(i - 1) + k]
      <3>1. ASSUME NEW k \in 1..Len(t) PROVE t[k] = s[(i - 1) + k]
        <4>1. i + k - 1 = (i - 1) + k /\ k \in 1..(j - i + 1)
          BY <1>1, <1>2, <2>1
        <4> QED
          BY <2>1, <4>1
      <3> QED
        BY <3>1
    <2>4. IsPiece(t, s)
      BY <2>2, <2>3 DEF IsPiece
    <2> QED
      BY <2>1, <2>4 DEF t
  <1>3. CASE ~(i <= j)
    <2>1. t = <<>>
      BY <1>1, <1>3, SubSeqEmpty
    <2> HIDE DEF t
    <2>2. Len(t) = 0 /\ 0 + Len(t) <= Len(s) /\ 0 \in Nat /\ 1..Len(t) = {} /\ t \in Seq(Record)
      BY <1>1, <2>1
    <2>3. IsPiece(t, s)
      BY <2>2 DEF IsPiece
    <2> QED
      BY <2>2, <2>3 DEF t
  <1> QED
    BY <1>2, <1>3

LEMMA AppendKeeps ==
  ASSUME NEW s \in Seq(Record), NEW e \in Record
  PROVE  /\ Append(s, e) \in Seq(Record) /\ Ids(Append(s, e)) = Ids(s) \cup {e.id}
         /\ Apart(s) /\ e.id \notin Ids(s) => Apart(Append(s, e))
  <1> DEFINE t == Append(s, e)
             L == Len(s)
  <1>1. /\ L \in Nat /\ t \in Seq(Record) /\ Len(t) = L + 1
        /\ \A i \in 1..L : t[i] = s[i]
        /\ t[L + 1] = e
    OBVIOUS
  <1> HIDE DEF t
  <1>2. Ids(t) = {t[i].id : i \in 1..(L + 1)} /\ Ids(s) = {s[i].id : i \in 1..L}
    BY <1>1, IdsAre
  <1>3. \A i \in 1..(L + 1) : i \in 1..L \/ i = L + 1
    BY <1>1
  <1>4. L + 1 \in 1..(L + 1) /\ \A i \in 1..L : i \in 1..(L + 1)
    BY <1>1
  <1>5. Ids(t) = Ids(s) \cup {e.id}
    <2> HIDE DEF L
    <2>1. \A i \in 1..(L + 1) : t[i].id \in Ids(s) \cup {e.id}
      BY <1>1, <1>2, <1>3
    <2>2. \A i \in 1..L : s[i].id \in Ids(t)
      BY <1>1, <1>2, <1>4
    <2>3. e.id \in Ids(t)
      BY <1>1, <1>2, <1>4
    <2> QED
      BY <1>2, <2>1, <2>2, <2>3
  <1>6. ASSUME Apart(s), e.id \notin Ids(s), NEW p \in 1..(L + 1), NEW q \in 1..(L + 1),
               t[p].id = t[q].id
        PROVE  p = q
    <2>1. \A i \in 1..L : s[i].id # e.id
      BY <1>2, <1>6
    <2>2. CASE p \in 1..L /\ q \in 1..L
      BY <1>1, <1>6, <2>2 DEF Apart
    <2>3. CASE p = L + 1 /\ q \in 1..L
      BY <1>1, <1>6, <2>1, <2>3
    <2>4. CASE p \in 1..L /\ q = L + 1
      BY <1>1, <1>6, <2>1, <2>4
    <2>5. CASE p = L + 1 /\ q = L + 1
      BY <2>5
    <2> QED
      BY <1>3, <1>6, <2>2, <2>3, <2>4, <2>5
  <1> QED
    BY <1>1, <1>5, <1>6 DEF Apart, t

\* A sequence cut in two: every id is on one side.
LEMMA SplitKeeps ==
  ASSUME NEW s \in Seq(Record), NEW n \in 0..Len(s)
  PROVE  /\ Ids(s) = Ids(SubSeq(s, 1, n)) \cup Ids(Rest(s, n))
         /\ Apart(s) => Ids(SubSeq(s, 1, n)) \cap Ids(Rest(s, n)) = {}
         /\ SubSeq(s, 1, n) \in Seq(Record) /\ Rest(s, n) \in Seq(Record)
  <1> DEFINE a == SubSeq(s, 1, n)
             b == Rest(s, n)
             L == Len(s)
  <1>1. L \in Nat /\ n \in Nat /\ n <= L
    OBVIOUS
  <1>2. a \in Seq(Record) /\ Len(a) = n /\ \A i \in 1..n : a[i] = s[i]
    <2>1. n \in 0..n /\ L \in 0..L
      BY <1>1
    <2> QED
      BY <2>1, PieceOfBeginning
  <1>3. b \in Seq(Record) /\ Len(b) = L - n /\ \A i \in 1..(L - n) : b[i] = s[n + i]
    BY <1>1, RestProperties
  <1> HIDE DEF a, b
  <1>4. /\ Ids(s) = {s[i].id : i \in 1..L} /\ Ids(a) = {a[i].id : i \in 1..n}
        /\ Ids(b) = {b[i].id : i \in 1..(L - n)}
    BY <1>2, <1>3, IdsAre
  <1>5. Ids(a) \subseteq Ids(s) /\ Ids(b) \subseteq Ids(s)
    <2>1. \A i \in 1..n : i \in 1..L
      BY <1>1
    <2>2. \A i \in 1..(L - n) : n + i \in 1..L
      BY <1>1
    <2> QED
      BY <1>2, <1>3, <1>4, <2>1, <2>2
  <1>6. ASSUME NEW i \in 1..L PROVE s[i].id \in Ids(a) \cup Ids(b)
    <2>1. CASE i \in 1..n
      BY <1>2, <1>4, <2>1
    <2>2. CASE ~(i \in 1..n)
      <3>1. i - n \in 1..(L - n) /\ n + (i - n) = i
        BY <1>1, <2>2
      <3>2. b[i - n] = s[i]
        BY <1>3, <3>1
      <3> QED
        BY <1>4, <3>1, <3>2
    <2> QED
      BY <2>1, <2>2
  <1>7. ASSUME Apart(s), NEW i \in 1..n, NEW j \in 1..(L - n), a[i].id = b[j].id PROVE FALSE
    <2>1. s[i].id = s[n + j].id /\ i \in 1..L /\ n + j \in 1..L
      BY <1>1, <1>2, <1>3, <1>7
    <2>2. i = n + j
      BY <1>7, <2>1 DEF Apart
    <2> QED
      BY <1>1, <2>2
  <1> HIDE DEF L
  <1>8. Ids(s) \subseteq Ids(a) \cup Ids(b)
    BY <1>4, <1>6
  <1>9. Apart(s) => Ids(a) \cap Ids(b) = {}
    BY <1>4, <1>7
  <1> QED
    BY <1>2, <1>3, <1>5, <1>8, <1>9 DEF a, b

\* The log of a class, and its walk, the end of it.
LEMMA WholeType ==
  ASSUME NEW cl, SoundClass(cl)
  PROVE  /\ Whole(cl) \in Seq(Record) /\ Walk(cl) \in Seq(Record)
         /\ IsRest(Walk(cl), Whole(cl))
         /\ Ids(Walk(cl)) \subseteq Ids(Whole(cl))
         /\ Apart(Whole(cl)) => Apart(Walk(cl))
  <1>1. cl \in ClassLog /\ cl.segs \in Seq(Segment)
    BY DEF SoundClass, SoundSegs
  <1>2. Whole(cl) \in Seq(Record) /\ Walk(cl) \in Seq(Record)
    BY <1>1, JoinedType, WalkOfSound DEF Whole
  <1>3. PICK k \in 0..Len(cl.segs), o \in Nat : Starts(cl, k, o)
    BY WalkStarts DEF SoundClass
  <1>4. IsRest(Walk(cl), Whole(cl))
    <2>1. /\ Walk(cl) = Rest(Joined(cl.segs), Passed(cl.segs, k) + o)
          /\ Passed(cl.segs, k) + o \in Nat
      BY <1>1, <1>3, WalkIsRest
    <2> QED
      BY <2>1 DEF IsRest, Whole
  <1>5. IsPiece(Walk(cl), Whole(cl))
    BY <1>2, <1>4, RestIsPiece
  <1> QED
    BY <1>2, <1>4, <1>5, PieceKeeps

LEMMA SyncedWhole ==
  ASSUME NEW cl, SoundClass(cl)
  PROVE  Whole(Synced(cl)) = Whole(cl)
  <1>1. cl \in ClassLog
    BY DEF SoundClass
  <1> QED
    BY <1>1, SyncedSegs DEF Whole

LEMMA ActiveWhole ==
  ASSUME NEW cl, SoundClass(cl)
  PROVE  Whole(WithActive(cl)) = Whole(cl)
  <1> DEFINE full == IF Rotates(cl) THEN Synced(cl) ELSE cl
             e == [seq |-> cl.nextSeq, recs |-> <<>>, synced |-> 0]
  <1>1. /\ SoundClass(full) /\ Whole(full) = Whole(cl)
    BY SyncedSound, SyncedWhole
  <1>2. CASE cl.segs # <<>> /\ ~Rotates(cl)
    BY <1>2 DEF WithActive
  <1>3. CASE ~(cl.segs # <<>> /\ ~Rotates(cl))
    <2>1. WithActive(cl) = [full EXCEPT !.segs = Append(@, e), !.nextSeq = @ + 1]
      BY <1>3 DEF WithActive
    <2>2. full \in ClassLog /\ full.segs \in Seq(Segment)
      BY <1>1 DEF SoundClass, SoundSegs
    <2>3. e \in Segment
      <3>1. cl.nextSeq \in Nat /\ <<>> \in Seq(Record)
        BY DEF SoundClass, ClassLog
      <3> QED
        BY <3>1 DEF Segment
    <2> HIDE DEF full
    <2>4. WithActive(cl).segs = Append(full.segs, e)
      BY <2>1, <2>2 DEF ClassLog
    <2>5. Joined(Append(full.segs, e)) = Joined(full.segs) \o e.recs
      BY <2>2, <2>3, JoinedAppend
    <2>6. Joined(full.segs) \o <<>> = Joined(full.segs)
      <3>1. Joined(full.segs) \in Seq(Record)
        BY <2>2, JoinedType
      <3> QED
        BY <3>1
    <2>7. e.recs = <<>>
      OBVIOUS
    <2> HIDE DEF e
    <2> QED
      BY <1>1, <2>4, <2>5, <2>6, <2>7 DEF Whole
  <1> QED
    BY <1>2, <1>3

\* The last segment written to: the log grows at its end.
LEMMA JoinedLonger ==
  ASSUME NEW s \in Seq(Segment), s # <<>>, NEW rec \in Record
  PROVE  LET n == Len(s)
         IN  Joined([s EXCEPT ![n].recs = Append(@, rec)]) = Append(Joined(s), rec)
  <1> DEFINE n == Len(s)
             last == s[n]
             longer == [last EXCEPT !.recs = Append(@, rec)]
             front == SubSeq(s, 1, n - 1)
             t == [s EXCEPT ![n] = longer]
  <1>1. n \in Nat \ {0} /\ n \in 1..n /\ last \in Segment /\ n - 1 \in 0..n
    <2>1. n \in Nat \ {0} /\ n \in 1..n /\ n - 1 \in 0..n
      OBVIOUS
    <2>2. \A i \in 1..n : s[i] \in Segment
      OBVIOUS
    <2> QED
      BY <2>1, <2>2
  <1>2. /\ longer \in Segment /\ longer.recs = Append(last.recs, rec) /\ last.recs \in Seq(Record)
    <2> HIDE DEF last
    <2>1. last.recs \in Seq(Record) /\ Append(last.recs, rec) \in Seq(Record)
      BY <1>1 DEF Segment
    <2> QED
      BY <1>1, <2>1 DEF Segment
  <1> HIDE DEF longer, last
  <1>3. /\ front \in Seq(Segment) /\ Len(front) = n - 1
        /\ \A i \in 1..(n - 1) : front[i] = s[i]
    BY <1>1, FirstSegments
  <1>4. /\ t \in Seq(Segment) /\ Len(t) = n
        /\ \A j \in 1..n : t[j] = IF j = n THEN longer ELSE s[j]
    BY <1>1, <1>2, ExceptSeq
  <1> HIDE DEF t, front
  <1>5. s = Append(front, last)
    <2>1. /\ Append(front, last) \in Seq(Segment) /\ Len(Append(front, last)) = n
          /\ \A i \in 1..n : Append(front, last)[i] = IF i = n THEN last ELSE front[i]
      BY <1>1, <1>3
    <2>2. \A i \in 1..n : s[i] = Append(front, last)[i]
      BY <1>1, <1>3, <2>1 DEF last
    <2> QED
      BY <1>1, <2>1, <2>2, SeqEqual
  <1>6. t = Append(front, longer)
    <2>1. /\ Append(front, longer) \in Seq(Segment) /\ Len(Append(front, longer)) = n
          /\ \A i \in 1..n : Append(front, longer)[i] = IF i = n THEN longer ELSE front[i]
      BY <1>1, <1>2, <1>3
    <2>2. \A i \in 1..n : t[i] = Append(front, longer)[i]
      BY <1>1, <1>3, <1>4, <2>1
    <2> QED
      BY <1>1, <1>4, <2>1, <2>2, SeqEqual
  <1> DEFINE x == Joined(front)
             y == last.recs
             z == <<rec>>
  <1>7. Joined(s) = x \o y /\ Joined(t) = x \o Append(y, rec)
    BY <1>1, <1>2, <1>3, <1>5, <1>6, JoinedAppend
  <1>8. x \in Seq(Record) /\ y \in Seq(Record) /\ z \in Seq(Record)
    BY <1>2, <1>3, JoinedType
  <1>9. t = [s EXCEPT ![n].recs = Append(@, rec)]
    BY DEF t, longer, last
  <1> HIDE DEF x, y, n
  <1>10. Append(y, rec) = y \o z /\ Append(x \o y, rec) = (x \o y) \o z /\ x \o y \in Seq(Record)
    <2>1. x \o y \in Seq(Record)
      BY <1>8, ConcatProperties
    <2>2. Append(y, rec) = y \o z
      BY <1>8, AppendIsConcat
    <2> DEFINE w == x \o y
    <2> HIDE DEF w
    <2>3. w \in Seq(Record)
      BY <2>1 DEF w
    <2>4. Append(w, rec) = w \o z
      BY <2>3, AppendIsConcat
    <2> QED
      BY <2>1, <2>2, <2>4 DEF w
  <1> HIDE DEF z
  <1>11. (x \o y) \o z = x \o (y \o z)
    BY <1>8, ConcatAssociative
  <1> QED
    BY <1>7, <1>9, <1>10, <1>11 DEF n

LEMMA WrittenWhole ==
  ASSUME NEW cl, SoundClass(cl), NEW rec \in Record
  PROVE  Whole(Written(cl, rec)) = Append(Whole(cl), rec)
  <1> DEFINE a == WithActive(cl)
  <1>1. SoundClass(a) /\ a.segs # <<>> /\ Whole(a) = Whole(cl)
    BY ActiveSound, ActiveWhole
  <1>2. a \in ClassLog /\ a.segs \in Seq(Segment)
    BY <1>1 DEF SoundClass, SoundSegs
  <1>3. Written(cl, rec) = [a EXCEPT !.segs[Len(a.segs)].recs = Append(@, rec)]
    BY DEF Written
  <1> HIDE DEF a
  <1>4. Written(cl, rec).segs = [a.segs EXCEPT ![Len(a.segs)].recs = Append(@, rec)]
    BY <1>2, <1>3 DEF ClassLog
  <1> QED
    BY <1>1, <1>2, <1>4, JoinedLonger DEF Whole

LEMMA IdsOfConcat ==
  ASSUME NEW s \in Seq(Record), NEW t \in Seq(Record)
  PROVE  Ids(s) \subseteq Ids(s \o t) /\ Ids(t) \subseteq Ids(s \o t) /\ s \o t \in Seq(Record)
  <1> DEFINE u == s \o t
  <1>1. /\ u \in Seq(Record) /\ Len(u) = Len(s) + Len(t)
        /\ \A i \in 1..(Len(s) + Len(t)) : u[i] = IF i <= Len(s) THEN s[i] ELSE t[i - Len(s)]
    BY ConcatProperties
  <1> HIDE DEF u
  <1>2. /\ Ids(s) = {s[i].id : i \in 1..Len(s)} /\ Ids(t) = {t[i].id : i \in 1..Len(t)}
        /\ Ids(u) = {u[i].id : i \in 1..Len(u)} /\ Len(s) \in Nat /\ Len(t) \in Nat
    BY <1>1, IdsAre
  <1>3. ASSUME NEW i \in 1..Len(s) PROVE s[i].id \in Ids(u)
    <2>1. i \in 1..Len(u) /\ i \in 1..(Len(s) + Len(t)) /\ i <= Len(s)
      BY <1>1, <1>2
    <2>2. u[i] = s[i]
      BY <1>1, <2>1
    <2> QED
      BY <1>2, <2>1, <2>2
  <1>4. ASSUME NEW i \in 1..Len(t) PROVE t[i].id \in Ids(u)
    <2>1. Len(s) + i \in 1..Len(u) /\ ~(Len(s) + i <= Len(s)) /\ (Len(s) + i) - Len(s) = i
          /\ Len(s) + i \in 1..(Len(s) + Len(t))
      BY <1>1, <1>2
    <2>2. u[Len(s) + i] = t[i]
      BY <1>1, <2>1
    <2> QED
      BY <1>2, <2>1, <2>2
  <1>5. Ids(s) \subseteq Ids(u) /\ Ids(t) \subseteq Ids(u)
    BY <1>2, <1>3, <1>4
  <1> QED
    BY <1>1, <1>5 DEF u

\* What a segment holds, its log holds.
LEMMA SegmentInLog ==
  ASSUME NEW s \in Seq(Segment), NEW i \in 1..Len(s)
  PROVE  Ids(s[i].recs) \subseteq Ids(Joined(s))
  <1> DEFINE a == Joined(SubSeq(s, 1, i - 1))
             b == s[i].recs
             c == Joined(SubSeq(s, 1, i))
             d == Joined(SubSeq(s, i + 1, Len(s)))
  <1>1. i \in 0..Len(s) /\ i \in Nat /\ Len(s) \in Nat
    OBVIOUS
  <1>2. c = a \o b /\ a \in Seq(Record) /\ b \in Seq(Record)
    BY JoinedStep
  <1>3. Joined(s) = c \o d
    BY <1>1, JoinedSplit
  <1>4. d \in Seq(Record)
    <2>1. Joined(Rest(s, i)) \in Seq(Record)
      BY <1>1, SegmentsLeft
    <2> QED
      BY <2>1 DEF Rest
  <1> HIDE DEF a, b, c, d
  <1>5. Ids(b) \subseteq Ids(c) /\ c \in Seq(Record)
    BY <1>2, IdsOfConcat
  <1>6. Ids(c) \subseteq Ids(Joined(s))
    BY <1>3, <1>4, <1>5, IdsOfConcat
  <1> QED
    BY <1>5, <1>6 DEF b

\* What recovery keeps of a log is a piece of it.
LEMMA RecoveredWhole ==
  ASSUME NEW cl, SoundClass(cl), NEW kept, KeptOf(cl, kept)
  PROVE  /\ Ids(Whole(Recovered(cl, kept))) \subseteq Ids(Whole(cl))
         /\ Apart(Whole(cl)) => Apart(Whole(Recovered(cl, kept)))
         /\ Ids(Walk(Recovered(cl, kept))) \subseteq Ids(Walk(cl))
  <1> DEFINE d == OnDisk(cl, kept)
             W == Joined(cl.segs)
             new == Recovered(cl, kept)
             m == Len(Joined(d))
  <1>1. d \in Seq(Segment)
    BY DiskSegments
  <1>2. m \in 0..Len(W) /\ Joined(d) = SubSeq(W, 1, m)
    BY DiskJoined
  <1>3. SoundSegs(d, new.nextSeq)
    BY DiskSound
  <1>4. cl.saved.seq \in Nat
    BY DEF SoundClass, ClassLog, Cursors
  <1>5. new.segs = From(d, cl.saved.seq)
    BY DEF Recovered
  <1> HIDE DEF d, new
  <1>6. PICK j \in 0..Len(d) : new.segs = Rest(d, j)
    BY <1>3, <1>4, <1>5, FromIsRest
  <1>7. IsRest(Joined(new.segs), Joined(d))
    BY <1>1, <1>6, WholeOfRest
  <1>8. W \in Seq(Record)
    BY WholeType DEF Whole
  <1>9. Joined(d) \in Seq(Record) /\ IsPiece(Joined(d), W)
    <2>1. 1 \in 1..Len(W) + 1
      BY <1>8
    <2> HIDE DEF m, W
    <2> QED
      BY <1>2, <1>8, <2>1, SubSeqIsPiece
  <1>10. Joined(new.segs) \in Seq(Record) /\ IsPiece(Joined(new.segs), Joined(d))
    BY <1>7, <1>9, RestIsPiece
  <1>11. /\ Ids(Joined(new.segs)) \subseteq Ids(W)
         /\ Apart(W) => Apart(Joined(new.segs))
    BY <1>8, <1>9, <1>10, PieceKeeps
  <1>12. Ids(Walk(Recovered(cl, kept))) \subseteq Ids(Walk(cl))
    <2>1. PICK i \in 1..Len(Walk(cl)) + 1, e \in 0..Len(Walk(cl)) :
                  Walk(Recovered(cl, kept)) = SubSeq(Walk(cl), i, e)
      BY RecoveredSound
    <2>2. Walk(cl) \in Seq(Record)
      BY WholeType
    <2>3. Walk(Recovered(cl, kept)) \in Seq(Record) /\ IsPiece(Walk(Recovered(cl, kept)), Walk(cl))
      BY <2>1, <2>2, SubSeqIsPiece
    <2> QED
      BY <2>2, <2>3, PieceKeeps
  <1> QED
    BY <1>11, <1>12 DEF new, W, Whole

\* Where the walk of a recovered class starts on the disk: not after the cursor,
\* unless the cursor's file was ahead of it.
LEMMA RecoveredStart ==
  ASSUME NEW cl, SoundClass(cl), NEW kept, KeptOf(cl, kept), ~StaleFile(cl), cl.segs # <<>>,
         NEW k \in 0..Len(cl.segs), NEW o \in Nat, Starts(cl, k, o)
  PROVE  \E p \in Nat :
            /\ p <= Passed(cl.segs, k) + o
            /\ Walk(Recovered(cl, kept)) = Rest(Joined(OnDisk(cl, kept)), p)
  <1> DEFINE d == OnDisk(cl, kept)
             L == Len(cl.segs)
             new == Recovered(cl, kept)
             segs == From(d, cl.saved.seq)
             q == Passed(cl.segs, k) + o
  <1>1. /\ cl \in ClassLog /\ SoundSegs(cl.segs, cl.nextSeq) /\ cl.segs \in Seq(Segment)
        /\ L \in Nat /\ cl.saved \in Cursors /\ cl.saved.seq \in Nat /\ cl.saved.off \in Nat
        /\ cl.cursor.seq \in Nat /\ cl.cursor.off \in Nat /\ L >= 1
    <2>1. cl \in ClassLog /\ SoundSegs(cl.segs, cl.nextSeq) /\ cl.segs \in Seq(Segment)
      BY DEF SoundClass, SoundSegs
    <2>2. L \in Nat /\ L >= 1
      BY <2>1
    <2>3. cl.saved \in Cursors /\ cl.cursor \in Cursors
      BY <2>1 DEF ClassLog
    <2> QED
      BY <2>1, <2>2, <2>3 DEF Cursors
  <1>2. /\ d \in Seq(Segment) /\ Len(d) = L
        /\ \A i \in 1..L : d[i].seq = cl.segs[i].seq
    BY DiskSegments
  <1>3. \A i \in 0..(L - 1) : Passed(d, i) = Passed(cl.segs, i)
    BY DiskJoined
  <1>4. SoundSegs(d, new.nextSeq)
    BY DiskSound
  <1>5. new.segs = segs /\ new.cursor = NormalizedCursor(cl.saved, segs)
    BY DEF Recovered
  <1>6. SoundClass(new)
    BY RecoveredSound
  <1> HIDE DEF d, new
  <1>7. PICK j \in 0..Len(d) :
           /\ segs = Rest(d, j)
           /\ \A i \in 1..Len(d) : i > j <=> d[i].seq >= cl.saved.seq
    BY <1>1, <1>4, FromIsRest
  <1> HIDE DEF segs
  <1>8. /\ segs \in Seq(Segment) /\ Len(segs) = L - j
        /\ \A i \in 1..(L - j) : segs[i] = d[j + i]
    BY <1>2, <1>7, SegmentsLeft
  <1>9. \A i \in 1..L : cl.segs[i].seq \in Nat /\ 1 <= cl.segs[i].seq
    <2>1. \A i \in 1..L : cl.segs[i] \in Segment
      BY <1>1
    <2> QED
      BY <1>1, <2>1 DEF SoundSegs, Segment
  <1>10. Head(cl.segs) = cl.segs[1] /\ 1 \in 1..L /\ cl.segs[1].seq \in Nat
    BY <1>1, <1>9
  <1>11. \/ cl.segs[1].seq > cl.saved.seq
         \/ /\ cl.saved.seq <= cl.cursor.seq
            /\ cl.saved.seq = cl.cursor.seq => cl.saved.off <= cl.cursor.off
    BY <1>1, <1>10 DEF StaleFile
  \* The segment the walk starts in is kept.
  <1>12. j <= k /\ k <= L - 1
    <2>1. CASE cl.segs[1].seq > cl.saved.seq
      <3>1. d[1].seq >= cl.saved.seq /\ 1 \in 1..Len(d) /\ d[1].seq = cl.segs[1].seq
        BY <1>1, <1>2, <1>10, <2>1
      <3>2. 1 > j
        BY <1>7, <3>1
      <3>3. k <= L - 1
        <4>1. k = 0 \/ k < L
          BY DEF Starts
        <4> QED
          BY <1>1, <4>1
      <3> QED
        BY <1>2, <1>7, <3>2, <3>3
    <2>2. CASE cl.saved.seq <= cl.cursor.seq /\ ~(cl.segs[1].seq > cl.saved.seq)
      <3>1. cl.cursor.seq >= 1
        BY <1>1, <1>9, <1>10, <2>2
      <3>2. cl.cursor # ZeroCursor
        BY <3>1 DEF ZeroCursor
      <3>3. k < L /\ cl.cursor.seq = cl.segs[k + 1].seq
        BY <3>2 DEF Starts
      <3>4. k + 1 \in 1..Len(d) /\ d[k + 1].seq = cl.segs[k + 1].seq
        BY <1>1, <1>2, <3>3
      <3>5. k + 1 > j
        BY <1>1, <1>7, <2>2, <3>3, <3>4
      <3> QED
        BY <1>1, <1>2, <1>7, <3>3, <3>5
    <2> QED
      BY <1>11, <2>1, <2>2
  <1>13. /\ j \in Nat /\ j \in 0..(L - 1) /\ k \in 0..(L - 1) /\ 1 \in 1..(L - j) /\ segs # <<>> /\ j + 1 \in 1..L
         /\ (j + 1) - 1 = j /\ 0 \in 0..(Len(segs) - 1) /\ 0 + 1 = 1
    BY <1>1, <1>2, <1>7, <1>8, <1>12
  <1>14. segs[1] = d[j + 1] /\ d[j + 1].seq = cl.segs[j + 1].seq /\ d[j + 1] \in Segment
    <2>1. d[j + 1] \in Segment
      BY <1>2, <1>13
    <2>2. d[j + 1].seq = cl.segs[j + 1].seq
      BY <1>2, <1>13
    <2>3. segs[1] = d[j + 1]
      BY <1>8, <1>13
    <2> QED
      BY <2>1, <2>2, <2>3
  <1>15. segs[1].seq >= cl.saved.seq /\ SoundSegs(segs, new.nextSeq)
    <2>1. j + 1 > j /\ j + 1 \in 1..Len(d)
      BY <1>2, <1>13
    <2>2. d[j + 1].seq >= cl.saved.seq
      BY <1>7, <2>1
    <2>3. SoundSegs(segs, new.nextSeq)
      BY <1>4, <1>7, SoundRest
    <2> QED
      BY <1>14, <2>2, <2>3
  <1>16. PICK x \in Nat :
           /\ NormalizedCursor(cl.saved, segs) = [seq |-> segs[1].seq, off |-> x]
           /\ x <= Bytes(segs[1])
           /\ \/ x = 0
              \/ segs[1].seq = cl.saved.seq /\ x <= cl.saved.off
    BY <1>1, <1>13, <1>15, NormalizedPlace
  <1> DEFINE p == Passed(d, j) + x
  <1>17. Walk(new) = Rest(Joined(d), p)
    <2>1. new.cursor.seq = segs[1].seq /\ new.cursor.off = x
      BY <1>5, <1>16
    <2>2. new \in ClassLog /\ SoundSegs(new.segs, new.nextSeq)
      BY <1>6 DEF SoundClass
    <2>3. Starts(new, 0, x)
      <3>1. /\ 0 \in 0..(Len(new.segs) - 1) /\ new.segs[0 + 1].seq = new.cursor.seq
            /\ new.cursor.off <= Bytes(new.segs[0 + 1])
        BY <1>5, <1>13, <1>16, <2>1
      <3>2. Starts(new, 0, new.cursor.off)
        BY <2>2, <3>1, StartsIn
      <3> QED
        BY <2>1, <3>2
    <2>4. Walk(new) = Rest(Joined(Rest(segs, 0)), x)
      BY <1>5, <2>2, <2>3, WalkIsRest
    <2>5. Rest(segs, 0) = segs
      BY <1>8, RestOfAll
    <2>6. Rest(Joined(Rest(d, j)), x) = Rest(Joined(d), Passed(d, j) + x)
      BY <1>2, <1>7, <1>16, PlaceInLog
    <2> QED
      BY <1>7, <2>4, <2>5, <2>6
  <1>18. Passed(d, j) \in Nat /\ Passed(d, k) \in Nat /\ Passed(d, j + 1) \in Nat /\ p \in Nat
    <2>1. j \in 0..Len(d) /\ k \in 0..Len(d) /\ j + 1 \in 0..Len(d)
      BY <1>1, <1>2, <1>13
    <2>2. Passed(d, j) \in Nat /\ Passed(d, k) \in Nat /\ Passed(d, j + 1) \in Nat
      BY <1>2, <2>1, FirstSegments
    <2> QED
      BY <1>16, <2>2
  <1>19. Passed(d, k) = Passed(cl.segs, k) /\ q = Passed(d, k) + o
    BY <1>3, <1>13
  <1>20. p <= q
    <2>1. CASE j < k
      <3>1. Passed(d, j + 1) = Passed(d, (j + 1) - 1) + Bytes(d[j + 1])
        <4>1. j + 1 \in 1..Len(d)
          BY <1>2, <1>13
        <4> QED
          BY <1>2, <4>1, PassedStep
      <3>2. Passed(d, j + 1) <= Passed(d, k)
        <4>1. k \in 0..Len(d) /\ j + 1 \in 0..k
          BY <1>1, <1>2, <1>13, <2>1
        <4> QED
          BY <1>2, <4>1, PassedMonotone
      <3>3. x <= Bytes(d[j + 1]) /\ Bytes(d[j + 1]) \in Nat
        BY <1>14, <1>16, BytesAreCounted
      <3> HIDE DEF q
      <3> QED
        BY <1>13, <1>16, <1>18, <1>19, <3>1, <3>2, <3>3
    <2>2. CASE j = k
      <3>1. CASE x = 0
        BY <1>18, <1>19, <2>2, <3>1
      <3>2. CASE segs[1].seq = cl.saved.seq /\ x <= cl.saved.off
        <4>1. cl.segs[k + 1].seq = cl.saved.seq
          BY <1>14, <2>2, <3>2
        <4>2. cl.segs[1].seq <= cl.segs[k + 1].seq
          <5>1. CASE k = 0
            BY <1>10, <5>1
          <5>2. CASE k # 0
            <6>1. 1 < k + 1 /\ k + 1 \in 1..L
              BY <1>1, <1>13, <5>2
            <6>2. cl.segs[1].seq < cl.segs[k + 1].seq
              BY <1>1, <1>10, <6>1 DEF SoundSegs
            <6>3. cl.segs[k + 1].seq \in Nat
              BY <1>9, <6>1
            <6> QED
              BY <1>10, <6>2, <6>3
          <5> QED
            BY <5>1, <5>2
        <4>3. /\ cl.saved.seq <= cl.cursor.seq
              /\ cl.saved.seq = cl.cursor.seq => cl.saved.off <= cl.cursor.off
          BY <1>1, <1>10, <1>11, <4>1, <4>2
        <4>4. 1 <= cl.cursor.seq
          BY <1>1, <1>10, <1>9, <4>1, <4>2, <4>3
        <4>5. cl.cursor # ZeroCursor
          BY <4>4 DEF ZeroCursor
        <4>6. cl.cursor.seq = cl.segs[k + 1].seq /\ cl.cursor.off = o
          BY <4>5 DEF Starts
        <4>7. x <= o
          BY <1>1, <1>16, <3>2, <4>1, <4>3, <4>6
        <4> QED
          BY <1>16, <1>18, <1>19, <2>2, <4>7
      <3> QED
        BY <1>16, <3>1, <3>2
    <2> QED
      BY <1>12, <1>13, <2>1, <2>2
  <1> QED
    BY <1>17, <1>18, <1>20 DEF new, d

\* A record of the walk that is on the disk is in the walk again, unless the
\* cursor's file was ahead of the cursor.
LEMMA RecoveredKeeps ==
  ASSUME NEW cl, SoundClass(cl), NEW kept, KeptOf(cl, kept), ~StaleFile(cl), Apart(Whole(cl)),
         NEW i, i \in Ids(Walk(cl)), i \in Ids(Joined(OnDisk(cl, kept)))
  PROVE  i \in Ids(Walk(Recovered(cl, kept)))
  <1> DEFINE D == Joined(OnDisk(cl, kept))
             W == Whole(cl)
             m == Len(D)
             N == Len(W)
  <1>1. W \in Seq(Record) /\ Walk(cl) \in Seq(Record) /\ N \in Nat
    BY WholeType
  <1>2. m \in 0..N /\ D = SubSeq(W, 1, m)
    BY DiskJoined DEF Whole
  <1>3. D \in Seq(Record) /\ \A e \in 1..m : D[e] = W[e]
    <2>1. 0 \in 0..m
      BY <1>1, <1>2
    <2> HIDE DEF m, D, W
    <2>2. SubSeq(W, 1, m) \in Seq(Record) /\ \A e \in 1..m : SubSeq(W, 1, m)[e] = W[e]
      BY <1>1, <1>2, <2>1, PieceOfBeginning
    <2> QED
      BY <1>2, <2>2
  <1>4. PICK k \in 0..Len(cl.segs), o \in Nat : Starts(cl, k, o)
    BY WalkStarts DEF SoundClass
  <1> DEFINE q == Passed(cl.segs, k) + o
  <1>5. /\ Walk(cl) = Rest(W, q) /\ q \in Nat /\ q <= N /\ Len(Walk(cl)) = N - q
    BY <1>4, WalkIsRest DEF SoundClass, Whole
  <1>6. cl.segs # <<>>
    <2>1. Walk(cl) # <<>>
      BY <1>1, IdsAre
    <2> QED
      BY <2>1, WalkOfNoSegments
  <1>7. PICK p \in Nat : p <= q /\ Walk(Recovered(cl, kept)) = Rest(D, p)
    BY <1>4, <1>6, RecoveredStart
  <1> HIDE DEF q, D, W
  <1>8. PICK a \in 1..(N - q) : i = W[q + a].id
    <2>1. Ids(Walk(cl)) = {Walk(cl)[e].id : e \in 1..Len(Walk(cl))}
      BY <1>1, IdsAre
    <2>2. \A e \in 1..(N - q) : Rest(W, q)[e] = W[q + e]
      BY <1>1, <1>5, RestProperties
    <2> QED
      BY <1>5, <2>1, <2>2
  <1>9. PICK b \in 1..m : i = W[b].id
    <2>1. Ids(D) = {D[e].id : e \in 1..m}
      BY <1>3, IdsAre
    <2>2. i \in Ids(D)
      BY DEF D
    <2> QED
      BY <1>3, <2>1, <2>2
  <1>10. q + a = b
    <2>1. q + a \in 1..N /\ b \in 1..N
      BY <1>1, <1>2, <1>5
    <2>2. Apart(W)
      BY DEF W
    <2> QED
      BY <1>8, <1>9, <2>1, <2>2 DEF Apart
  <1>11. /\ Rest(D, p) \in Seq(Record) /\ p <= m
         /\ Len(Rest(D, p)) = m - p
         /\ \A e \in 1..(m - p) : Rest(D, p)[e] = D[p + e]
    <2>1. p <= m
      BY <1>2, <1>5, <1>7, <1>8, <1>9, <1>10
    <2> QED
      BY <1>3, <2>1, RestProperties
  <1>12. b - p \in 1..(m - p) /\ p + (b - p) = b
    BY <1>2, <1>5, <1>7, <1>8, <1>9, <1>10
  <1>13. Rest(D, p)[b - p].id = i
    <2>1. Rest(D, p)[b - p] = D[b]
      BY <1>11, <1>12
    <2> QED
      BY <1>3, <1>9, <2>1
  <1>14. Ids(Rest(D, p)) = {Rest(D, p)[e].id : e \in 1..Len(Rest(D, p))}
    BY <1>11, IdsAre
  <1> QED
    BY <1>7, <1>11, <1>12, <1>13, <1>14

LEMMA DiskIsWhole ==
  ASSUME NEW cl, SoundClass(cl), NEW kept, KeptOf(cl, kept),
         \A i \in 1..Len(cl.segs) : kept[i] = Bytes(cl.segs[i])
  PROVE  Joined(OnDisk(cl, kept)) = Whole(cl)
  <1> DEFINE d == OnDisk(cl, kept)
  <1>1. cl.segs \in Seq(Segment) /\ DOMAIN cl.segs = 1..Len(cl.segs)
    <2>1. cl.segs \in Seq(Segment)
      BY DEF SoundClass, SoundSegs
    <2> QED
      BY <2>1
  <1>2. /\ d \in Seq(Segment) /\ Len(d) = Len(cl.segs)
        /\ \A i \in 1..Len(cl.segs) : d[i].recs = SubSeq(cl.segs[i].recs, 1, kept[i])
    BY DiskSegments
  <1>3. ASSUME NEW i \in 1..Len(cl.segs) PROVE d[i].recs = cl.segs[i].recs
    <2>1. kept[i] = Len(cl.segs[i].recs)
      BY <1>1 DEF Bytes
    <2>2. cl.segs[i].recs \in Seq(Record)
      <3>1. cl.segs[i] \in Segment
        BY <1>1
      <3> QED
        BY <3>1 DEF Segment
    <2>3. SubSeq(cl.segs[i].recs, 1, Len(cl.segs[i].recs)) = cl.segs[i].recs
      BY <2>2
    <2> QED
      BY <1>2, <2>1, <2>3
  <1> HIDE DEF d
  <1>4. Joined(d) = Joined(cl.segs)
    BY <1>1, <1>2, <1>3, JoinedAlike
  <1> QED
    BY <1>4 DEF d, Whole

\* A class closed and opened again reads the same records.
LEMMA ReopenedKeeps ==
  ASSUME NEW cl, SoundClass(cl), Apart(Whole(cl)),
         NEW kept, kept = [i \in DOMAIN Closed(cl).segs |-> Bytes(Closed(cl).segs[i])]
  PROVE  /\ Ids(Whole(Recovered(Closed(cl), kept))) \subseteq Ids(Whole(cl))
         /\ Apart(Whole(Recovered(Closed(cl), kept)))
         /\ Ids(Walk(Recovered(Closed(cl), kept))) = Ids(Walk(cl))
  <1> DEFINE x == Closed(cl)
  <1>1. SoundClass(x) /\ Walk(x) = Walk(cl) /\ KeptOf(x, kept)
    BY ClosedSound
  <1>2. cl \in ClassLog /\ cl.segs \in Seq(Segment)
    BY DEF SoundClass, SoundSegs
  <1>3. Whole(x) = Whole(cl) /\ x.cursor = cl.cursor /\ (x.segs # <<>> => x.saved = x.cursor)
    <2> DEFINE s == Synced(cl)
               v == IF cl.segs = <<>> THEN s.saved ELSE cl.cursor
    <2>1. /\ s.segs \in Seq(Segment) /\ Len(s.segs) = Len(cl.segs)
          /\ s = [cl EXCEPT !.segs = s.segs]
      BY <1>2, SyncedSegs
    <2>2. Joined(s.segs) = Joined(cl.segs)
      BY SyncedWhole DEF Whole
    <2>3. x = [s EXCEPT !.saved = v]
      BY DEF Closed
    <2>4. s.cursor = cl.cursor /\ s \in ClassLog
      BY SyncedSound, <1>2, <2>1 DEF ClassLog, SoundClass
    <2> HIDE DEF s, v
    <2>5. x.segs = s.segs /\ x.cursor = s.cursor /\ x.saved = v
      BY <2>3, <2>4 DEF ClassLog
    <2>6. x.segs # <<>> => cl.segs # <<>>
      BY <1>2, <2>1, <2>5
    <2> QED
      BY <2>2, <2>4, <2>5, <2>6 DEF Whole, v
  <1>4. ~StaleFile(x)
    <2>1. x.cursor \in Cursors
      BY <1>1 DEF SoundClass, ClassLog
    <2> HIDE DEF x
    <2> QED
      BY <1>3, <2>1 DEF StaleFile, Cursors
  <1>5. x.segs \in Seq(Segment) /\ DOMAIN x.segs = 1..Len(x.segs)
    <2>1. x.segs \in Seq(Segment)
      BY <1>1 DEF SoundClass, SoundSegs
    <2> HIDE DEF x
    <2> QED
      BY <2>1
  <1>6. kept = [i \in DOMAIN x.segs |-> Bytes(x.segs[i])]
    OBVIOUS
  <1> HIDE DEF x
  <1>7. Joined(OnDisk(x, kept)) = Whole(x)
    <2>1. \A i \in 1..Len(x.segs) : kept[i] = Bytes(x.segs[i])
      BY <1>5, <1>6
    <2> QED
      BY <1>1, <2>1, DiskIsWhole
  <1>8. Apart(Whole(x))
    BY <1>3
  <1>9. /\ Ids(Whole(Recovered(x, kept))) \subseteq Ids(Whole(x))
        /\ Apart(Whole(Recovered(x, kept)))
        /\ Ids(Walk(Recovered(x, kept))) \subseteq Ids(Walk(x))
    BY <1>1, <1>8, RecoveredWhole
  <1>10. ASSUME NEW i \in Ids(Walk(x)) PROVE i \in Ids(Walk(Recovered(x, kept)))
    <2>1. Ids(Walk(x)) \subseteq Ids(Whole(x))
      BY <1>1, WholeType
    <2>2. i \in Ids(Joined(OnDisk(x, kept)))
      BY <1>7, <2>1
    <2> QED
      BY <1>1, <1>4, <1>8, <2>2, RecoveredKeeps
  <1> QED
    BY <1>1, <1>3, <1>9, <1>10 DEF x

-----------------------------------------------------------------------------
(* The records of a spool.                                                 *)

\* The records the segments hold, consumed ones included.
Held(sp) == UNION {Ids(Whole(sp[c])) : c \in Classes}

\* Every record has one place.
OnePlace(sp) ==
    /\ \A c \in Classes : Apart(Whole(sp[c]))
    /\ \A c, k \in Classes : c # k => Ids(Whole(sp[c])) \cap Ids(Whole(sp[k])) = {}

Shrinks(sp, new) ==
    \A c \in Classes :
        /\ Ids(Whole(new[c])) \subseteq Ids(Whole(sp[c]))
        /\ Apart(Whole(sp[c])) => Apart(Whole(new[c]))
        /\ Ids(Walk(new[c])) \subseteq Ids(Walk(sp[c]))

LEMMA ShrinkKeeps ==
  ASSUME NEW sp, NEW new, Shrinks(sp, new)
  PROVE  /\ OnePlace(sp) => OnePlace(new)
         /\ Held(new) \subseteq Held(sp) /\ IdsIn(new) \subseteq IdsIn(sp)
  <1>1. Held(new) \subseteq Held(sp)
    BY DEF Shrinks, Held
  <1>2. IdsIn(new) \subseteq IdsIn(sp)
    BY DEF Shrinks, IdsIn
  <1>3. ASSUME OnePlace(sp) PROVE OnePlace(new)
    <2>1. \A c \in Classes : Apart(Whole(new[c]))
      BY <1>3 DEF Shrinks, OnePlace
    <2>2. \A c, k \in Classes : c # k => Ids(Whole(new[c])) \cap Ids(Whole(new[k])) = {}
      <3>1. \A c \in Classes : Ids(Whole(new[c])) \subseteq Ids(Whole(sp[c]))
        BY DEF Shrinks
      <3>2. \A c, k \in Classes : c # k => Ids(Whole(sp[c])) \cap Ids(Whole(sp[k])) = {}
        BY <1>3 DEF OnePlace
      <3> QED
        BY <3>1, <3>2, Zenon
    <2> QED
      BY <2>1, <2>2 DEF OnePlace
  <1> QED
    BY <1>1, <1>2, <1>3

LEMMA RestShrinks ==
  ASSUME NEW cl, SoundClass(cl), NEW new, IsRest(Walk(new), Walk(cl)), IsRest(Whole(new), Whole(cl))
  PROVE  /\ Ids(Whole(new)) \subseteq Ids(Whole(cl))
         /\ Apart(Whole(cl)) => Apart(Whole(new))
         /\ Ids(Walk(new)) \subseteq Ids(Walk(cl))
  <1>1. Walk(cl) \in Seq(Record) /\ Whole(cl) \in Seq(Record)
    BY WholeType
  <1>2. Walk(new) \in Seq(Record) /\ IsPiece(Walk(new), Walk(cl))
    BY <1>1, RestIsPiece
  <1>3. Whole(new) \in Seq(Record) /\ IsPiece(Whole(new), Whole(cl))
    BY <1>1, RestIsPiece
  <1> QED
    BY <1>1, <1>2, <1>3, PieceKeeps

LEMMA CutShrinks ==
  ASSUME NEW sp, SoundSpool(sp), NEW new, NEW c \in Classes, Cut(sp, new, c)
  PROVE  Shrinks(sp, new)
  <1> SUFFICES ASSUME NEW k \in Classes
               PROVE  /\ Ids(Whole(new[k])) \subseteq Ids(Whole(sp[k]))
                      /\ Apart(Whole(sp[k])) => Apart(Whole(new[k]))
                      /\ Ids(Walk(new[k])) \subseteq Ids(Walk(sp[k]))
    BY DEF Shrinks
  <1>1. SoundClass(sp[k]) /\ IsRest(Walk(new[k]), Walk(sp[k])) /\ IsRest(Whole(new[k]), Whole(sp[k]))
    BY DEF SoundSpool, Cut
  <1> QED
    BY <1>1, RestShrinks

\* A new record is stored at one place.
LEMMA StoredKeeps ==
  ASSUME NEW room, SoundSpool(room), NEW c \in Classes, NEW rec \in Record,
         OnePlace(room), rec.id \notin Held(room)
  PROVE  LET new == [room EXCEPT ![c] = Written(@, rec)]
         IN  /\ SoundSpool(new) /\ OnePlace(new)
             /\ Held(new) = Held(room) \cup {rec.id}
             /\ IdsIn(new) = IdsIn(room) \cup {rec.id}
  <1> DEFINE e == Written(room[c], rec)
             new == [room EXCEPT ![c] = Written(@, rec)]
             H(k) == Ids(Whole(room[k]))
  <1>1. SoundClass(room[c]) /\ room \in [Classes -> ClassLog]
    BY DEF SoundSpool
  <1>2. SoundSpool(new)
    BY StoredSpool
  <1>3. Walk(e) = Append(Walk(room[c]), rec) /\ Whole(e) = Append(Whole(room[c]), rec)
    BY <1>1, WrittenSound, WrittenWhole
  <1>4. Walk(room[c]) \in Seq(Record) /\ Whole(room[c]) \in Seq(Record)
    BY <1>1, WholeType
  <1>5. rec.id \notin H(c) /\ Apart(Whole(room[c]))
    BY DEF Held, OnePlace
  <1>6. /\ Ids(Walk(e)) = Ids(Walk(room[c])) \cup {rec.id}
        /\ Ids(Whole(e)) = H(c) \cup {rec.id} /\ Apart(Whole(e))
    BY <1>3, <1>4, <1>5, AppendKeeps
  <1>7. \A k \in Classes : new[k] = IF k = c THEN e ELSE room[k]
    BY <1>1
  <1> HIDE DEF new, e
  <1>8. Held(new) = Held(room) \cup {rec.id}
    BY <1>6, <1>7 DEF Held
  <1>9. IdsIn(new) = IdsIn(room) \cup {rec.id}
    BY <1>6, <1>7 DEF IdsIn
  <1>10. \A k \in Classes : Apart(Whole(new[k]))
    BY <1>6, <1>7 DEF OnePlace
  <1>11. ASSUME NEW j \in Classes, NEW k \in Classes, j # k
         PROVE  Ids(Whole(new[j])) \cap Ids(Whole(new[k])) = {}
    <2>1. H(j) \cap H(k) = {} /\ rec.id \notin H(j) /\ rec.id \notin H(k)
      BY <1>11 DEF OnePlace, Held
    <2>2. /\ Ids(Whole(new[j])) = IF j = c THEN H(j) \cup {rec.id} ELSE H(j)
          /\ Ids(Whole(new[k])) = IF k = c THEN H(k) \cup {rec.id} ELSE H(k)
      BY <1>6, <1>7
    <2> HIDE DEF H
    <2> QED
      BY <1>11, <2>1, <2>2
  <1>12. OnePlace(new)
    BY <1>10, <1>11 DEF OnePlace
  <1> QED
    BY <1>2, <1>8, <1>9, <1>12 DEF new

LEMMA SyncedKeeps ==
  ASSUME NEW sp, SoundSpool(sp)
  PROVE  LET new == [k \in Classes |-> Synced(sp[k])]
         IN  /\ OnePlace(sp) => OnePlace(new)
             /\ Held(new) = Held(sp) /\ IdsIn(new) = IdsIn(sp)
  <1> DEFINE new == [k \in Classes |-> Synced(sp[k])]
  <1>1. \A k \in Classes : Whole(new[k]) = Whole(sp[k]) /\ Walk(new[k]) = Walk(sp[k])
    BY SyncedSound, SyncedWhole DEF SoundSpool
  <1> HIDE DEF new
  <1>2. Held(new) = Held(sp) /\ IdsIn(new) = IdsIn(sp)
    BY <1>1 DEF Held, IdsIn
  <1>3. OnePlace(sp) => OnePlace(new)
    BY <1>1 DEF OnePlace
  <1> QED
    BY <1>2, <1>3 DEF new

\* What an append does to the records: some give way, the new one is stored or
\* refused.
LEMMA AppendedKeeps ==
  ASSUME NEW sp, SoundSpool(sp), OnePlace(sp), NEW c \in Classes, NEW rec \in Record,
         rec.id \notin Held(sp), NEW sync \in BOOLEAN
  PROVE  LET room == MadeRoom(sp, c)
             new == Appended(room, c, rec, sync)
         IN  /\ IdsIn(room) \subseteq IdsIn(sp) /\ OnePlace(new)
             /\ Held(new) \subseteq Held(sp) \cup {rec.id}
             /\ IdsIn(new) = IF Fits(room) THEN IdsIn(room) \cup {rec.id} ELSE IdsIn(room)
  <1> DEFINE room == MadeRoom(sp, c)
             stored == [room EXCEPT ![c] = Written(@, rec)]
             new == Appended(room, c, rec, sync)
  <1>1. SoundSpool(room) /\ Shrinks(sp, room)
    BY RoomMade, CutShrinks
  <1>2. OnePlace(room) /\ Held(room) \subseteq Held(sp) /\ IdsIn(room) \subseteq IdsIn(sp)
    BY <1>1, ShrinkKeeps
  <1> HIDE DEF room
  <1>3. rec.id \notin Held(room)
    BY <1>2
  <1>4. /\ SoundSpool(stored) /\ OnePlace(stored)
        /\ Held(stored) = Held(room) \cup {rec.id}
        /\ IdsIn(stored) = IdsIn(room) \cup {rec.id}
    BY <1>1, <1>2, <1>3, StoredKeeps
  <1> HIDE DEF stored
  <1>5. /\ OnePlace([k \in Classes |-> Synced(stored[k])])
        /\ Held([k \in Classes |-> Synced(stored[k])]) = Held(stored)
        /\ IdsIn([k \in Classes |-> Synced(stored[k])]) = IdsIn(stored)
    BY <1>4, SyncedKeeps
  <1>6. new = IF ~Fits(room) THEN room
              ELSE IF sync THEN [k \in Classes |-> Synced(stored[k])] ELSE stored
    BY DEF Appended, stored
  <1> HIDE DEF new
  <1> DEFINE ids == IF Fits(room) THEN IdsIn(room) \cup {rec.id} ELSE IdsIn(room)
  <1>7. CASE ~Fits(room)
    <2>1. new = room /\ ids = IdsIn(room)
      BY <1>6, <1>7, Zenon
    <2> HIDE DEF ids
    <2>2. OnePlace(new) /\ Held(new) \subseteq Held(sp) \cup {rec.id} /\ IdsIn(new) = ids
      BY <1>2, <2>1
    <2> QED
      BY <1>2, <2>2 DEF room, new, ids
  <1>8. CASE Fits(room)
    <2>1. new = stored \/ new = [k \in Classes |-> Synced(stored[k])]
      BY <1>6, <1>8
    <2>2. OnePlace(new) /\ Held(new) = Held(stored) /\ IdsIn(new) = IdsIn(stored)
      BY <1>4, <1>5, <2>1
    <2>3. ids = IdsIn(room) \cup {rec.id}
      BY <1>8, Zenon
    <2> HIDE DEF ids
    <2>4. OnePlace(new) /\ Held(new) \subseteq Held(sp) \cup {rec.id} /\ IdsIn(new) = ids
      BY <1>2, <1>4, <2>2, <2>3
    <2> QED
      BY <1>2, <2>4 DEF room, new, ids
  <1> QED
    BY <1>7, <1>8

-----------------------------------------------------------------------------
(* No record is lost without a cause.                                      *)

\* What is said of the frame once the cloud acknowledged it.
FrameSettled ==
    pc \in {"bump", "commit"} => \A i \in Ids(frame) : fate[i] = "spooled" => i \in arrived

Account ==
    /\ fate \in [1..MaxRecords -> Fates]
    /\ Born = 1..Cardinality(Born)
    /\ OnePlace(class)
    /\ Held(class) \subseteq Born /\ Ids(frame) \subseteq Born /\ consumed \subseteq Born
    /\ FrameSettled
    /\ EveryRecordAccounted
    /\ ConsumedStaysConsumed

LEMMA AccountFacts ==
  ASSUME UplinkInv, Account
  PROVE  /\ Cardinality(Born) \in Nat /\ Born = 1..Cardinality(Born)
         /\ Born \subseteq 1..MaxRecords
         /\ IdsIn(class) \subseteq Held(class) /\ Held(class) \subseteq Born
         /\ \A j \in 1..MaxRecords : fate[j] = "spooled" => j \in arrived \cup IdsIn(class)
         /\ \A j \in 1..MaxRecords : j \in Born <=> fate[j] # "unborn"
         /\ consumed \cap IdsIn(class) = {}
  <1>1. MaxRecords \in Nat
    BY UplinkAssumption
  <1>2. Born \subseteq 1..MaxRecords
    BY DEF Born
  <1>3. IsFiniteSet(Born)
    <2>1. IsFiniteSet(1..MaxRecords)
      BY <1>1, FS_Interval
    <2> QED
      BY <1>2, <2>1, FS_Subset
  <1>4. Cardinality(Born) \in Nat
    BY <1>3, FS_CardinalityType
  <1>5. IdsIn(class) \subseteq Held(class)
    <2>1. \A c \in Classes : Ids(Walk(class[c])) \subseteq Ids(Whole(class[c]))
      BY WholeType DEF UplinkInv, SoundSpool
    <2> QED
      BY <2>1 DEF IdsIn, Held
  <1>6. \A j \in 1..MaxRecords : fate[j] = "spooled" => j \in arrived \cup IdsIn(class)
    BY DEF Account, EveryRecordAccounted, Born
  <1>7. \A j \in 1..MaxRecords : j \in Born <=> fate[j] # "unborn"
    BY DEF Born
  <1> QED
    BY <1>2, <1>4, <1>5, <1>6, <1>7 DEF Account, ConsumedStaysConsumed

\* What Settled changes.
LEMMA SettledFates ==
  ASSUME Account, NEW ids, NEW f \in Fates \ {"unborn", "spooled"}
  PROVE  LET new == Settled(ids, f)
         IN  /\ new \in [1..MaxRecords -> Fates]
             /\ \A j \in 1..MaxRecords : new[j] = "unborn" <=> fate[j] = "unborn"
             /\ \A j \in 1..MaxRecords : new[j] = "spooled" => fate[j] = "spooled"
             /\ \A j \in 1..MaxRecords : new[j] = "spooled" /\ j \in ids => j \in arrived
  <1> DEFINE new == Settled(ids, f)
             open == {i \in ids : fate[i] = "spooled"} \ arrived
  <1>1. fate \in [1..MaxRecords -> Fates] /\ DOMAIN fate = 1..MaxRecords
    BY DEF Account
  <1>2. CASE ids = {}
    <2>1. new = fate
      BY <1>2 DEF Settled
    <2> HIDE DEF new
    <2> QED
      BY <1>1, <1>2, <2>1 DEF new
  <1>3. CASE ids # {}
    <2>1. new = [i \in 1..MaxRecords |-> IF i \in open THEN f ELSE fate[i]]
      BY <1>1, <1>3 DEF Settled
    <2> HIDE DEF new
    <2>2. new \in [1..MaxRecords -> Fates]
      BY <1>1, <2>1
    <2>3. \A j \in 1..MaxRecords : new[j] = IF j \in open THEN f ELSE fate[j]
      BY <2>1
    <2>4. f # "unborn" /\ f # "spooled"
      OBVIOUS
    <2> QED
      BY <2>2, <2>3, <2>4 DEF new
  <1> QED
    BY <1>2, <1>3

\* The next account, when n records are born.
LEMMA AccountNext ==
  ASSUME NEW n \in Nat,
         fate' \in [1..MaxRecords -> Fates],
         \A j \in 1..MaxRecords : j \in 1..n <=> fate'[j] # "unborn", n <= MaxRecords,
         OnePlace(class'), Held(class') \subseteq 1..n,
         Ids(frame') \subseteq 1..n, consumed' \subseteq 1..n,
         pc' \in {"bump", "commit"} => \A i \in Ids(frame') : fate'[i] = "spooled" => i \in arrived',
         \A j \in 1..MaxRecords : fate'[j] = "spooled" => j \in arrived' \cup IdsIn(class'),
         consumed' \cap IdsIn(class') = {}
  PROVE  Account'
  <1>1. Born' = {i \in 1..MaxRecords : fate'[i] # "unborn"}
    BY DEF Born
  <1>2. Born' = 1..n
    <2>1. MaxRecords \in Nat /\ 1..n \subseteq 1..MaxRecords
      BY UplinkAssumption
    <2> QED
      BY <1>1, <2>1
  <1>3. Cardinality(1..n) = n
    BY FS_Interval
  <1>4. Born' = 1..Cardinality(Born')
    BY <1>2, <1>3
  <1>5. OnePlace(class)' /\ Held(class)' \subseteq Born'
    BY <1>2 DEF OnePlace, Held
  <1>6. Ids(frame)' \subseteq Born' /\ consumed' \subseteq Born'
    BY <1>2 DEF Ids
  <1>7. FrameSettled'
    BY DEF FrameSettled, Ids
  <1>8. IdsIn(class)' = IdsIn(class')
    BY DEF IdsIn
  <1>9. EveryRecordAccounted'
    BY <1>1, <1>8 DEF EveryRecordAccounted
  <1>10. ConsumedStaysConsumed'
    BY <1>8 DEF ConsumedStaysConsumed
  <1> QED
    BY <1>4, <1>5, <1>6, <1>7, <1>9, <1>10 DEF Account

\* The next account, when no record is born.
LEMMA AccountKept ==
  ASSUME UplinkInv, Account,
         fate' \in [1..MaxRecords -> Fates],
         \A j \in 1..MaxRecords : fate'[j] = "unborn" <=> fate[j] = "unborn",
         \A j \in 1..MaxRecords : fate'[j] = "spooled" => fate[j] = "spooled",
         arrived \subseteq arrived',
         OnePlace(class'), Held(class') \subseteq Held(class),
         Ids(frame') \subseteq Born, consumed' \subseteq Born,
         pc' \in {"bump", "commit"} => \A i \in Ids(frame') : fate'[i] = "spooled" => i \in arrived',
         \A j \in IdsIn(class) : fate'[j] = "spooled" => j \in arrived' \cup IdsIn(class'),
         consumed' \cap IdsIn(class') = {}
  PROVE  Account'
  <1> DEFINE n == Cardinality(Born)
  <1>1. /\ n \in Nat /\ Born = 1..n /\ Born \subseteq 1..MaxRecords
        /\ \A j \in 1..MaxRecords : fate[j] = "spooled" => j \in arrived \cup IdsIn(class)
        /\ \A j \in 1..MaxRecords : j \in Born <=> fate[j] # "unborn"
        /\ Held(class) \subseteq Born
    BY AccountFacts
  <1> HIDE DEF n
  <1>2. n <= MaxRecords
    <2>1. n = 0 \/ n \in 1..n
      BY <1>1
    <2>2. MaxRecords \in Nat
      BY UplinkAssumption
    <2> QED
      BY <1>1, <2>1, <2>2
  <1>3. \A j \in 1..MaxRecords : j \in 1..n <=> fate'[j] # "unborn"
    BY <1>1
  <1>4. \A j \in 1..MaxRecords : fate'[j] = "spooled" => j \in arrived' \cup IdsIn(class')
    BY <1>1
  <1>5. Held(class') \subseteq 1..n /\ Ids(frame') \subseteq 1..n /\ consumed' \subseteq 1..n
    BY <1>1
  <1> QED
    BY <1>1, <1>2, <1>3, <1>4, <1>5, AccountNext

LEMMA AccountStarts ==
  ASSUME Init
  PROVE  Account
  <1>1. fate = [i \in 1..MaxRecords |-> "unborn"] /\ "unborn" \in Fates
    BY DEF Init, Fates
  <1>2. fate \in [1..MaxRecords -> Fates] /\ Born = {}
    BY <1>1 DEF Born
  <1>3. Cardinality(Born) = 0 /\ Born = 1..Cardinality(Born)
    BY <1>2, FS_EmptySet
  <1>4. \A c \in Classes : class[c].segs = <<>> /\ SoundClass(class[c])
    <2>1. \A c \in Classes : class[c] = EmptyClass
      BY DEF Init
    <2> QED
      BY <2>1, UplinkStarts DEF UplinkInv, SoundSpool, EmptyClass
  <1>5. \A c \in Classes : Whole(class[c]) = <<>> /\ Walk(class[c]) = <<>>
    BY <1>4, JoinedNone, WalkOfNoSegments DEF Whole
  <1>6. Ids(<<>>) = {} /\ Apart(<<>>)
    BY DEF Ids, Apart
  <1>7. OnePlace(class) /\ Held(class) = {} /\ IdsIn(class) = {}
    BY <1>5, <1>6 DEF OnePlace, Held, IdsIn
  <1>8. Ids(frame) = {} /\ consumed = {} /\ pc = "idle"
    BY <1>6 DEF Init
  <1>9. FrameSettled
    BY <1>8 DEF FrameSettled
  <1> QED
    BY <1>2, <1>3, <1>7, <1>8, <1>9 DEF Account, EveryRecordAccounted, ConsumedStaysConsumed

LEMMA CollectAccounts ==
  ASSUME UplinkInv, Account, NEW s \in Stream, Collect(s)
  PROVE  Account'
  <1> DEFINE c == ClassOf[s]
             n == Cardinality(Born)
             i == n + 1
             room == MadeRoom(class, c)
             rec == [id |-> i, stream |-> s]
             lost == IdsIn(class) \ IdsIn(room)
             open == Settled(lost, "dropped")
             what == IF Fits(room) THEN "spooled" ELSE "dropped"
  <1>1. /\ n \in Nat /\ Born = 1..n /\ Born \subseteq 1..MaxRecords
        /\ \A j \in 1..MaxRecords : fate[j] = "spooled" => j \in arrived \cup IdsIn(class)
        /\ \A j \in 1..MaxRecords : j \in Born <=> fate[j] # "unborn"
        /\ Held(class) \subseteq Born /\ IdsIn(class) \subseteq Held(class)
        /\ consumed \cap IdsIn(class) = {}
    BY AccountFacts
  <1>2. /\ i <= MaxRecords /\ fate' = [open EXCEPT ![i] = what]
        /\ pc' = pc /\ frame' = frame /\ arrived' = arrived /\ consumed' = consumed
        /\ \E due \in {Fits(room), FALSE} : class' = Appended(room, c, rec, due)
    BY Zenon DEF Collect, batchVars, cloudVars
  <1>3. PICK due \in {Fits(room), FALSE} : class' = Appended(room, c, rec, due)
    BY <1>2
  <1>4. due \in BOOLEAN
    <2>1. Fits(room) \in BOOLEAN
      <3> HIDE DEF room
      <3> QED
        BY DEF Fits
    <2> HIDE DEF room
    <2>2. due = Fits(room) \/ due = FALSE
      BY <1>3
    <2> QED
      BY <2>1, <2>2, Zenon
  <1>5. MaxRecords \in Nat /\ c \in Classes /\ i \in 1..MaxRecords /\ i \notin Born /\ i \in Nat
    <2>1. MaxRecords \in Nat /\ c \in Classes
      BY UplinkAssumption
    <2> HIDE DEF n
    <2> QED
      BY <1>1, <1>2, <2>1
  <1>6. rec \in Record /\ rec.id = i
    BY <1>5 DEF Record
  <1> HIDE DEF n, rec
  <1>7. /\ IdsIn(room) \subseteq IdsIn(class) /\ OnePlace(class')
        /\ Held(class') \subseteq Held(class) \cup {i}
        /\ IdsIn(class') = IF Fits(room) THEN IdsIn(room) \cup {i} ELSE IdsIn(room)
    <2>1. rec.id \notin Held(class) /\ SoundSpool(class) /\ OnePlace(class)
      BY <1>1, <1>5, <1>6 DEF UplinkInv, Account
    <2> HIDE DEF c
    <2> QED
      BY <1>3, <1>4, <1>5, <1>6, <2>1, AppendedKeeps
  <1>8. /\ open \in [1..MaxRecords -> Fates]
        /\ \A j \in 1..MaxRecords : open[j] = "unborn" <=> fate[j] = "unborn"
        /\ \A j \in 1..MaxRecords : open[j] = "spooled" => fate[j] = "spooled"
        /\ \A j \in 1..MaxRecords : open[j] = "spooled" /\ j \in lost => j \in arrived
    <2>1. "dropped" \in Fates \ {"unborn", "spooled"}
      BY DEF Fates
    <2> HIDE DEF lost
    <2> QED
      BY <2>1, SettledFates
  <1>9. what \in Fates /\ what # "unborn" /\ (what = "spooled" => Fits(room))
    <2> HIDE DEF room
    <2>1. CASE Fits(room)
      BY <2>1 DEF Fates
    <2>2. CASE ~Fits(room)
      BY <2>2 DEF Fates
    <2> QED
      BY <2>1, <2>2
  <1> HIDE DEF room, what, open
  <1>10. /\ fate' \in [1..MaxRecords -> Fates]
         /\ \A j \in 1..MaxRecords : fate'[j] = IF j = i THEN what ELSE open[j]
    BY <1>2, <1>5, <1>8, <1>9
  <1> HIDE DEF i
  <1>11. \A j \in 1..MaxRecords : j \in 1..(n + 1) <=> fate'[j] # "unborn"
    <2>1. \A j \in 1..MaxRecords : j \in 1..(n + 1) <=> j \in Born \/ j = n + 1
      BY <1>1
    <2>2. i = n + 1
      BY DEF i
    <2> QED
      BY <1>1, <1>8, <1>9, <1>10, <2>1, <2>2
  <1>12. n + 1 \in Nat /\ n + 1 <= MaxRecords /\ Born \cup {i} \subseteq 1..(n + 1)
    BY <1>1, <1>2 DEF i
  <1>13. Held(class') \subseteq 1..(n + 1) /\ Ids(frame') \subseteq 1..(n + 1)
         /\ consumed' \subseteq 1..(n + 1)
    BY <1>1, <1>2, <1>7, <1>12 DEF Account
  <1>14. ASSUME pc' \in {"bump", "commit"}, NEW j \in Ids(frame'), fate'[j] = "spooled"
         PROVE  j \in arrived'
    <2>1. j \in Ids(frame) /\ j \in Born /\ j # i /\ j \in 1..MaxRecords
      BY <1>1, <1>2, <1>5, <1>14 DEF Account
    <2>2. fate[j] = "spooled"
      BY <1>8, <1>10, <1>14, <2>1
    <2> QED
      BY <1>2, <1>14, <2>1, <2>2 DEF Account, FrameSettled
  <1>15. IdsIn(room) \subseteq IdsIn(class') /\ (Fits(room) => i \in IdsIn(class'))
    <2>1. CASE Fits(room)
      BY <1>7, <2>1
    <2>2. CASE ~Fits(room)
      BY <1>7, <2>2
    <2> QED
      BY <2>1, <2>2
  <1>16. IdsIn(class') \subseteq IdsIn(room) \cup {i}
    <2>1. CASE Fits(room)
      BY <1>7, <2>1
    <2>2. CASE ~Fits(room)
      BY <1>7, <2>2
    <2> QED
      BY <2>1, <2>2
  <1>17. ASSUME NEW j \in 1..MaxRecords, fate'[j] = "spooled" PROVE j \in arrived' \cup IdsIn(class')
    <2>1. CASE j = i
      BY <1>9, <1>10, <1>15, <1>17, <2>1
    <2>2. CASE j # i
      <3>1. open[j] = "spooled" /\ fate[j] = "spooled"
        BY <1>8, <1>10, <1>17, <2>2
      <3>2. j \in arrived \/ j \in IdsIn(class)
        BY <1>1, <3>1
      <3>3. j \in IdsIn(class) /\ j \notin IdsIn(room) => j \in arrived
        BY <1>8, <3>1
      <3> QED
        BY <1>2, <1>15, <3>2, <3>3
    <2> QED
      BY <2>1, <2>2
  <1>18. consumed' \cap IdsIn(class') = {}
    <2>1. i \notin consumed
      BY <1>5 DEF Account
    <2> QED
      BY <1>1, <1>2, <1>7, <1>16, <2>1
  <1> HIDE DEF lost, c
  <1> QED
    BY <1>7, <1>10, <1>11, <1>12, <1>13, <1>14, <1>17, <1>18, AccountNext

LEMMA DrainPeekAccounts ==
  ASSUME UplinkInv, Account, DrainPeek
  PROVE  Account'
  <1> DEFINE run == LeadingRun(Peeked(class, MaxPeek))
             w == Walk(class[TopClass(class)])
  <1>1. SoundSpool(class) /\ TopClass(class) # NoClass
    BY DEF UplinkInv, DrainPeek, Peekable
  <1>2. /\ w \in Seq(Record) /\ TopClass(class) \in Classes
        /\ Len(run) \in 1..Len(w)
        /\ \A n \in 1..Len(run) : SubSeq(run, 1, n) = SubSeq(w, 1, n)
    BY <1>1, PeekedIsBeginning
  <1>3. PICK n \in 1..Len(run) : frame' = SubSeq(run, 1, n)
    <2>1. \/ \E n \in Halvings(Len(run)) : frame' = SubSeq(run, 1, n)
          \/ frame' = SubSeq(run, 1, 1)
      BY DEF DrainPeek
    <2> HIDE DEF run, w
    <2>2. Halvings(Len(run)) \subseteq 1..Len(run) /\ 1 \in 1..Len(run)
      BY <1>2 DEF Halvings
    <2> QED
      BY <2>1, <2>2
  <1>4. Ids(frame') \subseteq Ids(w)
    <2> HIDE DEF run, w
    <2>1. n \in 0..Len(w) /\ frame' = SubSeq(w, 1, n)
      BY <1>2, <1>3
    <2> QED
      BY <1>2, <2>1, SplitKeeps
  <1>5. Ids(w) \subseteq IdsIn(class)
    BY <1>2 DEF IdsIn
  <1> HIDE DEF run, w
  <1>6. /\ class' = class /\ arrived' = arrived /\ fate' = fate /\ consumed' = consumed
        /\ pc' \in {"publish", "discard"}
    BY DEF DrainPeek, cloudVars
  <1>7. /\ IdsIn(class) \subseteq Born /\ consumed \cap IdsIn(class) = {}
        /\ \A j \in 1..MaxRecords : fate[j] = "spooled" => j \in arrived \cup IdsIn(class)
    BY AccountFacts
  <1>8. ~(pc' \in {"bump", "commit"})
    BY <1>6
  <1> QED
    BY <1>4, <1>5, <1>6, <1>7, <1>8, AccountKept DEF Account

LEMMA PublishAccounts ==
  ASSUME UplinkInv, Account
  PROVE  /\ PublishAcked => Account'
         /\ PublishGivenUp => Account'
         /\ BumpSeq \/ UNCHANGED vars => Account'
  <1>1. /\ fate \in [1..MaxRecords -> Fates] /\ consumed \subseteq Born /\ OnePlace(class)
        /\ consumed \cap IdsIn(class) = {} /\ Ids(frame) \subseteq Born
        /\ Born \subseteq 1..MaxRecords
        /\ Ids(<<>>) = {}
    BY AccountFacts DEF Account, Ids
  <1>2. ASSUME PublishAcked PROVE Account'
    <2> DEFINE new == Settled(Ids(frame), "repeated")
    <2>1. /\ class' = class /\ frame' = frame /\ consumed' = consumed /\ pc' = "bump"
          /\ arrived' = IF FrameKey \in seen THEN arrived ELSE arrived \cup Ids(frame)
          /\ fate' = IF FrameKey \in seen THEN new ELSE fate
      BY <1>2 DEF PublishAcked, CloudIngest
    <2>2. "repeated" \in Fates \ {"unborn", "spooled"}
      BY DEF Fates
    <2>3. /\ new \in [1..MaxRecords -> Fates]
          /\ \A j \in 1..MaxRecords : new[j] = "unborn" <=> fate[j] = "unborn"
          /\ \A j \in 1..MaxRecords : new[j] = "spooled" => fate[j] = "spooled"
          /\ \A j \in 1..MaxRecords : new[j] = "spooled" /\ j \in Ids(frame) => j \in arrived
      BY <2>2, SettledFates
    <2> HIDE DEF new
    <2>4. arrived \subseteq arrived'
      BY <2>1
    <2>5. /\ fate' \in [1..MaxRecords -> Fates]
          /\ \A j \in 1..MaxRecords : fate'[j] = "unborn" <=> fate[j] = "unborn"
          /\ \A j \in 1..MaxRecords : fate'[j] = "spooled" => fate[j] = "spooled"
      <3>1. fate' = new \/ fate' = fate
        BY <2>1
      <3> QED
        BY <1>1, <2>3, <3>1
    <2>6. ASSUME NEW j \in Ids(frame), fate'[j] = "spooled" PROVE j \in arrived'
      <3>1. j \in 1..MaxRecords
        BY <1>1
      <3>2. CASE FrameKey \in seen
        BY <2>1, <2>3, <2>6, <3>1, <3>2
      <3>3. CASE FrameKey \notin seen
        BY <2>1, <3>3
      <3> QED
        BY <3>2, <3>3
    <2>7. \A j \in Ids(frame') : fate'[j] = "spooled" => j \in arrived'
      BY <2>1, <2>6
    <2> QED
      BY <1>1, <2>1, <2>4, <2>5, <2>7, AccountKept
  <1>3. ASSUME PublishGivenUp PROVE Account'
    <2>1. /\ class' = class /\ frame' = <<>> /\ consumed' = consumed /\ pc' = "idle"
          /\ fate' = fate /\ arrived \subseteq arrived'
      BY <1>3 DEF PublishGivenUp, CloudIngest, cloudVars
    <2>2. Ids(frame') \subseteq Born /\ ~(pc' \in {"bump", "commit"})
      BY <1>1, <2>1
    <2> QED
      BY <1>1, <2>1, <2>2, AccountKept
  <1>4. ASSUME BumpSeq \/ UNCHANGED vars PROVE Account'
    <2>1. /\ class' = class /\ frame' = frame /\ consumed' = consumed
          /\ fate' = fate /\ arrived' = arrived
          /\ pc' = pc \/ pc = "bump"
      BY <1>4 DEF BumpSeq, vars, cloudVars
    <2>2. pc' \in {"bump", "commit"} => \A i \in Ids(frame') : fate'[i] = "spooled" => i \in arrived'
      BY <2>1 DEF Account, FrameSettled
    <2> QED
      BY <1>1, <2>1, <2>2, AccountKept
  <1> QED
    BY <1>2, <1>3, <1>4

\* A commit takes the first records of one class and no others.
LEMMA CommitKeeps ==
  ASSUME NEW sp, SoundSpool(sp), NEW last \in Classes \cup {NoClass}, NEW n \in Nat
  PROVE  LET c == CommitClass(sp, last)
             new == IF c = NoClass THEN sp ELSE [sp EXCEPT ![c] = Committed(@, n)]
             gone == IF c = NoClass THEN {}
                     ELSE Ids(SubSeq(Walk(sp[c]), 1, Min({n, Len(Walk(sp[c]))})))
         IN  /\ Shrinks(sp, new)
             /\ gone \subseteq IdsIn(sp) /\ IdsIn(sp) \subseteq IdsIn(new) \cup gone
             /\ OnePlace(sp) => gone \cap IdsIn(new) = {}
  <1> DEFINE c == CommitClass(sp, last)
             d == Committed(sp[c], n)
             w == Walk(sp[c])
             m == Min({n, Len(w)})
             first == Ids(SubSeq(w, 1, m))
             new == IF c = NoClass THEN sp ELSE [sp EXCEPT ![c] = d]
             gone == IF c = NoClass THEN {} ELSE first
  <1>1. sp \in [Classes -> ClassLog] /\ \A k \in Classes : SoundClass(sp[k])
    BY DEF SoundSpool
  <1>2. c = NoClass \/ (c \in Classes /\ Walk(sp[c]) # <<>>)
    <2>1. CASE c = TopClass(sp)
      BY <2>1, TopIsFirst
    <2>2. CASE c # TopClass(sp)
      <3>1. c = last /\ last # NoClass /\ PendingBytes(sp[last]) # 0
        BY <2>2 DEF CommitClass
      <3>2. last \in Classes /\ PendingBytes(sp[last]) = Len(Walk(sp[last]))
        BY <1>1, <3>1, PendingIsWalk
      <3>3. Walk(sp[last]) # <<>>
        BY <3>1, <3>2
      <3> QED
        BY <3>1, <3>2, <3>3
    <2> QED
      BY <2>1, <2>2
  <1> HIDE DEF c
  <1>3. CASE c = NoClass
    <2>1. new = sp /\ gone = {}
      BY <1>3
    <2> HIDE DEF new, gone
    <2>2. Shrinks(sp, sp)
      BY DEF Shrinks
    <2> QED
      BY <2>1, <2>2 DEF new, gone, d, first, m, w, c
  <1>4. CASE c # NoClass
    <2>1. c \in Classes /\ Walk(sp[c]) # <<>> /\ SoundClass(sp[c])
      BY <1>1, <1>2, <1>4
    <2>2. sp[c].segs # <<>>
      BY <2>1, WalkOfNoSegments
    <2>3. /\ SoundClass(d) /\ IsRest(Walk(d), Walk(sp[c]))
          /\ Walk(d) = Rest(w, m) /\ IsRest(Whole(d), Whole(sp[c]))
      BY <2>1, <2>2, CommittedSound
    <2>4. w \in Seq(Record) /\ Len(w) \in Nat
      <3>1. w \in Seq(Record)
        BY <2>1, WholeType
      <3> HIDE DEF w
      <3> QED
        BY <3>1
    <2>5. m \in 0..Len(w)
      <3> HIDE DEF w
      <3>1. {n, Len(w)} \subseteq Nat /\ {n, Len(w)} # {}
        BY <2>4
      <3>2. m \in {n, Len(w)} /\ \A y \in {n, Len(w)} : m <= y
        BY <3>1, LeastIsIn
      <3> HIDE DEF m
      <3> QED
        BY <2>4, <3>2
    <2>6. /\ new = [sp EXCEPT ![c] = d] /\ gone = first
          /\ Ids(w) = Ids(Walk(sp[c]))
      BY <1>4
    <2> HIDE DEF m, d
    <2>7. \A k \in Classes : new[k] = IF k = c THEN d ELSE sp[k]
      BY <1>1, <2>1, <2>6
    <2> HIDE DEF new, gone
    <2>8. /\ Ids(w) = first \cup Ids(Walk(d))
          /\ Apart(w) => first \cap Ids(Walk(d)) = {}
      BY <2>3, <2>4, <2>5, SplitKeeps
    <2>9. /\ Ids(Whole(d)) \subseteq Ids(Whole(sp[c]))
          /\ Apart(Whole(sp[c])) => Apart(Whole(d))
          /\ Ids(Walk(d)) \subseteq Ids(Walk(sp[c]))
      BY <2>1, <2>3, RestShrinks
    <2> HIDE DEF first
    <2>10. Shrinks(sp, new)
      BY <2>7, <2>9 DEF Shrinks
    <2>11. gone \subseteq IdsIn(sp)
      BY <2>1, <2>6, <2>8 DEF IdsIn
    <2>12. IdsIn(sp) \subseteq IdsIn(new) \cup gone
      <3> SUFFICES ASSUME NEW k \in Classes, NEW i \in Ids(Walk(sp[k]))
                   PROVE  i \in IdsIn(new) \cup gone
        BY DEF IdsIn
      <3>1. CASE k = c
        BY <2>1, <2>6, <2>7, <2>8, <3>1 DEF IdsIn
      <3>2. CASE k # c
        BY <2>7, <3>2 DEF IdsIn
      <3> QED
        BY <3>1, <3>2
    <2>13. ASSUME OnePlace(sp), NEW i \in gone, NEW k \in Classes, i \in Ids(Walk(new[k]))
           PROVE  FALSE
      <3>1. \A j \in Classes : Ids(Walk(sp[j])) \subseteq Ids(Whole(sp[j]))
        BY <1>1, WholeType
      <3>2. i \in Ids(Walk(sp[c])) /\ i \in Ids(Whole(sp[c]))
        BY <2>1, <2>6, <2>8, <2>13, <3>1
      <3>3. CASE k = c
        <4>1. Apart(w)
          <5>1. Apart(Whole(sp[c]))
            BY <2>1, <2>13 DEF OnePlace
          <5> QED
            BY <2>1, <5>1, WholeType
        <4> QED
          BY <2>1, <2>6, <2>7, <2>8, <2>13, <3>3, <4>1
      <3>4. CASE k # c
        <4>1. i \in Ids(Whole(sp[k]))
          BY <2>7, <2>13, <3>1, <3>4
        <4> QED
          BY <2>1, <2>13, <3>2, <3>4, <4>1 DEF OnePlace
      <3> QED
        BY <3>3, <3>4
    <2>14. OnePlace(sp) => gone \cap IdsIn(new) = {}
      BY <2>13 DEF IdsIn
    <2> QED
      BY <2>10, <2>11, <2>12, <2>14 DEF new, gone, first, d, m, w, c
  <1> QED
    BY <1>3, <1>4

LEMMA CommitAccounts ==
  ASSUME UplinkInv, Account, CommitFrame
  PROVE  Account'
  <1> DEFINE c == CommitClass(class, lastPeek)
             n == Len(frame)
             gone == IF c = NoClass THEN {}
                     ELSE Ids(SubSeq(Walk(class[c]), 1, Min({n, Len(Walk(class[c]))})))
             new == IF c = NoClass THEN class ELSE [class EXCEPT ![c] = Committed(@, n)]
             left == gone \ (IF pc = "commit" THEN Ids(frame) ELSE {})
  <1>1. /\ pc \in {"commit", "discard"} /\ class' = new /\ consumed' = consumed \cup gone
        /\ fate' = IF pc = "discard" /\ ~evicted THEN Settled(gone, "dropped")
                   ELSE Settled(left, "skipped")
        /\ pc' = "idle" /\ frame' = <<>> /\ arrived' = arrived
    BY DEF CommitFrame, cloudVars
  <1>2. SoundSpool(class) /\ lastPeek \in Classes \cup {NoClass} /\ n \in Nat /\ OnePlace(class)
    BY DEF UplinkInv, Account
  <1>3. /\ Shrinks(class, new) /\ gone \subseteq IdsIn(class)
        /\ IdsIn(class) \subseteq IdsIn(new) \cup gone /\ gone \cap IdsIn(new) = {}
    <2> HIDE DEF n
    <2> QED
      BY <1>2, CommitKeeps
  <1> HIDE DEF gone, new, n, c
  <1>4. OnePlace(class') /\ Held(class') \subseteq Held(class) /\ IdsIn(class') \subseteq IdsIn(class)
    BY <1>1, <1>2, <1>3, ShrinkKeeps
  <1>5. /\ IdsIn(class) \subseteq Born /\ consumed \cap IdsIn(class) = {} /\ consumed \subseteq Born
        /\ Born \subseteq 1..MaxRecords
    BY AccountFacts DEF Account
  <1>6. {"dropped", "skipped"} \subseteq Fates \ {"unborn", "spooled"}
    BY DEF Fates
  <1> DEFINE Loses(f, ids) ==
                 /\ f \in [1..MaxRecords -> Fates]
                 /\ \A j \in 1..MaxRecords : f[j] = "unborn" <=> fate[j] = "unborn"
                 /\ \A j \in 1..MaxRecords : f[j] = "spooled" => fate[j] = "spooled"
                 /\ \A j \in 1..MaxRecords : f[j] = "spooled" /\ j \in ids => j \in arrived
  <1>7. Loses(Settled(gone, "dropped"), gone)
    BY <1>6, SettledFates
  <1>8. Loses(Settled(left, "skipped"), left)
    <2> HIDE DEF left
    <2> QED
      BY <1>6, SettledFates
  <1>9. Loses(fate', left)
    <2>1. left \subseteq gone
      OBVIOUS
    <2>2. Loses(Settled(gone, "dropped"), left)
      BY <1>7, <2>1
    <2> HIDE DEF Loses, left
    <2> QED
      BY <1>1, <1>8, <2>2
  <1>10. ASSUME NEW j \in gone, fate'[j] = "spooled" PROVE j \in arrived
    <2>1. j \in 1..MaxRecords
      BY <1>3, <1>5
    <2>2. CASE j \in left
      BY <1>9, <1>10, <2>1, <2>2
    <2>3. CASE j \notin left
      <3>1. pc = "commit" /\ j \in Ids(frame)
        BY <2>3
      <3>2. fate[j] = "spooled"
        BY <1>9, <1>10, <2>1
      <3> QED
        BY <3>1, <3>2 DEF Account, FrameSettled
    <2> QED
      BY <2>2, <2>3
  <1> HIDE DEF left
  <1>11. \A j \in IdsIn(class) : fate'[j] = "spooled" => j \in arrived' \cup IdsIn(class')
    BY <1>1, <1>3, <1>10
  <1>12. consumed' \subseteq Born /\ consumed' \cap IdsIn(class') = {}
    BY <1>1, <1>3, <1>4, <1>5
  <1>13. Ids(frame') \subseteq Born /\ ~(pc' \in {"bump", "commit"})
    BY <1>1 DEF Ids
  <1> QED
    BY <1>1, <1>4, <1>9, <1>11, <1>12, <1>13, AccountKept

LEMMA RestartAccounts ==
  ASSUME UplinkInv, Account, Restart
  PROVE  Account'
  <1> DEFINE whole(cl) == [i \in DOMAIN cl.segs |-> Bytes(cl.segs[i])]
             re(c) == Recovered(Closed(class[c]), whole(Closed(class[c])))
  <1>1. /\ class' = [c \in Classes |-> re(c)]
        /\ pc' = "idle" /\ frame' = <<>> /\ arrived' = arrived /\ consumed' = consumed
        /\ fate' = fate
    BY DEF Restart, Reopened, cloudVars
  <1>2. ASSUME NEW c \in Classes
        PROVE  /\ class'[c] = re(c)
               /\ Ids(Whole(re(c))) \subseteq Ids(Whole(class[c]))
               /\ Apart(Whole(re(c)))
               /\ Ids(Walk(re(c))) = Ids(Walk(class[c]))
    <2>1. SoundClass(class[c]) /\ Apart(Whole(class[c]))
      BY DEF UplinkInv, SoundSpool, Account, OnePlace
    <2>2. class'[c] = re(c)
      BY <1>1
    <2>3. \E kept : kept = whole(Closed(class[c]))
      OBVIOUS
    <2>4. PICK kept : kept = whole(Closed(class[c]))
      BY <2>3
    <2>5. kept = [i \in DOMAIN Closed(class[c]).segs |-> Bytes(Closed(class[c]).segs[i])]
      BY <2>4
    <2>6. /\ Ids(Whole(Recovered(Closed(class[c]), kept))) \subseteq Ids(Whole(class[c]))
          /\ Apart(Whole(Recovered(Closed(class[c]), kept)))
          /\ Ids(Walk(Recovered(Closed(class[c]), kept))) = Ids(Walk(class[c]))
      BY <2>1, <2>5, ReopenedKeeps
    <2> HIDE DEF whole
    <2> QED
      BY <2>2, <2>4, <2>6
  <1> HIDE DEF re
  <1>3. Shrinks(class, class')
    BY <1>2 DEF Shrinks
  <1>4. OnePlace(class') /\ Held(class') \subseteq Held(class)
    BY <1>3, ShrinkKeeps DEF Account
  <1>5. IdsIn(class') = IdsIn(class)
    BY <1>2 DEF IdsIn
  <1>6. /\ IdsIn(class) \subseteq Born /\ consumed \cap IdsIn(class) = {}
        /\ consumed \subseteq Born /\ fate \in [1..MaxRecords -> Fates]
    BY AccountFacts DEF Account
  <1>7. Ids(frame') \subseteq Born /\ ~(pc' \in {"bump", "commit"})
    BY <1>1 DEF Ids
  <1>8. \A j \in IdsIn(class) : fate'[j] = "spooled" => j \in arrived' \cup IdsIn(class')
    BY <1>5
  <1> QED
    BY <1>1, <1>4, <1>5, <1>6, <1>7, <1>8, AccountKept

\* A record a crash left on the disk of a class that reads it is read again,
\* unless the cursor file was ahead of the cursor.
LEMMA CrashKeeps ==
  ASSUME UplinkInv, OnePlace(class), NEW kept,
         \A c \in Classes : kept[c] \in Remains(class[c]),
         NEW c \in Classes, ~StaleFile(class[c]),
         NEW j, j \in Ids(Walk(class[c])),
         NEW k \in Classes, NEW i \in DOMAIN class[k].segs,
         j \in Ids(SubSeq(class[k].segs[i].recs, 1, kept[k][i]))
  PROVE  j \in Ids(Walk(Recovered(class[c], kept[c])))
  <1>1. ASSUME NEW x \in Classes
        PROVE  /\ SoundClass(class[x]) /\ KeptOf(class[x], kept[x])
               /\ DOMAIN class[x].segs = 1..Len(class[x].segs)
    <2>1. SoundClass(class[x]) /\ class[x].segs \in Seq(Segment)
      BY DEF UplinkInv, SoundSpool, SoundClass, SoundSegs
    <2>2. DOMAIN class[x].segs = 1..Len(class[x].segs)
      BY <2>1
    <2>3. kept[x] \in Remains(class[x])
      OBVIOUS
    <2>4. KeptOf(class[x], kept[x])
      BY <2>2, <2>3 DEF Remains, KeptOf
    <2> QED
      BY <2>1, <2>2, <2>4
  <1> DEFINE d == OnDisk(class[k], kept[k])
             W == Joined(class[k].segs)
  <1>2. /\ d \in Seq(Segment) /\ Len(d) = Len(class[k].segs)
        /\ \A e \in 1..Len(class[k].segs) : d[e].recs = SubSeq(class[k].segs[e].recs, 1, kept[k][e])
    BY <1>1, DiskSegments
  <1>3. i \in 1..Len(d) /\ d[i].recs = SubSeq(class[k].segs[i].recs, 1, kept[k][i])
    <2>1. i \in 1..Len(class[k].segs)
      BY <1>1
    <2> HIDE DEF d
    <2> QED
      BY <1>2, <2>1
  <1>4. Len(Joined(d)) \in 0..Len(W) /\ Joined(d) = SubSeq(W, 1, Len(Joined(d)))
    BY <1>1, DiskJoined
  <1> HIDE DEF d
  <1>5. j \in Ids(Joined(d))
    <2>1. j \in Ids(d[i].recs)
      BY <1>3
    <2>2. Ids(d[i].recs) \subseteq Ids(Joined(d))
      BY <1>2, <1>3, SegmentInLog
    <2> QED
      BY <2>1, <2>2
  <1>6. Ids(Joined(d)) \subseteq Ids(Whole(class[k]))
    <2>1. W \in Seq(Record)
      BY <1>1, WholeType DEF Whole
    <2> HIDE DEF W
    <2>2. 1 \in 1..Len(W) + 1
      BY <2>1
    <2>3. SubSeq(W, 1, Len(Joined(d))) \in Seq(Record) /\ IsPiece(SubSeq(W, 1, Len(Joined(d))), W)
      BY <1>4, <2>1, <2>2, SubSeqIsPiece
    <2>4. Joined(d) \in Seq(Record) /\ IsPiece(Joined(d), W)
      BY <1>4, <2>3
    <2>5. Ids(Joined(d)) \subseteq Ids(W)
      BY <2>1, <2>4, PieceKeeps
    <2> QED
      BY <2>5 DEF W, Whole
  <1>7. k = c
    <2>1. j \in Ids(Whole(class[c])) /\ j \in Ids(Whole(class[k]))
      BY <1>1, <1>5, <1>6, WholeType
    <2> QED
      BY <2>1 DEF OnePlace
  <1>8. j \in Ids(Joined(OnDisk(class[c], kept[c])))
    BY <1>5, <1>7 DEF d
  <1>9. Apart(Whole(class[c]))
    BY DEF OnePlace
  <1>10. SoundClass(class[c]) /\ KeptOf(class[c], kept[c])
    BY <1>1
  <1> QED
    BY <1>8, <1>9, <1>10, RecoveredKeeps

LEMMA CrashAccounts ==
  ASSUME UplinkInv, Account, Crash
  PROVE  Account'
  <1> DEFINE after(kept) == [c \in Classes |-> Recovered(class[c], kept[c])]
             onDisk(kept) == UNION {UNION {Ids(SubSeq(class[c].segs[i].recs, 1, kept[c][i])) :
                                         i \in DOMAIN class[c].segs} : c \in Classes}
             hidden(kept) == (IdsIn(class) \cap onDisk(kept)) \ IdsIn(after(kept))
             stale(i) == \E c \in Classes : StaleFile(class[c]) /\ i \in Ids(Walk(class[c]))
             gone(kept) == IdsIn(class) \ onDisk(kept)
  <1>1. PICK kept : /\ \A c \in Classes : kept[c] \in Remains(class[c])
                    /\ Reopened(after(kept))
                    /\ fate' = [i \in DOMAIN fate |->
                                  IF i \in hidden(kept) /\ stale(i)
                                  THEN Settled({i}, "forgotten")[i]
                                  ELSE Settled(gone(kept), "torn")[i]]
    <2>1. Crash <=>
            \E kept \in [Classes -> UNION {Remains(class[c]) : c \in Classes}] :
                /\ \A c \in Classes : kept[c] \in Remains(class[c])
                /\ Reopened(after(kept))
                /\ fate' = [i \in DOMAIN fate |->
                              IF i \in hidden(kept) /\ stale(i)
                              THEN Settled({i}, "forgotten")[i]
                              ELSE Settled(gone(kept), "torn")[i]]
      BY Zenon DEF Crash
    <2> HIDE DEF after, hidden, stale, gone, onDisk
    <2> QED
      BY <2>1, Zenon
  <1> DEFINE new == after(kept)
             disk == onDisk(kept)
             hid == hidden(kept)
             lost == gone(kept)
  <1>2. /\ class' = new /\ pc' = "idle" /\ frame' = <<>> /\ arrived' = arrived /\ consumed' = consumed
    BY <1>1 DEF Reopened, cloudVars
  <1>3. \A c \in Classes : new[c] = Recovered(class[c], kept[c])
    OBVIOUS
  <1>4. hid = (IdsIn(class) \cap disk) \ IdsIn(new) /\ lost = IdsIn(class) \ disk
    OBVIOUS
  <1>5. ASSUME NEW c \in Classes, ~StaleFile(class[c]), NEW j \in Ids(Walk(class[c])), j \in disk
        PROVE  j \in IdsIn(new)
    <2>1. PICK k \in Classes : \E i \in DOMAIN class[k].segs :
             j \in Ids(SubSeq(class[k].segs[i].recs, 1, kept[k][i]))
      BY <1>5
    <2>4. PICK i \in DOMAIN class[k].segs :
             j \in Ids(SubSeq(class[k].segs[i].recs, 1, kept[k][i]))
      BY <2>1
    <2>2. OnePlace(class)
      BY DEF Account
    <2> HIDE DEF new, disk, after, onDisk
    <2>3. j \in Ids(Walk(Recovered(class[c], kept[c])))
      BY <1>1, <1>5, <2>2, <2>4, CrashKeeps
    <2> QED
      BY <1>3, <2>3 DEF IdsIn
  <1>6. /\ fate \in [1..MaxRecords -> Fates] /\ DOMAIN fate = 1..MaxRecords
        /\ IdsIn(class) \subseteq Born /\ consumed \cap IdsIn(class) = {}
        /\ consumed \subseteq Born /\ Born \subseteq 1..MaxRecords
    BY AccountFacts DEF Account
  <1>7. \A i \in 1..MaxRecords :
            \/ i \in hid /\ stale(i) /\ fate'[i] = Settled({i}, "forgotten")[i]
            \/ ~(i \in hid /\ stale(i)) /\ fate'[i] = Settled(lost, "torn")[i]
    <2> HIDE DEF stale
    <2> QED
      BY <1>1, <1>6
  <1> HIDE DEF new, disk, hid, lost, stale, after, onDisk, hidden, gone
  <1>8. {"torn", "forgotten"} \subseteq Fates \ {"unborn", "spooled"}
    BY DEF Fates
  <1>9. LET f == Settled(lost, "torn")
        IN  /\ f \in [1..MaxRecords -> Fates]
            /\ \A j \in 1..MaxRecords : f[j] = "unborn" <=> fate[j] = "unborn"
            /\ \A j \in 1..MaxRecords : f[j] = "spooled" => fate[j] = "spooled"
            /\ \A j \in 1..MaxRecords : f[j] = "spooled" /\ j \in lost => j \in arrived
    BY <1>8, SettledFates
  <1>10. ASSUME NEW i
         PROVE  LET f == Settled({i}, "forgotten")
                IN  /\ f \in [1..MaxRecords -> Fates]
                    /\ \A j \in 1..MaxRecords : f[j] = "unborn" <=> fate[j] = "unborn"
                    /\ \A j \in 1..MaxRecords : f[j] = "spooled" => fate[j] = "spooled"
                    /\ \A j \in 1..MaxRecords : f[j] = "spooled" /\ j \in {i} => j \in arrived
    BY <1>8, SettledFates
  <1>11. ASSUME NEW i \in 1..MaxRecords
         PROVE  /\ fate'[i] \in Fates
                /\ fate'[i] = "unborn" <=> fate[i] = "unborn"
                /\ fate'[i] = "spooled" => fate[i] = "spooled"
                /\ fate'[i] = "spooled" /\ ((i \in hid /\ stale(i)) \/ i \in lost) => i \in arrived
    <2>1. CASE i \in hid /\ stale(i) /\ fate'[i] = Settled({i}, "forgotten")[i]
      BY <1>10, <2>1
    <2>2. CASE ~(i \in hid /\ stale(i)) /\ fate'[i] = Settled(lost, "torn")[i]
      BY <1>9, <2>2
    <2> QED
      BY <1>7, <2>1, <2>2
  <1>12. fate' \in [1..MaxRecords -> Fates]
    <2> DEFINE g(i) == IF i \in hidden(kept) /\ stale(i) THEN Settled({i}, "forgotten")[i]
                       ELSE Settled(gone(kept), "torn")[i]
    <2>1. fate' = [i \in 1..MaxRecords |-> g(i)]
      BY <1>1, <1>6
    <2> HIDE DEF g
    <2>2. \A i \in 1..MaxRecords : g(i) \in Fates
      BY <1>11, <2>1
    <2> QED
      BY <2>1, <2>2
  <1>13. Shrinks(class, class')
    <2> SUFFICES ASSUME NEW c \in Classes
                 PROVE  /\ Ids(Whole(class'[c])) \subseteq Ids(Whole(class[c]))
                        /\ Apart(Whole(class[c])) => Apart(Whole(class'[c]))
                        /\ Ids(Walk(class'[c])) \subseteq Ids(Walk(class[c]))
      BY DEF Shrinks
    <2>1. class'[c] = Recovered(class[c], kept[c])
      BY <1>2, <1>3
    <2>2. SoundClass(class[c]) /\ KeptOf(class[c], kept[c])
      <3>1. SoundClass(class[c]) /\ class[c].segs \in Seq(Segment)
        BY DEF UplinkInv, SoundSpool, SoundClass, SoundSegs
      <3>2. DOMAIN class[c].segs = 1..Len(class[c].segs) /\ kept[c] \in Remains(class[c])
        BY <1>1, <3>1
      <3>3. KeptOf(class[c], kept[c])
        BY <3>2 DEF Remains, KeptOf
      <3> QED
        BY <3>1, <3>3
    <2> QED
      BY <2>1, <2>2, RecoveredWhole
  <1>14. /\ OnePlace(class') /\ Held(class') \subseteq Held(class)
         /\ IdsIn(class') \subseteq IdsIn(class)
    BY <1>13, ShrinkKeeps DEF Account
  <1>15. ASSUME NEW j \in IdsIn(class), fate'[j] = "spooled"
         PROVE  j \in arrived' \cup IdsIn(class')
    <2>1. j \in 1..MaxRecords
      BY <1>6
    <2>2. CASE j \notin disk
      BY <1>2, <1>4, <1>11, <1>15, <2>1, <2>2
    <2>3. CASE j \in disk
      <3>1. CASE stale(j)
        BY <1>2, <1>4, <1>11, <1>15, <2>1, <2>3, <3>1
      <3>2. CASE ~stale(j)
        <4>1. PICK c \in Classes : j \in Ids(Walk(class[c]))
          BY DEF IdsIn
        <4>2. ~StaleFile(class[c])
          BY <3>2, <4>1 DEF stale
        <4> QED
          BY <1>2, <1>5, <2>3, <4>1, <4>2
      <3> QED
        BY <3>1, <3>2
    <2> QED
      BY <2>2, <2>3
  <1>16. Ids(frame') \subseteq Born /\ ~(pc' \in {"bump", "commit"})
    BY <1>2 DEF Ids
  <1>17. consumed' \subseteq Born /\ consumed' \cap IdsIn(class') = {}
    BY <1>2, <1>6, <1>14
  <1>18. arrived \subseteq arrived'
    BY <1>2
  <1> QED
    BY <1>11, <1>12, <1>14, <1>15, <1>16, <1>17, <1>18, AccountKept

\* At-least-once delivery with its exact exceptions: what the spool stored and
\* the cloud has not got is still pending, unless an eviction counted it, a crash
\* tore it before it was synced, or one of the three named gaps took it; what
\* counts as pending can be read, and what was committed never comes back,
\* through appends, evictions, commits, crashes and restarts (spool.go's package
\* comment).
THEOREM RecordsAreAccounted == Spec => []NothingIsLost
  <1>1. Init => UplinkInv /\ Account
    BY UplinkStarts, AccountStarts
  <1>2. UplinkInv /\ Account /\ [Next]_vars => (UplinkInv /\ Account)'
    <2> SUFFICES ASSUME UplinkInv, Account, [Next]_vars
                 PROVE  UplinkInv' /\ Account'
      OBVIOUS
    <2>1. ASSUME NEW s \in Stream, Collect(s) PROVE UplinkInv' /\ Account'
      BY <2>1, CollectStores, CollectAccounts
    <2>2. CASE DrainPeek
      BY <2>2, DrainPeekOffers, DrainPeekAccounts
    <2>3. CASE PublishAcked \/ BumpSeq \/ UNCHANGED vars
      BY <2>3, PublishIsQuiet, PublishAccounts
    <2>4. CASE PublishGivenUp
      BY <2>4, PublishIsQuiet, PublishAccounts
    <2>5. CASE CommitFrame
      BY <2>5, CommitFrameTakes, CommitAccounts
    <2>6. CASE Crash
      BY <2>6, CrashRestarts, CrashAccounts
    <2>7. CASE Restart
      BY <2>7, RestartRestarts, RestartAccounts
    <2> QED
      BY <2>1, <2>2, <2>3, <2>4, <2>5, <2>6, <2>7 DEF Next
  <1>3. UplinkInv /\ Account => NothingIsLost
    <2> SUFFICES ASSUME UplinkInv, Account PROVE NothingIsLost
      OBVIOUS
    <2>1. PendingIsReadable
      BY PendingIsWalk DEF PendingIsReadable, UplinkInv, SoundSpool
    <2> QED
      BY <2>1 DEF NothingIsLost, Account
  <1> QED
    BY <1>1, <1>2, <1>3, PTL DEF Spec
=============================================================================
