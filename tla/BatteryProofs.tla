--------------------------- MODULE BatteryProofs ---------------------------
(***************************************************************************)
(* Proofs about BatteryShell: the standing intent reaches every session,   *)
(* and the interlock knows which intent stands.                            *)
(*                                                                         *)
(* Neither property is inductive.  Between a decision and its write the    *)
(* pack may lag behind the intent, so the invariant excuses the stages of  *)
(* the mutex at which a write is due, and no others; and before the first  *)
(* document a reopened session is right only because nothing was written   *)
(* in it, nor anything asked for.                                          *)
(***************************************************************************)
EXTENDS BatteryShell, CoreProofs

Jobs == {NoJob} \cup [owner : {"mqtt", "ticker", "poll"},
                      stage : {"note", "gate", "write", "observe"}]
Polls == [pc : {"idle", "check", "trip", "mark", "observe", "assess"},
          m : [w : Level, low : BOOLEAN]]
Packs == [connected : BOOLEAN, setpoint : Level]

\* Types, with what the sample of a poll can be.
BatteryTypes ==
    /\ now \in Nat /\ docs \in Nat
    /\ Sound(r, now)
    /\ job \in Jobs
    /\ poll \in Polls
    /\ session \in {"up", "broken", "down"}
    /\ pack \in Packs
    /\ low \in BOOLEAN /\ inverted \in BOOLEAN
    /\ poll.pc = "assess" => job.owner = "poll"

\* Without a document nothing was asked for and nothing was written.
BlankUntilTold == ~r.applied => r.fields = NoOpinion /\ written = NoOpinion

\* An open session has been given the standing intent, unless a reconnect is
\* pending, a write is due, or the interlock suppressed the last one.
Due == {"note", "gate", "write"}
CarriedUnlessDue ==
    session = "up" /\ ~reconnectPending /\ ~held /\ job.stage \notin Due
        => written = r.fields

IInv == /\ BatteryTypes /\ BlankUntilTold /\ CarriedUnlessDue
        /\ NoteMatchesStanding

\* What a call of the core leaves: sound, on the same fields unless a write
\* follows, and untouched as long as no document stands.
CoreCall(res) ==
    /\ Sound(res.r, now)
    /\ res.write = NoWrite => res.r.fields = r.fields
    /\ ~res.r.applied => res.r = r

\* The calls of the poll goroutine and of the ticker ask for no new fields.
LEMMA TimerCalls ==
  ASSUME BatteryTypes
  PROVE  /\ CoreCall(Reconnected(r, now)) /\ CoreCall(Tick(r, now))
         /\ Reconnected(r, now).r.fields = r.fields
         /\ Tick(r, now).r.fields = r.fields
         /\ Reconnected(r, now).write = NoWrite => ~r.applied
  <1>1. Good(r, Reconnected(r, now), now) /\ Good(r, Tick(r, now), now)
    BY ReconnectedGood, TickGood DEF BatteryTypes
  <1>2. r \in States /\ now \in Nat
    BY DEF BatteryTypes, Sound
  <1> QED
    BY <1>1, <1>2, StandingDocument DEF CoreCall, Good, Idle, Result

LEMMA SampleCall ==
  ASSUME BatteryTypes, NEW o \in Samples
  PROVE  /\ CoreCall(Observe(r, o, now))
         /\ Observe(r, o, now).r.fields = r.fields
  <1>1. Good(r, Observe(r, o, now), now)
    BY ObserveGood DEF BatteryTypes
  <1>2. r \in States /\ now \in Nat
    BY DEF BatteryTypes, Sound
  <1> QED
    BY <1>1, <1>2, StandingDocument DEF CoreCall, Good

\* A document of the hub is adopted or not.
LEMMA DesiredCall ==
  ASSUME BatteryTypes, NEW t \in Targets,
         NEW doc, doc = [mrid |-> NoMRID, seq |-> docs, fields |-> t,
                         issuedAt |-> now, finite |-> TRUE]
  PROVE  CoreCall(SetDesired(r, doc, now))
  <1>1. doc \in Documents
    BY ShellAssumption, ConfigAssumption DEF Documents, BatteryTypes
  <1>2. Good(r, SetDesired(r, doc, now), now)
    BY <1>1, SetDesiredGood DEF BatteryTypes
  <1> QED
    BY <1>2, StandingDocument DEF CoreCall, Good, BatteryTypes, Sound
-----------------------------------------------------------------------------
LEMMA BatteryInit == Init => IInv
  <1> SUFFICES ASSUME Init PROVE IInv
    OBVIOUS
  <1>1. Sound(New, 0)
    BY NewSound
  <1>2. BatteryTypes
    <2>1. poll \in Polls /\ pack \in Packs
      BY ShellAssumption DEF Init, Polls, Packs, Defaults, NoSample
    <2>2. Sound(r, now) /\ job \in Jobs /\ now \in Nat /\ docs \in Nat
      BY <1>1 DEF Init, Jobs
    <2>3. session \in {"up", "broken", "down"} /\ poll.pc # "assess"
      BY DEF Init
    <2>4. low \in BOOLEAN /\ inverted \in BOOLEAN
      BY DEF Init
    <2> QED
      BY <2>1, <2>2, <2>3, <2>4 DEF BatteryTypes
  <1>3. Charges(NoOpinion) = FALSE
    BY DEF Charges, NoOpinion
  <1>4. BlankUntilTold /\ CarriedUnlessDue /\ NoteMatchesStanding
    BY <1>3 DEF Init, BlankUntilTold, CarriedUnlessDue, NoteMatchesStanding,
                New
  <1> QED
    BY <1>2, <1>4 DEF IInv
-----------------------------------------------------------------------------
\* A shell operation that calls the core and takes no new fields.
LEMMA TimerStepKeeps ==
  ASSUME IInv, NEW res, CoreCall(res), res.r.fields = r.fields,
         r' = res.r, job' \in Jobs, job'.stage # "note",
         job.stage \notin Due,
         \/ reconnectPending' = reconnectPending
         \/ job'.stage \notin Due => ~r.applied,
         UNCHANGED <<now, docs, chargeCmd, session, pack, inverted, low,
                     written, held>>,
         poll' \in Polls, poll'.pc = "assess" => job'.owner = "poll"
  PROVE  IInv'
  <1>1. BatteryTypes'
    BY DEF IInv, BatteryTypes, CoreCall
  <1>2. BlankUntilTold'
    BY DEF IInv, BlankUntilTold, CoreCall
  <1>3. CarriedUnlessDue'
    <2>1. CASE ~r.applied
      BY <2>1 DEF IInv, BlankUntilTold, CarriedUnlessDue
    <2>2. CASE reconnectPending' = reconnectPending
      BY <2>2 DEF IInv, CarriedUnlessDue
    <2> QED
      BY <2>1, <2>2 DEF CarriedUnlessDue
  <1>4. NoteMatchesStanding'
    BY DEF IInv, NoteMatchesStanding, Due, Charges
  <1> QED
    BY <1>1, <1>2, <1>3, <1>4 DEF IInv

\* A step that leaves the shell, its mutex and the interlock's note alone,
\* and opens no session without announcing it.
LEMMA OutsideStepKeeps ==
  ASSUME IInv, UNCHANGED <<r, docs, job, chargeCmd>>,
         now' \in Nat, Sound(r, now'),
         poll' \in Polls, poll'.pc # "assess" \/ poll' = poll,
         session' \in {"up", "broken", "down"}, pack' \in Packs,
         low' \in BOOLEAN, inverted' \in BOOLEAN,
         written' \in {NoOpinion, written},
         session' = "up" /\ ~reconnectPending' /\ ~held'
             => /\ session = "up" /\ ~reconnectPending /\ ~held
                /\ written' = written
  PROVE  IInv'
  <1>1. BatteryTypes'
    BY DEF IInv, BatteryTypes
  <1>2. BlankUntilTold'
    BY DEF IInv, BlankUntilTold
  <1>3. CarriedUnlessDue'
    BY DEF IInv, CarriedUnlessDue
  <1>4. NoteMatchesStanding'
    BY DEF IInv, NoteMatchesStanding, Charges
  <1> QED
    BY <1>1, <1>2, <1>3, <1>4 DEF IInv

\* Every step of the specification keeps the invariant.
LEMMA BatteryStep == ASSUME IInv, [Next]_vars PROVE IInv'
  <1> USE DEF shellVars, lockVars, packVars
  <1>1. /\ BatteryTypes /\ BlankUntilTold
        /\ CarriedUnlessDue /\ NoteMatchesStanding
    BY DEF IInv
  <1>2. /\ now \in Nat /\ docs \in Nat /\ r \in States /\ Sound(r, now)
        /\ job \in Jobs /\ poll \in Polls /\ pack \in Packs
        /\ session \in {"up", "broken", "down"}
        /\ low \in BOOLEAN /\ inverted \in BOOLEAN
    BY <1>1 DEF BatteryTypes, Sound
  <1>3. CASE setDesired
    <2>1. PICK t \in Targets :
            LET res == SetDesired(r, [mrid |-> NoMRID, seq |-> docs,
                                      fields |-> t, issuedAt |-> now,
                                      finite |-> TRUE], now)
            IN  /\ r' = res.r
                /\ job' = IF res.write = NoWrite THEN NoJob
                          ELSE [owner |-> "mqtt", stage |-> "note"]
      BY <1>3 DEF setDesired
    <2> DEFINE doc == [mrid |-> NoMRID, seq |-> docs, fields |-> t,
                       issuedAt |-> now, finite |-> TRUE]
               res == SetDesired(r, doc, now)
    <2>2. CoreCall(res)
      BY <1>1, DesiredCall
    <2>3. /\ r' = res.r
          /\ job' = IF res.write = NoWrite THEN NoJob
                    ELSE [owner |-> "mqtt", stage |-> "note"]
      BY <2>1
    <2> HIDE DEF doc, res
    <2>4. /\ job = NoJob /\ docs' = docs + 1
          /\ UNCHANGED <<now, reconnectPending, poll, chargeCmd, session,
                         pack, inverted, low, written, held>>
      BY <1>3 DEF setDesired
    <2>5. poll.pc # "assess"
      BY <1>1, <2>4 DEF BatteryTypes, NoJob
    <2>6. BatteryTypes'
      BY <1>2, <2>2, <2>3, <2>4, <2>5 DEF BatteryTypes, CoreCall, Jobs
    <2>7. BlankUntilTold'
      BY <1>1, <2>2, <2>3, <2>4 DEF BlankUntilTold, CoreCall
    <2>8. CarriedUnlessDue'
      BY <1>1, <2>2, <2>3, <2>4 DEF CarriedUnlessDue, CoreCall, Due, NoJob
    <2>9. NoteMatchesStanding'
      <3>1. CASE res.write = NoWrite
        <4>1. r'.fields = r.fields /\ job.stage # "note"
          BY <2>2, <2>3, <2>4, <3>1 DEF CoreCall, NoJob
        <4> QED
          BY <1>1, <2>4, <4>1 DEF NoteMatchesStanding, Charges
      <3>2. CASE res.write # NoWrite
        BY <2>3, <3>2 DEF NoteMatchesStanding
      <3> QED
        BY <3>1, <3>2
    <2> QED
      BY <2>6, <2>7, <2>8, <2>9 DEF IInv
  <1>4. CASE tick
    <2> DEFINE res == Tick(r, now)
    <2>1. CoreCall(res) /\ res.r.fields = r.fields
      BY <1>1, TimerCalls
    <2>2. /\ job = NoJob /\ r' = res.r /\ job' = Locked("ticker", res.write)
          /\ UNCHANGED <<now, docs, reconnectPending, poll, chargeCmd,
                         session, pack, inverted, low, written, held>>
      BY <1>4 DEF tick
    <2> HIDE DEF res
    <2>3. /\ job' \in Jobs /\ job'.stage # "note" /\ job.stage \notin Due
          /\ job'.stage \notin Due => res.write = NoWrite
      BY <2>2 DEF Locked, Jobs, NoJob, Due
    <2>4. poll.pc # "assess"
      BY <1>1, <2>2 DEF BatteryTypes, NoJob
    <2> QED
      BY <1>2, <2>1, <2>2, <2>3, <2>4, TimerStepKeeps
  <1>5. CASE Note
    <2>1. /\ job.stage = "note" /\ chargeCmd' = Charges(r.fields)
          /\ job' = [job EXCEPT !.stage = "gate"]
          /\ UNCHANGED <<r, now, docs, reconnectPending, poll, session, pack,
                         inverted, low, written, held>>
      BY <1>5 DEF Note
    <2>2. job' \in Jobs /\ job'.stage = "gate" /\ job'.owner = job.owner
      BY <1>2, <2>1 DEF Jobs, NoJob
    <2>3. BatteryTypes'
      BY <1>1, <2>1, <2>2 DEF BatteryTypes
    <2>4. BlankUntilTold' /\ CarriedUnlessDue'
      BY <1>1, <2>1, <2>2 DEF BlankUntilTold, CarriedUnlessDue, Due
    <2>5. NoteMatchesStanding'
      BY <2>1 DEF NoteMatchesStanding, Charges
    <2> QED
      BY <2>3, <2>4, <2>5 DEF IInv
  <1>6. ASSUME job.stage \in Due PROVE Done \in Jobs /\ Done.stage \notin Due
    BY DEF Done, Jobs, NoJob, Due
  <1>7. CASE Gate
    <2>1. /\ job.stage = "gate"
          /\ \/ job' = Done /\ held' = TRUE
             \/ job' = [job EXCEPT !.stage = "write"]
          /\ UNCHANGED <<r, now, docs, reconnectPending, poll, chargeCmd,
                         session, pack, inverted, low, written>>
      BY <1>7 DEF Gate
    <2>2. /\ job' \in Jobs /\ job'.stage # "note"
          /\ job'.stage \in Due \/ held'
          /\ poll.pc = "assess" => job'.owner = "poll"
      BY <1>1, <1>2, <2>1 DEF Jobs, NoJob, Due, Done, BatteryTypes
    <2>3. BatteryTypes'
      BY <1>1, <2>1, <2>2 DEF BatteryTypes
    <2>4. BlankUntilTold' /\ CarriedUnlessDue'
      BY <1>1, <2>1, <2>2 DEF BlankUntilTold, CarriedUnlessDue
    <2>5. NoteMatchesStanding'
      BY <1>1, <2>1 DEF NoteMatchesStanding, Charges
    <2> QED
      BY <2>3, <2>4, <2>5 DEF IInv
  <1>8. CASE Write
    <2>1. /\ job.stage = "write" /\ job' = Done
          /\ IF session = "up"
             THEN pack' = Controlled(pack, r.fields) /\ written' = r.fields
             ELSE UNCHANGED <<pack, written>>
          /\ session' = IF session = "broken" THEN "down" ELSE session
          /\ UNCHANGED <<r, now, docs, reconnectPending, poll, chargeCmd,
                         inverted, low, held>>
      BY <1>8 DEF Write
    <2>2. /\ job' \in Jobs /\ job'.stage # "note"
          /\ poll.pc = "assess" => job'.owner = "poll"
      BY <1>1, <1>2, <2>1, <1>6 DEF Due, Done, BatteryTypes
    <2>3. Controlled(pack, r.fields) \in Packs
      <3>1. PICK D \in SUBSET Field : r.fields \in [D -> Level]
        BY <1>2 DEF States, Opinions
      <3> QED
        BY <1>2, <3>1 DEF Controlled, Packs
    <2>4. BatteryTypes'
      BY <1>1, <2>1, <2>2, <2>3 DEF BatteryTypes
    <2>5. BlankUntilTold' /\ CarriedUnlessDue'
      BY <1>1, <1>2, <2>1 DEF BlankUntilTold, CarriedUnlessDue
    <2>6. NoteMatchesStanding'
      BY <1>1, <2>1, <2>2 DEF NoteMatchesStanding, Charges
    <2> QED
      BY <2>4, <2>5, <2>6 DEF IInv
  <1>9. CASE Read
    <2>1. /\ poll.pc = "idle" /\ session # "broken" /\ session' = "up"
          /\ reconnectPending' = (reconnectPending \/ session = "down")
          /\ written' = IF session = "down" THEN NoOpinion ELSE written
          /\ poll' = [pc |-> "check", m |-> [w |-> PowerOut, low |-> low]]
          /\ UNCHANGED <<r, now, docs, job, chargeCmd, pack, inverted, low,
                         held>>
      BY <1>9 DEF Read
    <2>2. PowerOut \in Level
      BY <1>2, ShellAssumption DEF PowerOut, Packs
    <2>3. poll' \in Polls /\ poll'.pc # "assess"
      BY <1>2, <2>1, <2>2 DEF Polls
    <2> QED
      BY <1>2, <2>1, <2>3, OutsideStepKeeps
  <1>10. CASE ReadError \/ Check \/ Mark \/ Reboot \/ SessionLost \/ Drain
    <2>1. /\ UNCHANGED <<r, docs, job, chargeCmd, now, written,
                         reconnectPending, held, inverted>>
          /\ session' \in {"up", "broken", "down"}
          /\ session' = "up" => session = "up"
          /\ pack' \in {pack, Defaults} /\ low' \in BOOLEAN
          /\ \/ poll' = poll
             \/ poll' = [poll EXCEPT !.pc = "trip"]
             \/ poll' = [poll EXCEPT !.pc = "observe"]
      BY <1>2, <1>10
         DEF ReadError, Check, Mark, Reboot, SessionLost, Drain
    <2>2. Defaults \in Packs
      BY ShellAssumption DEF Defaults, Packs
    <2>3. poll' \in Polls /\ (poll'.pc # "assess" \/ poll' = poll)
      BY <1>2, <2>1 DEF Polls
    <2> QED
      BY <1>2, <2>1, <2>2, <2>3, OutsideStepKeeps
  <1>11. CASE Trip
    <2>1. /\ UNCHANGED <<r, docs, job, chargeCmd, now, written, inverted, low,
                         reconnectPending, held>>
          /\ session' = IF session = "broken" THEN "down" ELSE session
          /\ pack' = IF session = "up" THEN [pack EXCEPT !.connected = FALSE]
                     ELSE pack
          /\ poll' = [poll EXCEPT !.pc = IF session = "broken"
                                         THEN "observe" ELSE "mark"]
      BY <1>11 DEF Trip
    <2>2. pack' \in Packs
      BY <1>2, <2>1 DEF Packs
    <2>3. poll' \in Polls /\ poll'.pc # "assess"
      BY <1>2, <2>1 DEF Polls
    <2>4. session' \in {"up", "broken", "down"}
          /\ (session' = "up" => session = "up")
      BY <1>2, <2>1
    <2> QED
      BY <1>2, <2>1, <2>2, <2>3, <2>4, OutsideStepKeeps
  <1>12. CASE Reassert
    <2> DEFINE res == Reconnected(r, now)
    <2>1. /\ CoreCall(res) /\ res.r.fields = r.fields
          /\ res.write = NoWrite => ~r.applied
      BY <1>1, TimerCalls
    <2>2. /\ job = NoJob /\ r' = res.r
          /\ job' = [owner |-> "poll", stage |-> IF res.write = NoWrite
                                                 THEN "observe" ELSE "gate"]
          /\ poll' = [poll EXCEPT !.pc = "assess"]
          /\ UNCHANGED <<now, docs, chargeCmd, session, pack, inverted, low,
                         written, held>>
      BY <1>12 DEF Reassert
    <2> HIDE DEF res
    <2>3. /\ job' \in Jobs /\ job'.stage # "note" /\ job.stage \notin Due
          /\ job'.stage \notin Due => ~r.applied
          /\ job'.owner = "poll"
      BY <2>1, <2>2 DEF Jobs, NoJob, Due
    <2>4. poll' \in Polls
      BY <1>2, <2>2 DEF Polls
    <2> QED
      BY <2>1, <2>2, <2>3, <2>4, TimerStepKeeps
  <1>13. CASE Assess
    <2>1. PICK plausible \in BOOLEAN :
            LET res == Observe(r, [read |-> [f \in {"SetpointW"} |-> poll.m.w],
                                   connected |-> TRUE, plausible |-> plausible,
                                   finite |-> TRUE], now)
            IN  r' = res.r /\ job' = Locked("poll", res.write)
      BY <1>13 DEF Assess
    <2> DEFINE o == [read |-> [f \in {"SetpointW"} |-> poll.m.w],
                     connected |-> TRUE, plausible |-> plausible,
                     finite |-> TRUE]
               res == Observe(r, o, now)
    <2>2. o \in Samples
      <3>1. poll.m.w \in Level
        BY <1>2 DEF Polls
      <3>2. [f \in {"SetpointW"} |-> poll.m.w] \in [{"SetpointW"} -> Level]
        BY <3>1
      <3>3. {"SetpointW"} \in SUBSET Field
        BY ShellAssumption
      <3>4. [f \in {"SetpointW"} |-> poll.m.w] \in Opinions
        BY <3>2, <3>3 DEF Opinions
      <3> QED
        BY <3>4 DEF Samples
    <2>3. CoreCall(res) /\ res.r.fields = r.fields
      BY <1>1, <2>2, SampleCall
    <2>4. r' = res.r /\ job' = Locked("poll", res.write)
      BY <2>1
    <2> HIDE DEF o, res
    <2>5. /\ job.stage \notin Due
          /\ poll' = [pc |-> "idle", m |-> NoSample]
          /\ UNCHANGED <<now, docs, reconnectPending, chargeCmd, session,
                         pack, inverted, low, written, held>>
      BY <1>13 DEF Assess, NoJob, Due
    <2>6. job' \in Jobs /\ job'.stage # "note"
      BY <2>4 DEF Locked, Jobs, NoJob
    <2>7. poll' \in Polls /\ poll'.pc # "assess"
      BY <2>5, ShellAssumption DEF Polls, NoSample
    <2> QED
      BY <2>3, <2>4, <2>5, <2>6, <2>7, TimerStepKeeps
  <1>14. CASE Advance
    <2>1. /\ now' = now + 1
          /\ UNCHANGED <<r, docs, job, chargeCmd, reconnectPending, poll,
                         session, pack, inverted, low, written, held>>
      BY <1>14 DEF Advance
    <2>2. Sound(r, now')
      BY <1>2, <2>1, SoundLater
    <2> QED
      BY <1>2, <2>1, <2>2, OutsideStepKeeps
  <1>15. CASE UNCHANGED vars
    BY <1>2, <1>15, OutsideStepKeeps DEF vars
  <1> QED
    BY <1>3, <1>4, <1>5, <1>7, <1>8, <1>9, <1>10, <1>11, <1>12, <1>13, <1>14,
       <1>15 DEF Next, JobStep, PollStep

LEMMA BatteryInvariance == Spec => []IInv
  <1> QED
    BY BatteryInit, BatteryStep, PTL DEF Spec

\* The shell, the session and the pack never leave their types, and the rest
\* of observe keeps the mutex.
THEOREM BatteryTypeCorrect == Spec => []TypeOK
  <1>1. IInv => TypeOK
    BY DEF IInv, BatteryTypes, TypeOK, Sound, Jobs, Polls, Packs
  <1> QED
    BY <1>1, BatteryInvariance, PTL

\* Between polls, a session that is open has been given the standing intent
\* since it was opened (retryDevice.onReconnect, markReconnected, observe).
THEOREM SessionIsCarried == Spec => []SessionCarriesStanding
  <1>1. IInv => SessionCarriesStanding
    BY DEF IInv, CarriedUnlessDue, SessionCarriesStanding, NoJob, Due
  <1> QED
    BY <1>1, BatteryInvariance, PTL

\* The interlock judges the pack by the intent that stands (setDesired,
\* noteControl).
THEOREM NoteIsCurrent == Spec => []NoteMatchesStanding
  <1>1. IInv => NoteMatchesStanding
    BY DEF IInv
  <1> QED
    BY <1>1, BatteryInvariance, PTL
=============================================================================
