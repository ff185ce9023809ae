-------------------------- MODULE ReconcilerProofs --------------------------
(***************************************************************************)
(* Proofs about Reconciler, for every field set, tolerance, timeout and    *)
(* non-decreasing backoff schedule: the type invariant, the episode and    *)
(* staleness invariants, and the pacing of corrective writes.              *)
(*                                                                         *)
(* And about AdvShell, which runs one such reconciler per axis, for every  *)
(* table of controls, order of the axes and bound on the faults: what      *)
(* stands is one control's, and a curve said to be adopted is in force.    *)
(***************************************************************************)
EXTENDS Reconciler, AdvShell, CoreProofs, WellFoundedInduction

\* What the observer has counted is covered by the reconciler's own cursor.
Paced(s, w) ==
    /\ w \in [n : Nat, at : Times]
    /\ s.divergentSince = Never => w = NoCorrection
    /\ w.n <= s.writeAttempts
    /\ w.at <= s.lastWriteAt

\* The inductive invariant.  StreamMirrorsEpisode and StandingWasWritten are
\* in it as they stand; EpisodeIsEarned and StaleIsTrue follow from Coherent,
\* which adds that an open window has a diverged standing document, without
\* which Tick could open an episode on a converged one.
IInv ==
    /\ now \in Nat
    /\ Sound(r, now)
    /\ openEpisode = Open(r)
    /\ lastWritten = r.fields
    /\ Paced(r, window)

\* The backoff schedule never shortens.
LEMMA BackoffMonotone ==
  ASSUME NEW i \in Nat \ {0}, NEW j \in Nat, i <= j
  PROVE  /\ BackoffGap(i) \in Nat
         /\ BackoffGap(j) \in Nat
         /\ BackoffGap(i) <= BackoffGap(j)
  BY ConfigAssumption DEF BackoffGap

\* A good and steady step keeps the invariant and the pacing.
LEMMA StepKeeps ==
  ASSUME IInv, NEW res, Step(res), Good(r, res, now), Steady(r, res, now)
  PROVE  /\ IInv'
         /\ window.n > 0 /\ window'.n > window.n
              => now - window.at >= BackoffGap(window.n)
  <1>1. /\ r' = res.r /\ now' = now
        /\ openEpisode' = AnnouncedAll(openEpisode, res.reports)
        /\ lastWritten' = IF res.write = NoWrite THEN lastWritten
                                                 ELSE res.r.fields
        /\ window' = Counted(res)
    BY DEF Step
  <1>2. Sound(r', now') /\ now' \in Nat
    BY <1>1 DEF IInv, Good
  <1>3. openEpisode' = Open(r')
    BY <1>1 DEF IInv, Good, Open
  <1>4. lastWritten' = r'.fields
    BY <1>1 DEF IInv, Good
  <1>5. r \in States /\ r' \in States /\ Timely(r, now)
    BY <1>2 DEF IInv, Sound
  <1>6. /\ r.lastWriteAt \in Int /\ r.writeAttempts \in Nat
        /\ r'.lastWriteAt \in Int /\ r'.writeAttempts \in Nat
        /\ r'.lastWriteAt >= Never
    BY <1>5, Bookkeeping DEF States, Times, Never
  <1>7. /\ window \in [n : Nat, at : Times]
        /\ r.divergentSince = Never => window = NoCorrection
        /\ window.n <= r.writeAttempts
        /\ window.at <= r.lastWriteAt
    BY DEF IInv, Paced
  <1>8. CASE res.r.divergentSince = Never
    <2>1. window' = NoCorrection
      BY <1>1, <1>8 DEF Counted
    <2>2. Paced(r', window')
      BY <1>6, <2>1, TimesType DEF Paced, NoCorrection
    <2> QED
      BY <1>2, <1>3, <1>4, <1>7, <2>1, <2>2 DEF IInv, NoCorrection
  <1>9. CASE res.r.divergentSince # Never /\ res.write \in Corrective
    <2>1. window' = [n |-> window.n + 1, at |-> now]
      BY <1>1, <1>9 DEF Counted
    <2>2. r'.lastWriteAt = now /\ r'.writeAttempts >= 1
      BY <1>1, <1>9 DEF Steady
    <2>3. CASE r.divergentSince = Never
      <3>1. window = NoCorrection
        BY <1>7, <2>3
      <3>2. Paced(r', window')
        BY <1>1, <1>2, <1>6, <1>9, <2>1, <2>2, <3>1, TimesType
           DEF Paced, NoCorrection
      <3> QED
        BY <1>2, <1>3, <1>4, <3>1, <3>2 DEF IInv, NoCorrection
    <2>4. CASE r.divergentSince # Never
      <3>1. BackoffReady(r, now) /\ r'.writeAttempts = r.writeAttempts + 1
        BY <1>1, <1>9, <2>4 DEF Steady
      <3>2. Paced(r', window')
        BY <1>1, <1>2, <1>6, <1>7, <1>9, <2>1, <2>2, <3>1, TimesType
           DEF Paced
      <3>3. window.n > 0 => now - window.at >= BackoffGap(window.n)
        <4> SUFFICES ASSUME window.n > 0
                     PROVE  now - window.at >= BackoffGap(window.n)
          OBVIOUS
        <4>1. now - r.lastWriteAt >= BackoffGap(r.writeAttempts)
          BY <1>6, <1>7, <3>1 DEF BackoffReady
        <4>2. /\ BackoffGap(window.n) \in Nat
              /\ BackoffGap(r.writeAttempts) \in Nat
              /\ BackoffGap(window.n) <= BackoffGap(r.writeAttempts)
          BY <1>6, <1>7, BackoffMonotone
        <4>3. now \in Nat /\ window.at \in Int
          BY <1>7, TimesType DEF IInv
        <4> QED
          BY <1>6, <1>7, <4>1, <4>2, <4>3
      <3> QED
        BY <1>2, <1>3, <1>4, <3>2, <3>3 DEF IInv
    <2> QED
      BY <2>3, <2>4
  <1>10. CASE res.r.divergentSince # Never /\ res.write \notin Corrective
    <2>1. window' = window
      BY <1>1, <1>10 DEF Counted
    <2>2. CASE r.divergentSince = Never
      BY <1>1, <1>2, <1>3, <1>4, <1>6, <1>7, <1>10, <2>1, <2>2
         DEF IInv, Paced, NoCorrection
    <2>3. CASE r.divergentSince # Never
      <3>1. /\ r'.lastWriteAt >= r.lastWriteAt
            /\ r'.writeAttempts >= r.writeAttempts
        BY <1>1, <1>10, <2>3 DEF Steady
      <3>2. window.at \in Int
        BY <1>7, TimesType
      <3> QED
        BY <1>1, <1>2, <1>3, <1>4, <1>6, <1>7, <1>10, <2>1, <3>1, <3>2
           DEF IInv, Paced
    <2> QED
      BY <2>2, <2>3
  <1> QED
    BY <1>8, <1>9, <1>10

\* Every step of the specification keeps the invariant and the pacing.
LEMMA NextKeeps ==
  ASSUME IInv, [Next]_vars
  PROVE  /\ IInv'
         /\ window.n > 0 /\ window'.n > window.n
              => now - window.at >= BackoffGap(window.n)
  <1>1. Sound(r, now) /\ now \in Nat
    BY DEF IInv
  <1>2. CASE Deliver
    <2>1. PICK m \in MRID, k \in 0..MaxSeq, d \in Delays, f \in Targets,
               finite \in BOOLEAN :
            Step(SetDesired(r, [mrid |-> m, seq |-> k, issuedAt |-> now - d,
                                fields |-> f, finite |-> finite], now))
      BY <1>2 DEF Deliver
    <2> DEFINE doc == [mrid |-> m, seq |-> k, issuedAt |-> now - d,
                       fields |-> f, finite |-> finite]
    <2>2. doc \in Documents
      BY <1>1, EnvironmentAssumption DEF Documents
    <2> HIDE DEF doc
    <2>3. Step(SetDesired(r, doc, now))
      BY <2>1 DEF doc
    <2> QED
      BY <1>1, <2>2, <2>3, SetDesiredGood, StepKeeps
  <1>3. CASE Poll
    <2>1. PICK x \in Reads, c \in BOOLEAN, p \in BOOLEAN, finite \in BOOLEAN :
            Step(Observe(r, [read |-> x, connected |-> c, plausible |-> p,
                             finite |-> finite], now))
      BY <1>3 DEF Poll
    <2> DEFINE o == [read |-> x, connected |-> c, plausible |-> p,
                     finite |-> finite]
    <2>2. o \in Samples
      BY EnvironmentAssumption DEF Samples
    <2> HIDE DEF o
    <2>3. Step(Observe(r, o, now))
      BY <2>1 DEF o
    <2> QED
      BY <1>1, <2>2, <2>3, ObserveGood, StepKeeps
  <1>4. CASE Reconnect
    BY <1>1, <1>4, ReconnectedGood, StepKeeps DEF Reconnect
  <1>5. CASE TickStep
    BY <1>1, <1>5, TickGood, StepKeeps DEF TickStep
  <1>6. CASE Advance
    <2>1. now' = now + 1 /\ r' = r /\ window' = window
          /\ openEpisode' = openEpisode /\ lastWritten' = lastWritten
      BY <1>6 DEF Advance
    <2>2. r \in States
      BY <1>1 DEF Sound
    <2>3. Sound(r', now')
      <3>1. /\ r.divergentSince \in Int /\ r.lastWriteAt \in Int
            /\ r.lastDocAt \in Int /\ r.lastReassertAt \in Int
        BY <2>2, TimesType DEF States
      <3>2. ConvergeTimeout \in Nat /\ StaleAfter \in Nat
        BY ConfigAssumption
      <3> QED
        BY <1>1, <2>1, <3>1, <3>2 DEF Sound, Timely, Coherent
    <2> QED
      BY <1>1, <2>1, <2>3 DEF IInv, Paced, Open
  <1>7. CASE UNCHANGED vars
    BY <1>7 DEF vars, IInv, Sound, Timely, Coherent, Open, Paced
  <1> QED
    BY <1>2, <1>3, <1>4, <1>5, <1>6, <1>7 DEF Next

\* The invariant holds initially ...
LEMMA InitIInv == Init => IInv
  <1> SUFFICES ASSUME Init PROVE IInv
    OBVIOUS
  <1>1. now = 0 /\ r = New /\ openEpisode = 0 /\ lastWritten = NoOpinion
        /\ window = NoCorrection
    BY DEF Init
  <1>2. Sound(r, now)
    BY <1>1, NewSound
  <1>3. openEpisode = Open(r) /\ lastWritten = r.fields
    BY <1>1 DEF Open, New
  <1>4. Paced(r, window)
    BY <1>1, TimesType DEF Paced, New, NoCorrection
  <1> QED
    BY <1>1, <1>2, <1>3, <1>4 DEF IInv

\* ... and always.
LEMMA Invariance == Spec => []IInv
  <1>1. IInv /\ [Next]_vars => IInv'
    BY NextKeeps
  <1> QED
    BY <1>1, InitIInv, PTL DEF Spec

\* The reconciler never leaves its types and no timer runs ahead of the
\* clock, whatever it is fed.
THEOREM TypeCorrect == Spec => []TypeOK
  <1>1. IInv => TypeOK
    <2> SUFFICES ASSUME IInv PROVE TypeOK
      OBVIOUS
    <2>1. r \in States /\ Timely(r, now) /\ now \in Nat
          /\ window \in [n : Nat, at : Times]
      BY DEF IInv, Sound, Paced
    <2>2. openEpisode \in Nat /\ lastWritten \in Opinions
      BY <2>1 DEF IInv, Open, States
    <2> QED
      BY <2>1, <2>2 DEF TypeOK, Timely
  <1> QED
    BY <1>1, Invariance, PTL

\* Begins and ends of episodes stay paired in the report stream
\* (checkEpisodeBegin, setDesiredCore, Observe).
THEOREM StreamCorrect == Spec => []StreamMirrorsEpisode
  <1>1. IInv => StreamMirrorsEpisode
    BY DEF IInv, StreamMirrorsEpisode, Open
  <1> QED
    BY <1>1, Invariance, PTL

\* Every open episode has ConvergeTimeout of observed divergence of the
\* standing document behind it.
THEOREM EpisodesEarned == Spec => []EpisodeIsEarned
  <1>1. IInv => EpisodeIsEarned
    BY DEF IInv, Sound, Coherent, EpisodeIsEarned
  <1> QED
    BY <1>1, Invariance, PTL

\* The standing fields are the ones last handed over for writing.
THEOREM StandingWritten == Spec => []StandingWasWritten
  <1>1. IInv => StandingWasWritten
    BY DEF IInv, StandingWasWritten
  <1> QED
    BY <1>1, Invariance, PTL

\* A document is called stale only when it is.
THEOREM StaleCorrect == Spec => []StaleIsTrue
  <1>1. IInv => StaleIsTrue
    BY DEF IInv, Sound, Coherent, StaleIsTrue
  <1> QED
    BY <1>1, Invariance, PTL

\* Corrective writes of one divergence window keep the backoff schedule,
\* for every schedule that does not shorten.
THEOREM PacingCorrect == Spec => CorrectivePacing
  <1>1. IInv /\ [Next]_vars
          => [window.n > 0 /\ window'.n > window.n
                => now - window.at >= BackoffGap(window.n)]_vars
    BY NextKeeps
  <1> QED
    BY <1>1, Invariance, PTL DEF Spec, CorrectivePacing
-----------------------------------------------------------------------------
(* The advanced shell: what it takes for the standing document to be one   *)
(* control's, and for a curve said to be adopted to be in the device.      *)

\* The documents of the controls there are.
Bodies == {BodyOf(c) : c \in Controls}

\* Control and curves, each for itself, come from some control.
BusType == [control : {NoControl} \cup {c.control : c \in Controls},
            curves : {NoControl} \cup {c.curves : c \in Controls}]

FromUtility == utility \in Controls /\ onBus \in BusType /\ seen \in BusType

\* What was written is of one: on its way, retained, and standing.
OfOne(w, kept) ==
    /\ w \in Seq({w[i] : i \in 1..Len(w)})
    /\ \A i \in 1..Len(w) : w[i].body \in Bodies
    /\ kept = NoDocument \/ kept.body \in Bodies

WrittenOfOne == OfOne(wire, retainedAdv) /\ standing \in Bodies \cup {NoBody}

\* What a shell is made of.
Shaped(s) ==
    /\ DOMAIN s = {"r", "adopt", "dev", "on", "caps"}
    /\ DOMAIN s.r = Axes /\ DOMAIN s.adopt = Axes /\ DOMAIN s.dev = Axes /\ DOMAIN s.on = Axes
    /\ \A x \in Axes : "applied" \in DOMAIN s.r[x]

\* A slice says what it is, and an engaged one has been adopted by its core.
Slices ==
    /\ DOMAIN target = Axes
    /\ \A x \in Axes :
          /\ target[x].kind \in {"engaged", "release", "none"}
          /\ target[x].kind = "release" => target[x].fields = Content(0)
          /\ target[x].kind = "none" => target[x].fields = NoOpinion
          /\ target[x].kind = "engaged" => runners[x].applied

AdvInv == FromUtility /\ WrittenOfOne /\ Shaped(Shell) /\ Slices /\ AdoptedIsLoaded

-----------------------------------------------------------------------------
(* The core, as far as the shell needs it: what has been adopted stays so.  *)

HasFlag(s) == "applied" \in DOMAIN s
StillApplied(s, u) == HasFlag(u) /\ (s.applied => u.applied)

LEMMA WriteActionApplied ==
  ASSUME NEW s, HasFlag(s), NEW t
  PROVE  StillApplied(s, WriteAction(s, t))
  BY DEF WriteAction, HasFlag, StillApplied

LEMMA EpisodeBegunApplied ==
  ASSUME NEW s, HasFlag(s), NEW t
  PROVE  StillApplied(s, EpisodeBegun(s, t))
  BY DEF EpisodeBegun, HasFlag, StillApplied

LEMMA ObserveApplied ==
  ASSUME NEW s, HasFlag(s), NEW o, NEW t
  PROVE  StillApplied(s, Observe(s, o, t).r)
  <1> DEFINE d == Diverge(s, t)
             b == EpisodeBegun(d, t)
             w == WriteAction(b, t)
             c == Converge(s)
  <1>1. StillApplied(s, d)
    BY DEF Diverge, HasFlag, StillApplied
  <1>2. StillApplied(d, b)
    BY <1>1, EpisodeBegunApplied DEF StillApplied
  <1>3. StillApplied(b, w)
    BY <1>2, WriteActionApplied DEF StillApplied
  <1>4. StillApplied(s, c)
    BY DEF Converge, HasFlag, StillApplied
  <1>5. Observe(s, o, t).r \in {s, c, b, w}
    BY DEF Observe, Result, Idle
  <1> HIDE DEF d, b, w, c
  <1> QED
    BY <1>1, <1>2, <1>3, <1>4, <1>5 DEF StillApplied

LEMMA TickApplied ==
  ASSUME NEW s, HasFlag(s), NEW t
  PROVE  StillApplied(s, Tick(s, t).r)
  <1> DEFINE m == StaleMarked(s, t)
             b == EpisodeBegun(m, t)
             w == WriteAction(b, t)
  <1>1. StillApplied(s, m)
    BY DEF StaleMarked, HasFlag, StillApplied
  <1>2. StillApplied(m, b)
    BY <1>1, EpisodeBegunApplied DEF StillApplied
  <1>3. StillApplied(b, w)
    BY <1>2, WriteActionApplied DEF StillApplied
  <1>4. Tick(s, t).r \in {s, b, w}
    BY DEF Tick, Result, Idle
  <1> HIDE DEF m, b, w
  <1> QED
    BY <1>1, <1>2, <1>3, <1>4 DEF StillApplied

\* A reconnected core that has a document writes it.
LEMMA ReconnectedApplied ==
  ASSUME NEW s, HasFlag(s), NEW t
  PROVE  /\ StillApplied(s, Reconnected(s, t).r)
         /\ s.applied => Reconnected(s, t).write # NoWrite
  <1>1. StillApplied(s, Unassess(s))
    BY DEF Unassess, HasFlag, StillApplied
  <1>2. StillApplied(Unassess(s), WriteAction(Unassess(s), t))
    BY <1>1, WriteActionApplied DEF StillApplied
  <1>3. CASE ~s.applied
    BY <1>3 DEF Reconnected, Idle, Result, StillApplied
  <1>4. CASE s.applied
    <2>1. Reconnected(s, t) = Result(WriteAction(Unassess(s), t), "reconnect-reassert", <<>>)
      BY <1>4 DEF Reconnected
    <2>2. /\ Reconnected(s, t).r = WriteAction(Unassess(s), t)
          /\ Reconnected(s, t).write # NoWrite
      BY <2>1 DEF Result, NoWrite
    <2> QED
      BY <1>1, <1>2, <2>2 DEF StillApplied
  <1> QED
    BY <1>3, <1>4

\* An accepted document is the core's, and is written unless it changes nothing.
LEMMA SetDesiredApplies ==
  ASSUME NEW s, HasFlag(s), NEW doc, NEW t, Accepts(s, doc, t)
  PROVE  HasFlag(SetDesired(s, doc, t).r) /\ SetDesired(s, doc, t).r.applied
  <1> DEFINE a == Adopt(s, doc, t)
             n == Retarget(a)
             w == WriteAction(n, t)
  <1>1. HasFlag(a) /\ a.applied
    BY DEF Adopt, HasFlag
  <1>2. HasFlag(n) /\ n.applied
    BY <1>1 DEF Retarget, HasFlag
  <1>3. HasFlag(w) /\ w.applied
    BY <1>2, WriteActionApplied DEF StillApplied
  <1>4. SetDesired(s, doc, t).r \in {a, w}
    BY DEF SetDesired, Result
  <1> HIDE DEF a, n, w
  <1> QED
    BY <1>1, <1>3, <1>4

-----------------------------------------------------------------------------
(* One axis at a time.                                                     *)

\* What becomes of a shell where one axis is worked on: of the others, nothing.
OnlyOn(x, s, u) ==
    /\ Shaped(u)
    /\ \A y \in Axes : y # x => u.r[y] = s.r[y] /\ u.adopt[y] = s.adopt[y] /\ u.dev[y] = s.dev[y]
    /\ s.r[x].applied => u.r[x].applied

LEMMA OnlyOnJoins ==
  ASSUME NEW x, NEW s, NEW u, NEW w, OnlyOn(x, s, u), OnlyOn(x, u, w)
  PROVE  OnlyOn(x, s, w)
  BY DEF OnlyOn

LEMMA FetchedOnly ==
  ASSUME NEW s, Shaped(s), NEW x \in Axes
  PROVE  /\ OnlyOn(x, s, Fetched(s))
         /\ Fetched(s).r = s.r /\ Fetched(s).adopt = s.adopt /\ Fetched(s).dev = s.dev
         /\ link => Fetched(s).caps # "unknown"
  BY DEF Fetched, Shaped, OnlyOn

LEMMA WrittenOnly ==
  ASSUME NEW s, Shaped(s), NEW x \in Axes, NEW v
  PROVE  OnlyOn(x, s, Written(s, x, v)) /\ Written(s, x, v).adopt = s.adopt
  BY DEF Written, Shaped, OnlyOn

LEMMA AdoptCurveOnly ==
  ASSUME NEW s, Shaped(s), NEW x \in Axes, NEW v
  PROVE  OnlyOn(x, s, AdoptCurve(s, x, v))
  BY DEF AdoptCurve, Shaped, OnlyOn

LEMMA DisabledOnly ==
  ASSUME NEW s, Shaped(s), NEW x \in Axes
  PROVE  OnlyOn(x, s, Disabled(s, x))
  BY DEF Disabled, Shaped, OnlyOn

LEMMA FedOnly ==
  ASSUME NEW s, Shaped(s), NEW x \in Axes, NEW v
  PROVE  /\ OnlyOn(x, s, Fed(s, x, v))
         /\ Fed(s, x, v).dev = s.dev /\ Fed(s, x, v).adopt = s.adopt
  <1> DEFINE u == Observe(s.r[x], Sample(v), minute).r
  <1>1. HasFlag(s.r[x])
    BY DEF Shaped, HasFlag
  <1>2. StillApplied(s.r[x], u)
    BY <1>1, ObserveApplied
  <1>3. Fed(s, x, v) = [s EXCEPT !.r[x] = u]
    BY DEF Fed
  <1> HIDE DEF u
  <1> QED
    BY <1>2, <1>3 DEF Shaped, OnlyOn, StillApplied, HasFlag

LEMMA TransitionOnly ==
  ASSUME NEW s, Shaped(s), NEW x \in Axes, NEW state
  PROVE  /\ OnlyOn(x, s, Transition(s, x, state))
         /\ Transition(s, x, state).dev = s.dev /\ Transition(s, x, state).adopt[x] = state
  BY DEF Transition, Shaped, OnlyOn

LEMMA VerdictOnly ==
  ASSUME NEW s, Shaped(s), NEW x \in Axes, NEW v, NEW state
  PROVE  /\ OnlyOn(x, s, Verdict(s, x, v, state))
         /\ Verdict(s, x, v, state).dev = s.dev /\ Verdict(s, x, v, state).adopt[x] = state
  <1>1. OnlyOn(x, s, Fed(s, x, v)) /\ Fed(s, x, v).dev = s.dev
    BY FedOnly
  <1>2. Shaped(Fed(s, x, v))
    BY <1>1 DEF OnlyOn
  <1>3. /\ OnlyOn(x, Fed(s, x, v), Verdict(s, x, v, state))
        /\ Verdict(s, x, v, state).dev = Fed(s, x, v).dev
        /\ Verdict(s, x, v, state).adopt[x] = state
    BY <1>2, TransitionOnly DEF Verdict
  <1> QED
    BY <1>1, <1>3, OnlyOnJoins

\* A curve said to be adopted is the one that was asked for.
Kept(s, x, t) ==
    x \in Curves /\ s.adopt[x] = "adopted" /\ t.kind = "engaged" /\ link => s.dev[x] = Value(t)

LEMMA ExecuteCurveOnly ==
  ASSUME NEW s, Shaped(s), NEW x \in Axes, NEW t
  PROVE  OnlyOn(x, s, ExecuteCurve(s, x, Value(t))) /\ Kept(ExecuteCurve(s, x, Value(t)), x, t)
  <1> DEFINE want == Value(t)
             w == AdoptCurve(s, x, want)
  <1>1. OnlyOn(x, s, w)
    BY AdoptCurveOnly
  <1>2. Shaped(w)
    BY <1>1 DEF OnlyOn
  <1>3. CASE link /\ Readback(s, x) = want
    <2>1. ExecuteCurve(s, x, want) = Verdict(s, x, want, "adopted")
      BY <1>3 DEF ExecuteCurve
    <2> HIDE DEF want
    <2>2. /\ OnlyOn(x, s, Verdict(s, x, want, "adopted"))
          /\ Verdict(s, x, want, "adopted").dev = s.dev
      BY VerdictOnly
    <2>3. s.dev[x] = want
      BY <1>3 DEF Readback
    <2> QED
      BY <2>1, <2>2, <2>3 DEF Kept, want
  <1>4. CASE ~(link /\ Readback(s, x) = want) /\ Fails(x)
    <2>1. ExecuteCurve(s, x, want) = Verdict(w, x, want + 1, "failed")
      BY <1>4 DEF ExecuteCurve
    <2> HIDE DEF want, w
    <2>2. /\ OnlyOn(x, w, Verdict(w, x, want + 1, "failed"))
          /\ Verdict(w, x, want + 1, "failed").adopt[x] = "failed"
      BY <1>2, VerdictOnly
    <2>3. OnlyOn(x, s, Verdict(w, x, want + 1, "failed"))
      BY <1>1, <2>2, OnlyOnJoins
    <2> QED
      BY <2>1, <2>2, <2>3 DEF Kept, want
  <1>5. CASE ~(link /\ Readback(s, x) = want) /\ ~Fails(x) /\ Readback(w, x) = want
    <2>1. ExecuteCurve(s, x, want) = Verdict(w, x, want, "adopted")
      BY <1>5 DEF ExecuteCurve
    <2>2. w.dev[x] = want
      BY <1>5 DEF Readback
    <2> HIDE DEF want, w
    <2>3. /\ OnlyOn(x, w, Verdict(w, x, want, "adopted"))
          /\ Verdict(w, x, want, "adopted").dev = w.dev
      BY <1>2, VerdictOnly
    <2>4. OnlyOn(x, s, Verdict(w, x, want, "adopted"))
      BY <1>1, <2>3, OnlyOnJoins
    <2> QED
      BY <2>1, <2>2, <2>3, <2>4 DEF Kept, want
  <1>6. CASE ~(link /\ Readback(s, x) = want) /\ ~Fails(x) /\ Readback(w, x) # want
    <2>1. ExecuteCurve(s, x, want) = Verdict(w, x, want + 1, "diverged")
      BY <1>6 DEF ExecuteCurve
    <2> HIDE DEF want, w
    <2>2. /\ OnlyOn(x, w, Verdict(w, x, want + 1, "diverged"))
          /\ Verdict(w, x, want + 1, "diverged").adopt[x] = "diverged"
      BY <1>2, VerdictOnly
    <2>3. OnlyOn(x, s, Verdict(w, x, want + 1, "diverged"))
      BY <1>1, <2>2, OnlyOnJoins
    <2> QED
      BY <2>1, <2>2, <2>3 DEF Kept, want
  <1> QED
    BY <1>3, <1>4, <1>5, <1>6

LEMMA ExecuteReleaseOnly ==
  ASSUME NEW s, Shaped(s), NEW x \in Axes
  PROVE  OnlyOn(x, s, ExecuteRelease(s, x))
  <1> DEFINE w == Disabled(s, x)
  <1>1. OnlyOn(x, s, w)
    BY DisabledOnly
  <1>2. Shaped(w)
    BY <1>1 DEF OnlyOn
  <1>3. ExecuteRelease(s, x) \in {s, Verdict(s, x, 0, ""), Fed(w, x, 1), Verdict(w, x, 0, "")}
    BY DEF ExecuteRelease
  <1> HIDE DEF w
  <1>4. OnlyOn(x, s, s)
    BY DEF OnlyOn
  <1>5. OnlyOn(x, s, Verdict(s, x, 0, ""))
    BY VerdictOnly
  <1>6. OnlyOn(x, w, Fed(w, x, 1)) /\ OnlyOn(x, w, Verdict(w, x, 0, ""))
    BY <1>2, FedOnly, VerdictOnly
  <1>7. OnlyOn(x, s, Fed(w, x, 1)) /\ OnlyOn(x, s, Verdict(w, x, 0, ""))
    BY <1>1, <1>6, OnlyOnJoins
  <1> QED
    BY <1>3, <1>4, <1>5, <1>7

LEMMA ExecuteMeasuredOnly ==
  ASSUME NEW s, Shaped(s), NEW x \in Axes, NEW want
  PROVE  OnlyOn(x, s, ExecuteMeasured(s, x, want))
  <1> DEFINE w == Written(s, x, want)
  <1>1. OnlyOn(x, s, w)
    BY WrittenOnly
  <1>2. Shaped(w)
    BY <1>1 DEF OnlyOn
  <1>3. ExecuteMeasured(s, x, want) \in {Transition(s, x, "failed"), w, Transition(w, x, "pending")}
    BY DEF ExecuteMeasured
  <1> HIDE DEF w
  <1>4. OnlyOn(x, s, Transition(s, x, "failed"))
    BY TransitionOnly
  <1>5. OnlyOn(x, w, Transition(w, x, "pending"))
    BY <1>2, TransitionOnly
  <1>6. OnlyOn(x, s, Transition(w, x, "pending"))
    BY <1>1, <1>5, OnlyOnJoins
  <1> QED
    BY <1>1, <1>3, <1>4, <1>6

\* Whatever a write comes to, only what the readback shows is adopted.
LEMMA ExecuteOnly ==
  ASSUME NEW s0, Shaped(s0), NEW x \in Axes, NEW t
  PROVE  OnlyOn(x, s0, Execute(s0, x, t)) /\ Kept(Execute(s0, x, t), x, t)
  <1> DEFINE s == Fetched(s0)
             e == Execute(s0, x, t)
  <1>1. OnlyOn(x, s0, s) /\ (link => s.caps # "unknown")
    BY FetchedOnly
  <1>2. Shaped(s)
    BY <1>1 DEF OnlyOn
  <1>3. CASE t.kind = "none" \/ s.caps = "unknown"
    <2>1. e = s
      BY <1>3 DEF Execute
    <2> HIDE DEF s, e
    <2>2. Kept(s, x, t)
      BY <1>1, <1>3 DEF Kept
    <2> QED
      BY <1>1, <2>1, <2>2 DEF e
  <1>4. CASE ~(t.kind = "none" \/ s.caps = "unknown") /\ t.kind = "release"
    <2>1. e \in {ExecuteRelease(s, x), Verdict(s, x, 0, "")}
      BY <1>4 DEF Execute
    <2> HIDE DEF s, e
    <2>2. OnlyOn(x, s, ExecuteRelease(s, x)) /\ OnlyOn(x, s, Verdict(s, x, 0, ""))
      BY <1>2, ExecuteReleaseOnly, VerdictOnly
    <2>3. OnlyOn(x, s, e)
      BY <2>1, <2>2
    <2>4. Kept(e, x, t)
      BY <1>4 DEF Kept
    <2> QED
      BY <1>1, <2>3, <2>4, OnlyOnJoins DEF e
  <1>5. CASE ~(t.kind = "none" \/ s.caps = "unknown") /\ t.kind # "release" /\ ~Supported(x)
    <2>1. e = Transition(s, x, "unsupported")
      BY <1>5 DEF Execute
    <2> HIDE DEF s, e
    <2>2. OnlyOn(x, s, e) /\ e.adopt[x] = "unsupported"
      BY <1>2, <2>1, TransitionOnly
    <2>3. Kept(e, x, t)
      BY <2>2 DEF Kept
    <2> QED
      BY <1>1, <2>2, <2>3, OnlyOnJoins DEF e
  <1>6. CASE ~(t.kind = "none" \/ s.caps = "unknown") /\ t.kind # "release" /\ Supported(x)
    <2>1. CASE Suppressed(x, Value(t))
      <3>1. e = s
        BY <1>6, <2>1 DEF Execute
      <3>2. x \notin Curves
        BY <2>1 DEF Suppressed, Curves
      <3> HIDE DEF s, e
      <3>3. Kept(e, x, t)
        BY <3>2 DEF Kept
      <3> QED
        BY <1>1, <3>1, <3>3 DEF e
    <2>2. CASE ~Suppressed(x, Value(t)) /\ x \in Curves
      <3>1. e = ExecuteCurve(s, x, Value(t))
        BY <1>6, <2>2 DEF Execute
      <3> HIDE DEF s, e
      <3>2. OnlyOn(x, s, e) /\ Kept(e, x, t)
        BY <1>2, <3>1, ExecuteCurveOnly
      <3> QED
        BY <1>1, <3>2, OnlyOnJoins DEF e
    <2>3. CASE ~Suppressed(x, Value(t)) /\ x \notin Curves
      <3>1. e = ExecuteMeasured(s, x, Value(t))
        BY <1>6, <2>3 DEF Execute
      <3> HIDE DEF s, e
      <3>2. OnlyOn(x, s, e)
        BY <1>2, <3>1, ExecuteMeasuredOnly
      <3>3. Kept(e, x, t)
        BY <2>3 DEF Kept
      <3> QED
        BY <1>1, <3>2, <3>3, OnlyOnJoins DEF e
    <2> QED
      BY <2>1, <2>2, <2>3
  <1> QED
    BY <1>3, <1>4, <1>5, <1>6

\* The outcome of a core operation, and its write if it has one.
LEMMA HandledOnly ==
  ASSUME NEW s, Shaped(s), NEW x \in Axes, NEW o, NEW t, StillApplied(s.r[x], o.r)
  PROVE  LET u == Handled(s, x, o, t)
         IN  /\ OnlyOn(x, s, u)
             /\ o.r.applied => u.r[x].applied
             /\ o.write # NoWrite \/ Kept(s, x, t) => Kept(u, x, t)
  <1> DEFINE a == [s EXCEPT !.r[x] = o.r]
             u == Handled(s, x, o, t)
  <1>1. OnlyOn(x, s, a) /\ a.dev = s.dev /\ a.adopt = s.adopt /\ a.r[x] = o.r
    BY DEF Shaped, OnlyOn, StillApplied, HasFlag
  <1>2. Shaped(a)
    BY <1>1 DEF OnlyOn
  <1>3. u = IF o.write = NoWrite THEN a ELSE Execute(a, x, t)
    BY DEF Handled
  <1> HIDE DEF a
  <1>4. OnlyOn(x, a, Execute(a, x, t)) /\ Kept(Execute(a, x, t), x, t)
    BY <1>2, ExecuteOnly
  <1>5. Kept(s, x, t) => Kept(a, x, t)
    BY <1>1 DEF Kept
  <1>6. OnlyOn(x, a, a)
    BY <1>2 DEF OnlyOn
  <1>7. OnlyOn(x, a, u) /\ (o.write # NoWrite \/ Kept(s, x, t) => Kept(u, x, t))
    BY <1>3, <1>4, <1>5, <1>6
  <1> HIDE DEF u
  <1>8. o.r.applied => u.r[x].applied
    BY <1>1, <1>7 DEF OnlyOn
  <1>9. OnlyOn(x, s, u)
    BY <1>1, <1>7, OnlyOnJoins
  <1> QED
    BY <1>7, <1>8, <1>9 DEF u

-----------------------------------------------------------------------------
(* All axes, in their order.                                               *)

\* What the four entry points do on one axis: setDesired with what its core
\* made of the document, the reassert of a reopened session, a poll's
\* measurements, and the minute's tick.
AxisStep(e, s, x) ==
    CASE e.kind = "told"     -> Handled(s, x, e.out[x], e.t[x])
      [] e.kind = "reopened" -> Reasserted(s, x)
      [] e.kind = "polled"   -> Assessed(s, x, e.m)
      [] e.kind = "ticked"   -> Ticked(s, x)

Sane(e) ==
    \/ e.kind = "told" /\ \A x \in Axes : HasFlag(e.out[x].r) /\ e.out[x].r.applied
    \/ e.kind \in {"reopened", "polled", "ticked"} /\ e.t = target

\* Nothing adopted or in force is lost ...
Fine(e, s, u) ==
    /\ Shaped(u)
    /\ \A y \in Axes :
          /\ s.r[y].applied => u.r[y].applied
          /\ Kept(s, y, e.t[y]) => Kept(u, y, e.t[y])

\* ... and an axis gone through has the document, and after a reassert what it
\* says is adopted is so.
Done(e, s, u, x) ==
    /\ e.kind = "told" => u.r[x].applied
    /\ e.kind = "reopened" /\ s.r[x].applied => Kept(u, x, e.t[x])

LEMMA FineJoins ==
  ASSUME NEW e, NEW s, NEW u, NEW w, Fine(e, s, u), Fine(e, u, w)
  PROVE  /\ Fine(e, s, w)
         /\ \A x \in Axes : Done(e, s, u, x) \/ Done(e, u, w, x) => Done(e, s, w, x)
  BY DEF Fine, Done

LEMMA OnlyOnFine ==
  ASSUME NEW e, NEW s, NEW u, NEW x \in Axes, OnlyOn(x, s, u),
         Kept(s, x, e.t[x]) => Kept(u, x, e.t[x])
  PROVE  Fine(e, s, u)
  <1>1. ASSUME NEW y \in Axes, y # x
        PROVE  u.r[y] = s.r[y] /\ (Kept(s, y, e.t[y]) => Kept(u, y, e.t[y]))
    BY <1>1 DEF OnlyOn, Kept
  <1> QED
    BY <1>1 DEF Fine, OnlyOn

LEMMA AssessedOnly ==
  ASSUME NEW s0, Shaped(s0), NEW x \in Axes, NEW m
  PROVE  /\ OnlyOn(x, s0, Assessed(s0, x, m))
         /\ Kept(s0, x, target[x]) => Kept(Assessed(s0, x, m), x, target[x])
  <1> DEFINE t == target[x]
             s == IF x = "fixed_var" THEN Fetched(s0) ELSE s0
             j == Synthesize(x, m, Value(t), s.caps)
             g == Transition(s, x, j.verdict)
             o == Observe(s.r[x], Sample(j.read), minute)
             a == Assessed(s0, x, m)
  <1>1. OnlyOn(x, s0, s0)
    BY DEF OnlyOn
  <1>2. CASE x \notin Measured
    <2>1. a = s0
      BY <1>2 DEF Assessed
    <2> QED
      BY <1>1, <2>1
  <1>3. CASE x \in Measured
    <2>1. x \notin Curves
      BY <1>3 DEF Measured, Curves
    <2>2. a \in {s0, s, Handled(g, x, o, t)}
      BY DEF Assessed
    <2> HIDE DEF j
    <2>3. OnlyOn(x, s0, s)
      BY <1>1, FetchedOnly
    <2>4. Shaped(s)
      BY <2>3 DEF OnlyOn
    <2> HIDE DEF s
    <2>5. OnlyOn(x, s, g) /\ g.r = s.r
      BY <2>4, TransitionOnly DEF Transition, Shaped
    <2>6. Shaped(g)
      BY <2>5 DEF OnlyOn
    <2>7. StillApplied(g.r[x], o.r)
      BY <2>4, <2>5, ObserveApplied DEF Shaped, HasFlag
    <2> HIDE DEF g, o, t
    <2>8. OnlyOn(x, g, Handled(g, x, o, t))
      BY <2>6, <2>7, HandledOnly
    <2>9. OnlyOn(x, s0, Handled(g, x, o, t))
      BY <2>3, <2>5, <2>8, OnlyOnJoins
    <2> HIDE DEF a
    <2>10. OnlyOn(x, s0, a)
      BY <1>1, <2>2, <2>3, <2>9
    <2> QED
      BY <2>1, <2>10 DEF Kept, a
  <1> QED
    BY <1>2, <1>3

LEMMA AxisStepDoes ==
  ASSUME NEW e, Sane(e), NEW s, Shaped(s), NEW x \in Axes
  PROVE  Fine(e, s, AxisStep(e, s, x)) /\ Done(e, s, AxisStep(e, s, x), x)
  <1> DEFINE u == AxisStep(e, s, x)
  <1>1. HasFlag(s.r[x])
    BY DEF Shaped, HasFlag
  <1>2. CASE e.kind = "told"
    <2>1. u = Handled(s, x, e.out[x], e.t[x])
      BY <1>2 DEF AxisStep
    <2>2. HasFlag(e.out[x].r) /\ e.out[x].r.applied
      BY <1>2 DEF Sane
    <2>3. StillApplied(s.r[x], e.out[x].r)
      BY <2>2 DEF StillApplied
    <2> HIDE DEF u
    <2>4. OnlyOn(x, s, u) /\ u.r[x].applied /\ (Kept(s, x, e.t[x]) => Kept(u, x, e.t[x]))
      BY <2>1, <2>2, <2>3, HandledOnly
    <2>5. Fine(e, s, u)
      BY <2>4, OnlyOnFine
    <2> QED
      BY <1>2, <2>4, <2>5 DEF Done, u
  <1>3. CASE e.kind = "reopened"
    <2> DEFINE o == Reconnected(s.r[x], minute)
    <2>1. u = Handled(s, x, o, e.t[x])
      BY <1>3 DEF AxisStep, Reasserted, Sane
    <2>2. StillApplied(s.r[x], o.r) /\ (s.r[x].applied => o.write # NoWrite)
      BY <1>1, ReconnectedApplied
    <2> HIDE DEF u, o
    <2>3. OnlyOn(x, s, u) /\ (s.r[x].applied \/ Kept(s, x, e.t[x]) => Kept(u, x, e.t[x]))
      BY <2>1, <2>2, HandledOnly
    <2>4. Fine(e, s, u)
      BY <2>3, OnlyOnFine
    <2> QED
      BY <1>3, <2>3, <2>4 DEF Done, u
  <1>4. CASE e.kind = "polled"
    <2>1. u = Assessed(s, x, e.m) /\ e.t = target
      BY <1>4 DEF AxisStep, Sane
    <2> HIDE DEF u
    <2>2. OnlyOn(x, s, u) /\ (Kept(s, x, e.t[x]) => Kept(u, x, e.t[x]))
      BY <2>1, AssessedOnly
    <2>3. Fine(e, s, u)
      BY <2>2, OnlyOnFine
    <2> QED
      BY <1>4, <2>3 DEF Done, u
  <1>5. CASE e.kind = "ticked"
    <2> DEFINE o == Tick(s.r[x], minute + 1)
    <2>1. u = Handled(s, x, o, e.t[x])
      BY <1>5 DEF AxisStep, Ticked, Sane
    <2>2. StillApplied(s.r[x], o.r)
      BY <1>1, TickApplied
    <2> HIDE DEF u, o
    <2>3. OnlyOn(x, s, u) /\ (Kept(s, x, e.t[x]) => Kept(u, x, e.t[x]))
      BY <2>1, <2>2, HandledOnly
    <2>4. Fine(e, s, u)
      BY <2>3, OnlyOnFine
    <2> QED
      BY <1>5, <2>4 DEF Done, u
  <1> QED
    BY <1>2, <1>3, <1>4, <1>5 DEF Sane

\* Among naturals there is a least.
LEMMA LeastNumber ==
  ASSUME NEW T \in SUBSET Nat, T # {}
  PROVE  \E m \in T : \A n \in T : m <= n
  <1> DEFINE Before == {ss \in Nat \X Nat : ss[1] < ss[2]}
  <1>1. IsWellFoundedOn(Before, Nat)
    BY NatLessThanWellFounded DEF OpToRel
  <1> HIDE DEF Before
  <1>2. PICK m \in T : \A n \in T : ~(<<n, m>> \in Before)
    BY <1>1, WFMin
  <1>3. ASSUME NEW n \in T PROVE m <= n
    <2>1. n \in Nat /\ m \in Nat
      OBVIOUS
    <2>2. n < m => <<n, m>> \in Before
      BY <2>1 DEF Before
    <2> QED
      BY <1>2, <2>1, <2>2
  <1> QED
    BY <1>3

\* Induction over a set, which needs no operator for a parameter.
LEMMA Induction ==
  ASSUME NEW S, 0 \in S, \A n \in Nat : n \in S => n + 1 \in S
  PROVE  Nat \subseteq S
  <1> SUFFICES ASSUME NEW n \in Nat \ S PROVE FALSE
    OBVIOUS
  <1>1. PICK x \in Nat \ S : \A y \in Nat \ S : x <= y
    BY LeastNumber
  <1>2. x # 0 /\ x - 1 \in Nat /\ x - 1 < x
    OBVIOUS
  <1>3. (x - 1) + 1 \in S
    BY <1>1, <1>2
  <1> QED
    BY <1>3

\* The states a shell goes through, from s on, by the m-th axis of the order.
Runs(e, s, f, m) ==
    f = [i \in 0..m |-> IF i = 0 THEN s ELSE AxisStep(e, f[i - 1], AxisOrder[i])]

LEMMA RunExists ==
  ASSUME NEW e, NEW s, NEW m \in Nat
  PROVE  \E f : Runs(e, s, f, m)
  <1> DEFINE S == {n \in Nat : \E f : Runs(e, s, f, n)}
  <1>1. 0 \in S
    <2> DEFINE f == [i \in 0..0 |-> s]
    <2>1. Runs(e, s, f, 0)
      BY DEF Runs
    <2> QED
      BY <2>1
  <1>2. ASSUME NEW n \in Nat, n \in S PROVE n + 1 \in S
    <2>1. PICK g : Runs(e, s, g, n)
      BY <1>2
    <2> DEFINE f == [i \in 0..(n + 1) |->
                        IF i = n + 1 THEN AxisStep(e, g[n], AxisOrder[n + 1]) ELSE g[i]]
    <2>2. \A i \in 0..n : f[i] = g[i]
      OBVIOUS
    <2>3. f[n + 1] = AxisStep(e, g[n], AxisOrder[n + 1])
      OBVIOUS
    <2>4. \A i \in 0..n : g[i] = IF i = 0 THEN s ELSE AxisStep(e, g[i - 1], AxisOrder[i])
      BY <2>1 DEF Runs
    <2>5. DOMAIN f = 0..(n + 1) /\ f = [i \in DOMAIN f |-> f[i]]
      OBVIOUS
    <2> HIDE DEF f
    <2>6. ASSUME NEW i \in 0..(n + 1)
          PROVE  f[i] = IF i = 0 THEN s ELSE AxisStep(e, f[i - 1], AxisOrder[i])
      <3>1. CASE i = n + 1
        <4>1. i # 0 /\ i - 1 = n /\ f[n] = g[n]
          BY <2>2, <3>1
        <4> QED
          BY <2>3, <3>1, <4>1
      <3>2. CASE i \in 0..n
        <4>1. f[i] = g[i]
          BY <2>2, <3>2
        <4>2. i # 0 => f[i - 1] = g[i - 1]
          <5>1. i # 0 => i - 1 \in 0..n
            BY <3>2
          <5> QED
            BY <2>2, <5>1
        <4> QED
          BY <2>4, <3>2, <4>1, <4>2
      <3> QED
        BY <3>1, <3>2
    <2>7. Runs(e, s, f, n + 1)
      BY <2>5, <2>6 DEF Runs
    <2> QED
      BY <2>7
  <1> HIDE DEF S
  <1>3. m \in S
    BY <1>1, <1>2, Induction
  <1> QED
    BY <1>3 DEF S

\* A run through all axes loses nothing and leaves none out.
AllDone(e, s, u) == Fine(e, s, u) /\ \A x \in Axes : Done(e, s, u, x)

LEMMA RunDoes ==
  ASSUME NEW e, Sane(e), NEW s, Shaped(s), NEW f, Runs(e, s, f, Len(AxisOrder))
  PROVE  AllDone(e, s, f[Len(AxisOrder)])
  <1> DEFINE N == Len(AxisOrder)
             P(n) == /\ Fine(e, s, f[n])
                     /\ \A j \in 1..n : Done(e, s, f[n], AxisOrder[j])
             S == {n \in Nat : n <= N => P(n)}
  <1>1. N \in Nat /\ DOMAIN AxisOrder = 1..N
    BY AxesAssumption
  <1>2. 0 \in S
    <2>1. f[0] = s
      BY <1>1 DEF Runs
    <2>2. P(0)
      BY <2>1 DEF Fine
    <2> QED
      BY <2>2
  <1>3. ASSUME NEW n \in Nat, n \in S PROVE n + 1 \in S
    <2> SUFFICES ASSUME n + 1 <= N PROVE P(n + 1)
      OBVIOUS
    <2>1. P(n)
      BY <1>1, <1>3
    <2> DEFINE x == AxisOrder[n + 1]
    <2>2. x \in Axes
      BY <1>1 DEF Axes
    <2>3. f[n + 1] = AxisStep(e, f[n], x)
      <3>1. n + 1 \in 0..N /\ n + 1 # 0 /\ (n + 1) - 1 = n
        BY <1>1
      <3> QED
        BY <3>1 DEF Runs
    <2> HIDE DEF x
    <2>4. Shaped(f[n])
      BY <2>1 DEF Fine
    <2>5. Fine(e, f[n], f[n + 1]) /\ Done(e, f[n], f[n + 1], x)
      BY <2>2, <2>3, <2>4, AxisStepDoes
    <2>6. /\ Fine(e, s, f[n + 1])
          /\ \A y \in Axes : Done(e, s, f[n], y) \/ Done(e, f[n], f[n + 1], y)
                             => Done(e, s, f[n + 1], y)
      BY <2>1, <2>5, FineJoins
    <2>7. ASSUME NEW j \in 1..(n + 1) PROVE Done(e, s, f[n + 1], AxisOrder[j])
      <3>1. CASE j = n + 1
        BY <2>2, <2>5, <2>6, <3>1 DEF x
      <3>2. CASE j \in 1..n
        <4>1. AxisOrder[j] \in Axes
          BY <1>1, <3>2 DEF Axes
        <4> QED
          BY <2>1, <2>6, <3>2, <4>1
      <3> QED
        BY <3>1, <3>2
    <2> QED
      BY <2>6, <2>7
  <1> HIDE DEF S
  <1>4. N \in S
    BY <1>1, <1>2, <1>3, Induction
  <1>5. P(N)
    BY <1>1, <1>4 DEF S
  <1> HIDE DEF N
  <1> QED
    BY <1>1, <1>5 DEF AllDone, Axes

-----------------------------------------------------------------------------
(* InOrder, for each of the four.                                          *)

AfterDocument(s, out, t) ==
    LET Take(u, x) == Handled(u, x, out[x], t[x])
    IN  InOrder(s, Take)

AfterPoll(s, m) ==
    LET Judge(u, x) == Assessed(u, x, m)
    IN  InOrder(s, Judge)

LEMMA ToldInOrder ==
  ASSUME NEW s, NEW t, NEW out, Shaped(s),
         \A x \in Axes : HasFlag(out[x].r) /\ out[x].r.applied
  PROVE  AllDone([kind |-> "told", out |-> out, t |-> t], s, AfterDocument(s, out, t))
  <1> DEFINE e == [kind |-> "told", out |-> out, t |-> t]
             Take(u, x) == Handled(u, x, out[x], t[x])
             N == Len(AxisOrder)
             Sequel(f) ==
                 [i \in 0..N |->
                     IF i = 0 THEN s
                     ELSE CHOOSE u \in {Take(v, AxisOrder[i]) : v \in {f[i - 1]}} : TRUE]
             g == CHOOSE f : f = Sequel(f)
  <1>1. AfterDocument(s, out, t) = g[N]
    BY DEF InOrder, AfterDocument
  <1>2. ASSUME NEW f PROVE f = Sequel(f) <=> Runs(e, s, f, N)
    <2>1. \A u, x : AxisStep(e, u, x) = Take(u, x)
      BY DEF AxisStep
    <2>2. ASSUME NEW a
          PROVE  (CHOOSE u \in {Take(v, a[1]) : v \in {a[2]}} : TRUE) = Take(a[2], a[1])
      OBVIOUS
    <2> QED
      BY <2>1, <2>2 DEF Runs
  <1>3. N \in Nat
    BY AxesAssumption
  <1>4. Sane(e)
    BY DEF Sane
  <1> HIDE DEF e, Sequel, N
  <1>5. PICK f : Runs(e, s, f, N)
    BY <1>3, RunExists
  <1>6. g = Sequel(g)
    BY <1>2, <1>5
  <1> HIDE DEF g
  <1>7. Runs(e, s, g, N)
    BY <1>2, <1>6
  <1>8. AllDone(e, s, g[N])
    BY <1>4, <1>7, RunDoes DEF N
  <1> QED
    BY <1>1, <1>8 DEF e

LEMMA ReopenedInOrder ==
  ASSUME NEW s, Shaped(s)
  PROVE  AllDone([kind |-> "reopened", t |-> target], s, InOrder(s, Reasserted))
  <1> DEFINE e == [kind |-> "reopened", t |-> target]
             N == Len(AxisOrder)
             Sequel(f) ==
                 [i \in 0..N |->
                     IF i = 0 THEN s
                     ELSE CHOOSE u \in {Reasserted(v, AxisOrder[i]) : v \in {f[i - 1]}} : TRUE]
             g == CHOOSE f : f = Sequel(f)
  <1>1. InOrder(s, Reasserted) = g[N]
    BY DEF InOrder
  <1>2. ASSUME NEW f PROVE f = Sequel(f) <=> Runs(e, s, f, N)
    <2>1. \A u, x : AxisStep(e, u, x) = Reasserted(u, x)
      BY DEF AxisStep
    <2>2. ASSUME NEW a
          PROVE  (CHOOSE u \in {Reasserted(v, a[1]) : v \in {a[2]}} : TRUE) = Reasserted(a[2], a[1])
      OBVIOUS
    <2> QED
      BY <2>1, <2>2 DEF Runs
  <1>3. N \in Nat
    BY AxesAssumption
  <1>4. Sane(e)
    BY DEF Sane
  <1> HIDE DEF e, Sequel, N
  <1>5. PICK f : Runs(e, s, f, N)
    BY <1>3, RunExists
  <1>6. g = Sequel(g)
    BY <1>2, <1>5
  <1> HIDE DEF g
  <1>7. Runs(e, s, g, N)
    BY <1>2, <1>6
  <1>8. AllDone(e, s, g[N])
    BY <1>4, <1>7, RunDoes DEF N
  <1> QED
    BY <1>1, <1>8 DEF e

LEMMA PolledInOrder ==
  ASSUME NEW s, Shaped(s), NEW m
  PROVE  AllDone([kind |-> "polled", t |-> target, m |-> m], s, AfterPoll(s, m))
  <1> DEFINE e == [kind |-> "polled", t |-> target, m |-> m]
             Judge(u, x) == Assessed(u, x, m)
             N == Len(AxisOrder)
             Sequel(f) ==
                 [i \in 0..N |->
                     IF i = 0 THEN s
                     ELSE CHOOSE u \in {Judge(v, AxisOrder[i]) : v \in {f[i - 1]}} : TRUE]
             g == CHOOSE f : f = Sequel(f)
  <1>1. AfterPoll(s, m) = g[N]
    BY DEF InOrder, AfterPoll
  <1>2. ASSUME NEW f PROVE f = Sequel(f) <=> Runs(e, s, f, N)
    <2>1. \A u, x : AxisStep(e, u, x) = Judge(u, x)
      BY DEF AxisStep
    <2>2. ASSUME NEW a
          PROVE  (CHOOSE u \in {Judge(v, a[1]) : v \in {a[2]}} : TRUE) = Judge(a[2], a[1])
      OBVIOUS
    <2> QED
      BY <2>1, <2>2 DEF Runs
  <1>3. N \in Nat
    BY AxesAssumption
  <1>4. Sane(e)
    BY DEF Sane
  <1> HIDE DEF e, Sequel, N
  <1>5. PICK f : Runs(e, s, f, N)
    BY <1>3, RunExists
  <1>6. g = Sequel(g)
    BY <1>2, <1>5
  <1> HIDE DEF g
  <1>7. Runs(e, s, g, N)
    BY <1>2, <1>6
  <1>8. AllDone(e, s, g[N])
    BY <1>4, <1>7, RunDoes DEF N
  <1> QED
    BY <1>1, <1>8 DEF e

LEMMA TickedInOrder ==
  ASSUME NEW s, Shaped(s)
  PROVE  AllDone([kind |-> "ticked", t |-> target], s, InOrder(s, Ticked))
  <1> DEFINE e == [kind |-> "ticked", t |-> target]
             N == Len(AxisOrder)
             Sequel(f) ==
                 [i \in 0..N |->
                     IF i = 0 THEN s
                     ELSE CHOOSE u \in {Ticked(v, AxisOrder[i]) : v \in {f[i - 1]}} : TRUE]
             g == CHOOSE f : f = Sequel(f)
  <1>1. InOrder(s, Ticked) = g[N]
    BY DEF InOrder
  <1>2. ASSUME NEW f PROVE f = Sequel(f) <=> Runs(e, s, f, N)
    <2>1. \A u, x : AxisStep(e, u, x) = Ticked(u, x)
      BY DEF AxisStep
    <2>2. ASSUME NEW a
          PROVE  (CHOOSE u \in {Ticked(v, a[1]) : v \in {a[2]}} : TRUE) = Ticked(a[2], a[1])
      OBVIOUS
    <2> QED
      BY <2>1, <2>2 DEF Runs
  <1>3. N \in Nat
    BY AxesAssumption
  <1>4. Sane(e)
    BY DEF Sane
  <1> HIDE DEF e, Sequel, N
  <1>5. PICK f : Runs(e, s, f, N)
    BY <1>3, RunExists
  <1>6. g = Sequel(g)
    BY <1>2, <1>5
  <1> HIDE DEF g
  <1>7. Runs(e, s, g, N)
    BY <1>2, <1>6
  <1>8. AllDone(e, s, g[N])
    BY <1>4, <1>7, RunDoes DEF N
  <1> QED
    BY <1>1, <1>8 DEF e

-----------------------------------------------------------------------------
(* The documents.                                                          *)

\* The mode that wins is one of the candidates.
LEMMA ReactiveIsOne ==
  ASSUME NEW c, NEW entries
  PROVE  LET w == Reactive(Candidates(c, entries))
         IN  w.kind \in {"volt_var", "watt_var"} => w.value # 0
  <1> DEFINE payload == [volt_var  |-> Curve(entries, "volt_var"),
                         watt_var  |-> Curve(entries, "watt_var"),
                         fixed_var |-> c.fixedVar,
                         fixed_pf  |-> FixedPF(c)]
             On == {m \in DOMAIN payload : payload[m] # Nil}
             cands == {[kind |-> k, value |-> payload[k]] : k \in On}
             w == Reactive(cands)
  <1>1. Candidates(c, entries) = cands
    BY DEF Candidates
  <1>2. DOMAIN payload = {"volt_var", "watt_var", "fixed_var", "fixed_pf"}
    OBVIOUS
  <1>3. \A k \in {"volt_var", "watt_var"} : payload[k] # Nil => payload[k] # 0
    BY DEF Curve, Implausible
  <1> HIDE DEF payload
  <1>4. \A d \in cands : d.kind \in On /\ d.value = payload[d.kind]
    OBVIOUS
  <1>5. CASE cands = {}
    BY <1>1, <1>5 DEF Reactive, NoMode
  <1>6. CASE cands # {}
    <2> DEFINE Top(d) == \A b \in cands : ReactiveRank[d.kind] >= ReactiveRank[b.kind]
               Of(k) == [kind |-> k, value |-> payload[k]]
    <2>1. w = CHOOSE d \in cands : Top(d)
      BY <1>6 DEF Reactive
    <2>2. \A k \in On : Of(k) \in cands /\ Of(k).kind = k
      OBVIOUS
    <2>3. On \subseteq {"volt_var", "watt_var", "fixed_var", "fixed_pf"} /\ On # {}
      BY <1>2, <1>6
    <2> HIDE DEF On, cands, Of
    <2>4. /\ ReactiveRank["volt_var"] = 3 /\ ReactiveRank["watt_var"] = 2
          /\ ReactiveRank["fixed_var"] = 1 /\ ReactiveRank["fixed_pf"] = 0
      BY DEF ReactiveRank
    <2>5. \A b \in cands :
              /\ b.kind \in On
              /\ b.kind \in {"volt_var", "watt_var", "fixed_var", "fixed_pf"}
      BY <1>4, <2>3
    <2>6. \E d \in cands : Top(d)
      <3>1. CASE "volt_var" \in On
        <4>1. \A b \in cands : 3 >= ReactiveRank[b.kind]
          BY <2>5, <2>4, <3>1
        <4>2. Of("volt_var") \in cands /\ Of("volt_var").kind = "volt_var"
          BY <2>2, <3>1
        <4> QED
          BY <2>4, <4>1, <4>2
      <3>2. CASE "volt_var" \notin On /\ "watt_var" \in On
        <4>1. \A b \in cands : 2 >= ReactiveRank[b.kind]
          BY <2>5, <2>4, <3>2
        <4>2. Of("watt_var") \in cands /\ Of("watt_var").kind = "watt_var"
          BY <2>2, <3>2
        <4> QED
          BY <2>4, <4>1, <4>2
      <3>3. CASE "volt_var" \notin On /\ "watt_var" \notin On /\ "fixed_var" \in On
        <4>1. \A b \in cands : 1 >= ReactiveRank[b.kind]
          BY <2>5, <2>4, <3>3
        <4>2. Of("fixed_var") \in cands /\ Of("fixed_var").kind = "fixed_var"
          BY <2>2, <3>3
        <4> QED
          BY <2>4, <4>1, <4>2
      <3>4. CASE On = {"fixed_pf"}
        <4>1. \A b \in cands : 0 >= ReactiveRank[b.kind]
          BY <2>5, <2>4, <3>4
        <4>2. Of("fixed_pf") \in cands /\ Of("fixed_pf").kind = "fixed_pf"
          BY <2>2, <3>4
        <4> QED
          BY <2>4, <4>1, <4>2
      <3> QED
        BY <2>3, <3>1, <3>2, <3>3, <3>4
    <2> HIDE DEF Top
    <2>7. w \in cands
      BY <2>1, <2>6
    <2>8. w.kind \in On /\ w.value = payload[w.kind]
      BY <1>4, <2>7
    <2>9. \A k \in On : payload[k] # Nil
      BY DEF On
    <2> QED
      BY <1>1, <1>3, <2>8, <2>9
  <1> QED
    BY <1>5, <1>6

\* No curve that is asked for is the empty one, which a release asks for.
LEMMA CurveIsAsked ==
  ASSUME NEW body \in Bodies, NEW x \in Curves, Target(body, x).kind = "engaged"
  PROVE  Target(body, x).fields = Content(Value(Target(body, x))) /\ Value(Target(body, x)) # 0
  <1>1. PICK c \in Controls : body = BodyOf(c)
    BY DEF Bodies
  <1> DEFINE entries == IF c.control.set = "" THEN NoEntries ELSE c.curves.entries
             won == Reactive(Candidates(c.control, entries))
  <1>2. body = DeviceDoc(gen, SiteAxes(c.control, entries))
    BY <1>1 DEF BodyOf
  <1> HIDE DEF entries
  <1>3. won.kind \in {"volt_var", "watt_var"} => won.value # 0
    BY ReactiveIsOne
  <1>4. body.reactive \in {won, NoMode}
    <2> HIDE DEF won
    <2>1. CASE c.control.source = "none"
      BY <1>2, <2>1 DEF SiteAxes, DeviceDoc, AllNull
    <2>2. CASE c.control.source # "none"
      BY <1>2, <2>2 DEF SiteAxes, DeviceDoc, AllNull, won
    <2> QED
      BY <2>1, <2>2
  <1> HIDE DEF won
  <1>5. x \in {"volt_var", "watt_var"} => (body.reactive.kind = x => body.reactive.value # 0)
    BY <1>3, <1>4 DEF NoMode
  <1>6. CASE x = "trip_lv"
    BY <1>6 DEF Target, Engaged, NoOpinionOn, Value, Content, Releasable
  <1>7. CASE x \in {"volt_var", "watt_var"}
    <2>1. x \in Releasable
      BY <1>7 DEF Releasable, Curves
    <2>2. Target(body, x) = IF body.reactive.kind = x THEN Engaged(body.reactive.value) ELSE Release
      BY <1>7, <2>1 DEF Target
    <2>3. Target(body, x) = Engaged(body.reactive.value) /\ body.reactive.value # 0
      <3>1. Release.kind # "engaged"
        BY DEF Release
      <3> QED
        BY <1>5, <1>7, <2>2, <3>1
    <2> QED
      BY <2>3 DEF Engaged, Value, Content
  <1> QED
    BY <1>6, <1>7 DEF Curves

\* A slice says what it is.
LEMMA TargetIs ==
  ASSUME NEW body, NEW x \in Axes
  PROVE  LET t == Target(body, x)
         IN  /\ t.kind \in {"engaged", "release", "none"}
             /\ t.kind = "release" => t.fields = Content(0)
             /\ t.kind = "none" => t.fields = NoOpinion
  <1>1. x \in {"volt_var", "watt_var", "fixed_pf", "fixed_var", "trip_lv", "energize"}
    BY AxesAssumption DEF Axes
  <1>2. CASE x \in Releasable
    <2>1. x \notin {"trip_lv", "energize"}
      BY <1>2 DEF Releasable
    <2>2. Target(body, x) = IF body.reactive.kind = x THEN Engaged(body.reactive.value) ELSE Release
      BY <1>2, <2>1 DEF Target
    <2> QED
      BY <2>2 DEF Engaged, Release
  <1>3. CASE x \notin Releasable
    <2>1. x \in {"trip_lv", "energize"}
      BY <1>1, <1>3 DEF Releasable
    <2> QED
      BY <1>3, <2>1 DEF Target, Engaged, NoOpinionOn
  <1> QED
    BY <1>2, <1>3

-----------------------------------------------------------------------------
(* The steps of the shell.                                                 *)

\* What has become of the shell's own state.
ShellTrue == Shaped(Shell) /\ Slices /\ AdoptedIsLoaded

LEMMA ShellIs ==
  ASSUME Shaped(Shell)
  PROVE  /\ Shell.r = runners /\ Shell.adopt = adopt /\ Shell.dev = dev
         /\ Shell.on = on /\ Shell.caps = caps
         /\ \A x \in Axes : HasFlag(runners[x])
  BY DEF Shell, Shaped, HasFlag

\* Where the targets stay and nothing is lost, nothing comes to be untrue.
LEMMA FineStaysTrue ==
  ASSUME AdvInv, NEW u, Becomes(u), UNCHANGED <<target, link>>,
         Shaped(u),
         \A x \in Axes : /\ runners[x].applied => u.r[x].applied
                         /\ reconnecting' \/ Kept(u, x, target[x])
  PROVE  ShellTrue'
  <1>1. Shaped(Shell)'
    BY DEF Shaped, Shell, Becomes
  <1>2. Slices'
    BY DEF AdvInv, Slices, Becomes
  <1>3. AdoptedIsLoaded'
    BY DEF AdoptedIsLoaded, Kept, Becomes, Curves
  <1> QED
    BY <1>1, <1>2, <1>3 DEF ShellTrue

LEMMA PassStaysTrue ==
  ASSUME AdvInv, Pass
  PROVE  ShellTrue'
  <1> DEFINE u == InOrder(Shell, Ticked)
             e == [kind |-> "ticked", t |-> target]
  <1>1. Shaped(Shell)
    BY DEF AdvInv
  <1>2. Fine(e, Shell, u)
    BY <1>1, TickedInOrder DEF AllDone
  <1>3. Becomes(u) /\ UNCHANGED <<target, link, reconnecting>>
    BY DEF Pass
  <1> HIDE DEF u
  <1>4. Shaped(u)
    BY <1>2 DEF Fine
  <1>5. ASSUME NEW x \in Axes
        PROVE  /\ runners[x].applied => u.r[x].applied
               /\ reconnecting' \/ Kept(u, x, target[x])
    <2>1. /\ Shell.r[x].applied => u.r[x].applied
          /\ Kept(Shell, x, target[x]) => Kept(u, x, target[x])
      BY <1>2 DEF Fine
    <2>2. reconnecting \/ Kept(Shell, x, target[x])
      BY <1>1, ShellIs DEF AdvInv, AdoptedIsLoaded, Kept
    <2> QED
      BY <1>1, <1>3, <2>1, <2>2, ShellIs
  <1> QED
    BY <1>3, <1>4, <1>5, FineStaysTrue

\* A reopened session's reassert leaves everything as it is said to be.
LEMMA AfterReconnectFine ==
  ASSUME AdvInv
  PROVE  /\ Shaped(AfterReconnect)
         /\ \A x \in Axes : /\ runners[x].applied => AfterReconnect.r[x].applied
                            /\ Kept(AfterReconnect, x, target[x])
  <1> DEFINE s == [Shell EXCEPT !.caps = "unknown"]
             u == InOrder(s, Reasserted)
             e == [kind |-> "reopened", t |-> target]
  <1>1. Shaped(Shell)
    BY DEF AdvInv
  <1>2. CASE ~reconnecting
    <2>1. AfterReconnect = Shell
      BY <1>2 DEF AfterReconnect
    <2>2. \A x \in Axes : Kept(Shell, x, target[x])
      BY <1>1, <1>2, ShellIs DEF AdvInv, AdoptedIsLoaded, Kept
    <2> QED
      BY <1>1, <2>1, <2>2, ShellIs
  <1>3. CASE reconnecting
    <2>1. AfterReconnect = u
      BY <1>3 DEF AfterReconnect
    <2>2. Shaped(s) /\ s.r = runners
      BY <1>1 DEF Shaped, Shell
    <2>3. Fine(e, s, u) /\ \A x \in Axes : Done(e, s, u, x)
      BY <2>2, ReopenedInOrder DEF AllDone
    <2> HIDE DEF s, u
    <2>4. Shaped(u)
      BY <2>3 DEF Fine
    <2>5. ASSUME NEW x \in Axes
          PROVE  /\ runners[x].applied => u.r[x].applied
                 /\ Kept(u, x, target[x])
      <3>1. runners[x].applied => u.r[x].applied
        BY <2>2, <2>3 DEF Fine
      <3>2. runners[x].applied => Kept(u, x, target[x])
        BY <2>2, <2>3 DEF Done
      <3>3. target[x].kind # "engaged" => Kept(u, x, target[x])
        BY DEF Kept
      <3>4. target[x].kind = "engaged" => runners[x].applied
        BY DEF AdvInv, Slices
      <3> QED
        BY <3>1, <3>2, <3>3, <3>4
    <2> QED
      BY <2>1, <2>4, <2>5
  <1> QED
    BY <1>2, <1>3

LEMMA ObservedStaysTrue ==
  ASSUME AdvInv, NEW m, Observed(m), UNCHANGED <<target, link>>
  PROVE  ShellTrue'
  <1> DEFINE s == AfterReconnect
             u == AfterPoll(s, m)
             e == [kind |-> "polled", t |-> target, m |-> m]
  <1>1. /\ Shaped(s)
        /\ \A x \in Axes : (runners[x].applied => s.r[x].applied) /\ Kept(s, x, target[x])
    BY AfterReconnectFine
  <1>2. Becomes(u)
    BY DEF Observed, AfterPoll
  <1> HIDE DEF s
  <1>3. Fine(e, s, u)
    BY <1>1, PolledInOrder DEF AllDone
  <1> HIDE DEF u
  <1>4. Shaped(u)
    BY <1>3 DEF Fine
  <1>5. ASSUME NEW x \in Axes
        PROVE  /\ runners[x].applied => u.r[x].applied
               /\ reconnecting' \/ Kept(u, x, target[x])
    BY <1>1, <1>3 DEF Fine
  <1> QED
    BY <1>2, <1>4, <1>5, FineStaysTrue

\* A document that is taken: what was said of another slice is withdrawn.
LEMMA ReceivedStaysTrue ==
  ASSUME AdvInv, ReceiveAdv
  PROVE  ShellTrue' /\ standing' \in Bodies \cup {NoBody}
  <1> DEFINE doc == retainedAdv
             t == [x \in Axes |-> Target(doc.body, x)]
             d == [x \in Axes |->
                     [mrid |-> NoMRID, seq |-> doc.seq, issuedAt |-> doc.issuedAt,
                      fields |-> t[x].fields, finite |-> TRUE]]
             out == [x \in Axes |-> SetDesired(runners[x], d[x], minute)]
             s == [Shell EXCEPT !.adopt = [x \in Axes |-> Pending(x, t[x])]]
             u == AfterDocument(s, out, t)
             e == [kind |-> "told", out |-> out, t |-> t]
  <1>1. Shaped(Shell) /\ Slices /\ AdoptedIsLoaded /\ standing \in Bodies \cup {NoBody}
    BY DEF AdvInv, WrittenOfOne, OfOne
  <1>2. UNCHANGED <<link, reconnecting>>
    BY DEF ReceiveAdv
  <1>3. CASE ~\A x \in Axes : Accepts(runners[x], d[x], minute)
    <2>1. UNCHANGED <<runners, target, adopt, dev, on, caps, standing>>
      BY <1>3 DEF ReceiveAdv, SetDesiredAdv
    <2>2. Shaped(Shell)' /\ Slices' /\ AdoptedIsLoaded'
      BY <1>1, <1>2, <2>1 DEF Shaped, Shell, Slices, AdoptedIsLoaded
    <2> QED
      BY <1>1, <2>1, <2>2 DEF ShellTrue
  <1>4. CASE \A x \in Axes : Accepts(runners[x], d[x], minute)
    <2>1. Becomes(u) /\ target' = t /\ standing' = doc.body
      BY <1>4 DEF ReceiveAdv, SetDesiredAdv, AfterDocument
    <2>2. doc.body \in Bodies
      BY DEF ReceiveAdv, AdvInv, WrittenOfOne, OfOne
    <2>3. \A x \in Axes : HasFlag(out[x].r) /\ out[x].r.applied
      BY <1>1, <1>4, ShellIs, SetDesiredApplies
    <2>4. \A x \in Axes : /\ t[x].kind \in {"engaged", "release", "none"}
                          /\ t[x].kind = "release" => t[x].fields = Content(0)
                          /\ t[x].kind = "none" => t[x].fields = NoOpinion
      BY TargetIs
    <2>5. \A x \in Curves : t[x].kind = "engaged"
                              => t[x].fields = Content(Value(t[x])) /\ Value(t[x]) # 0
      BY <2>2, CurveIsAsked DEF Curves
    <2> HIDE DEF out, d, t
    <2>6. Shaped(s) /\ s.dev = dev /\ \A x \in Axes : s.adopt[x] = Pending(x, t[x])
      BY <1>1 DEF Shaped, Shell
    <2> HIDE DEF s
    <2>7. Fine(e, s, u) /\ \A x \in Axes : Done(e, s, u, x)
      BY <2>3, <2>6, ToldInOrder DEF AllDone
    <2> HIDE DEF u
    <2>8. Shaped(u) /\ \A x \in Axes : u.r[x].applied
      BY <2>7 DEF Fine, Done
    <2>9. ASSUME NEW x \in Curves, ~reconnecting PROVE Kept(s, x, t[x])
      <3> SUFFICES ASSUME s.adopt[x] = "adopted", t[x].kind = "engaged", link
                   PROVE  s.dev[x] = Value(t[x])
        BY DEF Kept
      <3>1. x \in Axes
        BY DEF Curves
      <3>2. t[x].fields = target[x].fields /\ adopt[x] = "adopted"
        BY <2>6, <3>1 DEF Pending
      <3>3. t[x].fields = Content(Value(t[x])) /\ Value(t[x]) # 0
        BY <2>5
      <3>4. target[x].kind = "engaged"
        <4>1. t[x].fields # Content(0)
          <5>1. Content(Value(t[x]))["content"] = Value(t[x]) /\ Content(0)["content"] = 0
            BY DEF Content
          <5> QED
            BY <3>3, <5>1
        <4>2. t[x].fields # NoOpinion
          <5>1. DOMAIN Content(Value(t[x])) # DOMAIN NoOpinion
            BY DEF Content, NoOpinion
          <5> QED
            BY <3>3, <5>1
        <4> QED
          BY <1>1, <3>1, <3>2, <4>1, <4>2 DEF Slices
      <3>5. dev[x] = Value(target[x])
        BY <1>1, <2>9, <3>2, <3>4 DEF AdoptedIsLoaded
      <3> QED
        BY <2>6, <3>2, <3>5 DEF Value
    <2>10. ASSUME NEW x \in Curves, ~reconnecting PROVE Kept(u, x, t[x])
      BY <2>7, <2>9, <2>10 DEF Fine, Curves
    <2>11. Shaped(Shell)'
      BY <2>1, <2>8 DEF Shaped, Shell, Becomes
    <2>12. Slices'
      <3>1. DOMAIN t = Axes
        BY DEF t
      <3> QED
        BY <2>1, <2>4, <2>8, <3>1 DEF Slices, Becomes
    <2>13. AdoptedIsLoaded'
      BY <1>2, <2>1, <2>10 DEF AdoptedIsLoaded, Kept, Becomes
    <2> QED
      BY <2>1, <2>2, <2>11, <2>12, <2>13 DEF ShellTrue
  <1> QED
    BY <1>3, <1>4

\* The plant's own steps, and the shell's restart.
LEMMA PlantStaysTrue ==
  ASSUME AdvInv,
         \/ Delayed \/ ShellRestarts \/ Reopens \/ Drops \/ Reboots \/ Sickens \/ Heals
         \/ Trips \/ Clears \/ Darkens \/ Unrates
  PROVE  ShellTrue' /\ standing' \in Bodies \cup {NoBody}
  <1>1. Shaped(Shell) /\ Slices /\ AdoptedIsLoaded /\ standing \in Bodies \cup {NoBody}
    BY DEF AdvInv, WrittenOfOne, OfOne
  <1>2. CASE UNCHANGED <<shellVars, dev, on, link>>
    BY <1>1, <1>2 DEF ShellTrue, shellVars, Shaped, Shell, Slices, AdoptedIsLoaded
  <1>3. CASE UNCHANGED shellVars /\ ~link' /\ <<dev, on>>' \in {<<dev, on>>, <<Factory, FactoryOn>>}
    <2>1. CASE UNCHANGED <<dev, on>>
      BY <1>1, <1>3, <2>1 DEF ShellTrue, shellVars, Shaped, Shell, Slices, AdoptedIsLoaded
    <2>2. CASE dev' = Factory /\ on' = FactoryOn
      <3>1. DOMAIN Factory = Axes /\ DOMAIN FactoryOn = Axes
        BY AxesAssumption
      <3>2. Shaped(Shell)'
        BY <1>1, <1>3, <2>2, <3>1 DEF shellVars, Shaped, Shell
      <3>3. Slices' /\ AdoptedIsLoaded'
        BY <1>1, <1>3 DEF shellVars, Slices, AdoptedIsLoaded
      <3> QED
        BY <1>1, <1>3, <3>2, <3>3 DEF ShellTrue, shellVars
    <2> QED
      BY <1>3, <2>1, <2>2
  <1>4. CASE Reopens
    <2>1. /\ UNCHANGED <<runners, target, adopt, caps, dev, on, standing>>
          /\ reconnecting'
      BY <1>4 DEF Reopens
    <2> QED
      BY <1>1, <2>1 DEF ShellTrue, Shaped, Shell, Slices, AdoptedIsLoaded
  <1>5. CASE ShellRestarts
    <2>1. /\ runners' = [x \in Axes |-> New] /\ target' = [x \in Axes |-> NoTarget]
          /\ adopt' = [x \in Axes |-> ""] /\ UNCHANGED <<dev, on>>
          /\ standing' = NoBody
      BY <1>5 DEF ShellRestarts, FreshShell, plantVars
    <2>2. "applied" \in DOMAIN New
      BY DEF New
    <2>3. Shaped(Shell)'
      BY <1>1, <2>1, <2>2 DEF Shaped, Shell
    <2>4. Slices'
      BY <2>1 DEF Slices, NoTarget
    <2>5. AdoptedIsLoaded'
      BY <2>1 DEF AdoptedIsLoaded, Curves
    <2> QED
      BY <2>1, <2>3, <2>4, <2>5 DEF ShellTrue
  <1>6. \/ UNCHANGED <<shellVars, dev, on, link>>
        \/ UNCHANGED shellVars /\ ~link' /\ <<dev, on>>' \in {<<dev, on>>, <<Factory, FactoryOn>>}
        \/ Reopens
        \/ ShellRestarts
    BY DEF Delayed, Drops, Reboots, Sickens, Heals, Trips, Clears, Darkens, Unrates, plantVars
  <1> QED
    BY <1>2, <1>3, <1>4, <1>5, <1>6

-----------------------------------------------------------------------------
(* The steps of the hub.                                                   *)

LEMMA WireIs ==
  ASSUME NEW S, NEW w \in Seq(S), \A d \in S : d.body \in Bodies
  PROVE  w \in Seq({w[i] : i \in 1..Len(w)}) /\ \A i \in 1..Len(w) : w[i].body \in Bodies
  <1>1. w \in [1..Len(w) -> S] /\ Len(w) \in Nat
    OBVIOUS
  <1> QED
    BY <1>1

\* A control and the curves it names make the document of that control.
LEMMA BodyIsOfOne ==
  ASSUME NEW s \in BusType, s.control # NoControl, InSync(s)
  PROVE  DeviceDoc(gen, SiteAxes(s.control, Entries(s))) \in Bodies
  <1>1. PICK c \in Controls : s.control = c.control
    BY DEF BusType
  <1> DEFINE entries == IF c.control.set = "" THEN NoEntries ELSE c.curves.entries
  <1>2. Entries(s) = entries
    <2>1. CASE c.control.set = ""
      BY <1>1, <2>1 DEF Entries
    <2>2. CASE c.control.set # ""
      <3>1. s.curves.set = c.control.set
        BY <1>1, <2>2 DEF InSync
      <3>2. s.curves # NoControl
        <4>1. c.control.set # "none"
          BY ControlsAssumption
        <4> QED
          BY <3>1, <4>1 DEF NoControl
      <3>3. PICK d \in Controls : s.curves = d.curves
        BY <3>2 DEF BusType
      <3>4. s.curves.entries = c.curves.entries
        BY <2>2, <3>1, <3>3, ControlsAssumption
      <3> QED
        BY <1>1, <2>2, <3>2, <3>4 DEF Entries
    <2> QED
      BY <2>1, <2>2
  <1>3. DeviceDoc(gen, SiteAxes(s.control, Entries(s))) = BodyOf(c)
    BY <1>1, <1>2 DEF BodyOf
  <1> QED
    BY <1>3 DEF Bodies

LEMMA EvaluatedWrites ==
  ASSUME OfOne(wire, retainedAdv), NEW s \in BusType, Evaluated(s, gen), UNCHANGED retainedAdv
  PROVE  OfOne(wire', retainedAdv')
  <1> DEFINE key == DeviceDoc(gen, SiteAxes(s.control, Entries(s)))
             S == {wire[i] : i \in 1..Len(wire)}
  <1>1. CASE UNCHANGED wire
    BY <1>1
  <1>2. CASE wire' # wire
    <2>1. PICK d : wire' = Append(wire, d) /\ d.body = key /\ s.control # NoControl /\ InSync(s)
      <3>1. /\ wire' = Append(wire, [body |-> key, seq |-> Harvested(author).doc.seq,
                                     issuedAt |-> minute])
            /\ s.control # NoControl /\ InSync(s)
        BY <1>2 DEF Evaluated
      <3> HIDE DEF key
      <3> QED
        BY <3>1
    <2>2. d.body \in Bodies
      BY <2>1, BodyIsOfOne
    <2>3. wire' \in Seq(S \cup {d})
      BY <2>1 DEF OfOne
    <2>4. \A b \in S \cup {d} : b.body \in Bodies
      BY <2>2 DEF OfOne
    <2> HIDE DEF S, key
    <2>5. /\ wire' \in Seq({wire'[i] : i \in 1..Len(wire')})
          /\ \A i \in 1..Len(wire') : wire'[i].body \in Bodies
      BY <2>3, <2>4, WireIs
    <2> QED
      BY <2>5 DEF OfOne
  <1> QED
    BY <1>1, <1>2

\* The hub's own steps, the walk's and the utility's.
LEMMA HubStaysOfOne ==
  ASSUME FromUtility, OfOne(wire, retainedAdv), UNCHANGED gen,
         Author \/ Walk \/ Commanded \/ Disturbed
  PROVE  FromUtility' /\ OfOne(wire', retainedAdv')
  <1> DEFINE S == {wire[i] : i \in 1..Len(wire)}
  <1>1. utility \in Controls /\ onBus \in BusType /\ seen \in BusType
    BY DEF FromUtility, BusType
  <1>2. wire \in Seq(S) /\ \A d \in S : d.body \in Bodies
    BY DEF OfOne
  <1>3. [control |-> NoControl, curves |-> NoControl] \in BusType
    BY DEF BusType
  <1>4. ASSUME utility' \in Controls, onBus' \in BusType, seen' \in BusType PROVE FromUtility'
    BY <1>4 DEF FromUtility, BusType
  <1>5. ASSUME UNCHANGED <<wire, retainedAdv>> PROVE OfOne(wire', retainedAdv')
    BY <1>5
  <1>6. <<>> \in Seq(S)
    OBVIOUS
  <1>7. ASSUME wire' \in Seq(S), retainedAdv' = NoDocument \/ retainedAdv'.body \in Bodies
        PROVE  OfOne(wire', retainedAdv')
    <2> HIDE DEF S
    <2> QED
      BY <1>2, <1>7, WireIs DEF OfOne
  <1> HIDE DEF S
  <1>8. CASE Author
    <2>1. CASE OnControl(gen)
      <3>1. /\ seen' = [seen EXCEPT !.control = onBus.control]
            /\ Evaluated(seen', gen) /\ UNCHANGED <<walkVars, retainedAdv>>
        BY <2>1 DEF OnControl
      <3>2. seen' \in BusType
        BY <1>1, <3>1 DEF BusType
      <3> QED
        BY <1>1, <1>4, <3>1, <3>2, EvaluatedWrites DEF walkVars
    <2>2. CASE OnCurves(gen)
      <3>1. /\ seen' = [seen EXCEPT !.curves = onBus.curves]
            /\ Evaluated(seen', gen) /\ UNCHANGED <<walkVars, retainedAdv>>
        BY <2>2 DEF OnCurves
      <3>2. seen' \in BusType
        BY <1>1, <3>1 DEF BusType
      <3> QED
        BY <1>1, <1>4, <3>1, <3>2, EvaluatedWrites DEF walkVars
    <2>3. CASE Evaluate(gen)
      <3>1. Evaluated(seen, gen) /\ UNCHANGED <<seen, walkVars, retainedAdv>>
        BY <2>3 DEF Evaluate
      <3> QED
        BY <1>1, <1>4, <3>1, EvaluatedWrites DEF walkVars
    <2>4. CASE Reaches
      <3>1. /\ wire # <<>> /\ retainedAdv' = Head(wire) /\ wire' = Tail(wire)
            /\ UNCHANGED <<seen, walkVars>>
        BY <2>4 DEF Reaches
      <3>2. wire' \in Seq(S) /\ retainedAdv' \in S
        BY <1>2, <3>1
      <3> QED
        BY <1>1, <1>2, <1>4, <1>7, <3>1, <3>2 DEF walkVars
    <2> QED
      BY <1>8, <2>1, <2>2, <2>3, <2>4 DEF Author
  <1>9. CASE Walk
    <2>1. PICK sent \in BOOLEAN, out \in {"sent", "lost", "late"} : WalkPublishes(sent, out)
      BY <1>9 DEF Walk
    <2>2. /\ onBus' = [control |-> IF sent THEN utility.control ELSE onBus.control,
                       curves |-> IF lastHash = utility.curves.set \/ out = "lost"
                                  THEN onBus.curves ELSE utility.curves]
          /\ UNCHANGED <<utility, seen, wire, retainedAdv>>
      BY <2>1 DEF WalkPublishes, authorVars
    <2>3. onBus' \in BusType
      BY <1>1, <2>2 DEF BusType
    <2> QED
      BY <1>1, <1>4, <1>5, <2>2, <2>3
  <1>10. CASE Commanded
    <2>1. utility' \in Controls /\ UNCHANGED <<onBus, seen, wire, retainedAdv>>
      BY <1>10 DEF Commanded, Commands, authorVars
    <2> QED
      BY <1>1, <1>4, <1>5, <2>1
  <1>11. CASE Disturbed
    <2>1. retainedAdv = NoDocument \/ retainedAdv.body \in Bodies
      BY DEF OfOne
    <2>2. CASE Refused \/ HubRestarts
      <3>1. wire' = <<>> /\ UNCHANGED <<utility, onBus, retainedAdv>> /\ seen' \in BusType
        BY <1>1, <1>3, <2>2 DEF Refused, HubRestarts, walkVars
      <3> QED
        BY <1>1, <1>4, <1>6, <1>7, <2>1, <3>1
    <2>3. CASE GivenUp
      <3>1. UNCHANGED <<utility, onBus, seen, wire, retainedAdv>>
        BY <2>3 DEF GivenUp, walkVars
      <3> QED
        BY <1>1, <1>4, <1>5, <3>1
    <2> QED
      BY <1>11, <2>2, <2>3 DEF Disturbed
  <1> QED
    BY <1>8, <1>9, <1>10, <1>11

-----------------------------------------------------------------------------
(* Together.                                                               *)

LEMMA AdvStarts == InitAdv => AdvInv
  <1> SUFFICES ASSUME InitAdv PROVE AdvInv
    OBVIOUS
  <1>1. FromUtility
    <2>1. /\ utility \in Controls
          /\ onBus = [control |-> NoControl, curves |-> NoControl]
          /\ seen = [control |-> NoControl, curves |-> NoControl]
      BY DEF InitAdv, InitAuthor
    <2> QED
      BY <2>1 DEF FromUtility, BusType
  <1>2. WrittenOfOne
    <2>1. wire = <<>> /\ retainedAdv = NoDocument /\ standing = NoBody
      BY DEF InitAdv, InitAuthor
    <2>2. Len(wire) = 0 /\ \A S : wire \in Seq(S)
      BY <2>1
    <2> QED
      BY <2>1, <2>2 DEF WrittenOfOne, OfOne
  <1>3. Shaped(Shell)
    <2>1. DOMAIN Factory = Axes /\ DOMAIN FactoryOn = Axes /\ "applied" \in DOMAIN New
      BY AxesAssumption DEF New
    <2> QED
      BY <2>1 DEF InitAdv, Shaped, Shell
  <1>4. Slices
    BY DEF InitAdv, Slices, NoTarget
  <1>5. AdoptedIsLoaded
    BY DEF InitAdv, AdoptedIsLoaded, Curves
  <1> QED
    BY <1>1, <1>2, <1>3, <1>4, <1>5 DEF AdvInv

LEMMA AdvKeeps == AdvInv /\ [NextAdv]_advVars => AdvInv'
  <1> SUFFICES ASSUME AdvInv, [NextAdv]_advVars PROVE AdvInv'
    OBVIOUS
  <1>1. /\ FromUtility /\ OfOne(wire, retainedAdv) /\ standing \in Bodies \cup {NoBody}
        /\ Shaped(Shell) /\ Slices /\ AdoptedIsLoaded
    BY DEF AdvInv, WrittenOfOne, OfOne
  <1>2. UNCHANGED gen
    BY DEF NextAdv, advVars, Author, Walk, Commanded, Disturbed, Others, ReceiveAdv, ObserveAdv,
           ObserveLate, Delayed, ShellRestarts, Reopens, Drops, Reboots, Sickens, Heals, Trips,
           Clears, Darkens, Unrates, Pass
  <1>3. Bodies' = Bodies
    BY <1>2 DEF Bodies, BodyOf
  <1>4. ASSUME FromUtility', OfOne(wire', retainedAdv'),
               standing' \in Bodies \cup {NoBody}, ShellTrue'
        PROVE  AdvInv'
    <2>1. WrittenOfOne'
      BY <1>3, <1>4 DEF WrittenOfOne, OfOne
    <2> QED
      BY <1>4, <2>1 DEF AdvInv, ShellTrue
  <1>5. ASSUME UNCHANGED hubVars PROVE FromUtility' /\ OfOne(wire', retainedAdv')
    BY <1>1, <1>5 DEF hubVars, walkVars, authorVars, FromUtility
  <1>6. ASSUME UNCHANGED <<shellVars, dev, on, link>>
        PROVE  ShellTrue' /\ standing' \in Bodies \cup {NoBody}
    BY <1>1, <1>6 DEF ShellTrue, shellVars, Shaped, Shell, Slices, AdoptedIsLoaded
  <1>7. CASE Author \/ Walk \/ Commanded \/ Disturbed
    <2>1. FromUtility' /\ OfOne(wire', retainedAdv')
      BY <1>1, <1>2, <1>7, HubStaysOfOne
    <2>2. UNCHANGED <<shellVars, dev, on, link>>
      BY <1>7 DEF Author, Walk, Commanded, Disturbed, Others, plantVars
    <2> QED
      BY <1>4, <1>6, <2>1, <2>2
  <1>8. CASE ReceiveAdv
    <2>1. UNCHANGED hubVars
      BY <1>8 DEF ReceiveAdv
    <2> QED
      BY <1>4, <1>5, <1>8, <2>1, ReceivedStaysTrue
  <1>9. CASE ObserveAdv \/ ObserveLate
    <2>1. UNCHANGED <<hubVars, target, link, standing>>
      BY <1>9 DEF ObserveAdv, ObserveLate
    <2>2. PICK m : Observed(m)
      BY <1>9 DEF ObserveAdv, ObserveLate
    <2>3. ShellTrue'
      BY <2>1, <2>2, ObservedStaysTrue
    <2> QED
      BY <1>1, <1>4, <1>5, <2>1, <2>3
  <1>10. CASE Pass
    <2>1. UNCHANGED <<hubVars, standing>>
      BY <1>10 DEF Pass
    <2> QED
      BY <1>1, <1>4, <1>5, <1>10, <2>1, PassStaysTrue
  <1>11. CASE \/ Delayed \/ ShellRestarts \/ Reopens \/ Drops \/ Reboots \/ Sickens \/ Heals
              \/ Trips \/ Clears \/ Darkens \/ Unrates
    <2>1. UNCHANGED hubVars
      BY <1>11 DEF Delayed, ShellRestarts, Reopens, Drops, Reboots, Sickens, Heals, Trips, Clears,
                   Darkens, Unrates
    <2> QED
      BY <1>4, <1>5, <1>11, <2>1, PlantStaysTrue
  <1>12. CASE UNCHANGED advVars
    BY <1>4, <1>5, <1>6, <1>12 DEF advVars, plantVars
  <1> QED
    BY <1>7, <1>8, <1>9, <1>10, <1>11, <1>12 DEF NextAdv

\* A device is never commanded a blend of two controls, and a curve its shell
\* says it has adopted is the one in its registers, for every table of controls,
\* order of axes and bound on the faults: AdvancedStands.
THEOREM AdvancedStaysTrue == SpecAdv => []AdvancedStands
  <1>1. AdvInv => AdvancedStands
    <2> SUFFICES ASSUME AdvInv PROVE AdvancedStands
      OBVIOUS
    <2>1. OneControlStands
      BY DEF AdvInv, WrittenOfOne, OneControlStands, Bodies
    <2> QED
      BY <2>1 DEF AdvInv, AdvancedStands
  <1> QED
    BY AdvStarts, AdvKeeps, <1>1, PTL DEF SpecAdv
=============================================================================
