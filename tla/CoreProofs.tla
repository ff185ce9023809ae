----------------------------- MODULE CoreProofs -----------------------------
(***************************************************************************)
(* Lemmas about the reconciler's operations, for every field set,          *)
(* tolerance, timeout and non-decreasing backoff schedule: from a sound    *)
(* state each returns a sound state, reports that carry the consumer from  *)
(* the old episode to the new one, and writes that keep to the backoff.    *)
(* The proofs about Reconciler and about the shells around it rest on them.*)
(***************************************************************************)
EXTENDS ReconcilerCore, TLAPS

\* The timers of s do not run ahead of t.
Timely(s, t) ==
    /\ s.divergentSince <= t
    /\ s.lastWriteAt <= t
    /\ s.lastDocAt <= t
    /\ s.lastReassertAt <= t

\* What the assessment fields mean together.  A divergence window is open
\* only under a standing document whose last assessment diverged; an episode
\* only inside a window of ConvergeTimeout; a staleness verdict only on a
\* document that old.
Coherent(s, t) ==
    /\ s.divergentSince # Never => s.applied /\ ~s.converged
    /\ s.inEpisode => /\ s.divergentSince # Never
                      /\ t - s.divergentSince >= ConvergeTimeout
    /\ s.staleReported => /\ s.lastDocAt # Never
                          /\ t - s.lastDocAt >= StaleAfter

Sound(s, t) == s \in States /\ Timely(s, t) /\ Coherent(s, t)

\* The episode a consumer of the reports should believe open.
Open(s) == IF s.inEpisode THEN s.episode ELSE 0

\* What every operation from s returns: a sound state, reports that carry
\* the consumer from the old episode to the new one, and a write whenever
\* the fields change.
Good(s, res, t) ==
    /\ Sound(res.r, t)
    /\ AnnouncedAll(Open(s), res.reports) = Open(res.r)
    /\ res.write = NoWrite => res.r.fields = s.fields
-----------------------------------------------------------------------------
(* Types and small facts.                                                  *)

\* The empty opinion set expresses no field at all.
LEMMA NoOpinionType == NoOpinion \in Opinions
  <1>1. NoOpinion \in [{} -> Level]
    BY DEF NoOpinion
  <1>2. {} \in SUBSET Field
    OBVIOUS
  <1> QED
    BY <1>1, <1>2 DEF Opinions

\* Instants of the clock are times, and so is the zero time.
LEMMA TimesType == Nat \subseteq Times /\ Never \in Times /\ Times \subseteq Int
  BY DEF Times, Never

\* New: the reconciler starts sound.
LEMMA NewSound == ASSUME NEW t \in Nat PROVE Sound(New, t)
  <1>1. New \in States
    BY NoOpinionType, TimesType, ConfigAssumption DEF New, States
  <1>2. Timely(New, t) /\ Coherent(New, t)
    BY DEF Timely, Coherent, New, Never
  <1> QED
    BY <1>1, <1>2 DEF Sound

\* writeAction touches only the write bookkeeping.
LEMMA WriteActionSound ==
  ASSUME NEW s, NEW t \in Nat, Sound(s, t)
  PROVE  /\ Sound(WriteAction(s, t), t)
         /\ Open(WriteAction(s, t)) = Open(s)
         /\ WriteAction(s, t).fields = s.fields
  <1>1. s \in States
    BY DEF Sound
  <1>2. s.writeAttempts + 1 \in Nat
    BY <1>1 DEF States
  <1>3. WriteAction(s, t) \in States
    BY <1>1, <1>2, TimesType DEF WriteAction, States
  <1>4. Timely(WriteAction(s, t), t) /\ Coherent(WriteAction(s, t), t)
    BY <1>1 DEF Sound, Timely, Coherent, WriteAction, States
  <1>5. /\ Open(WriteAction(s, t)) = Open(s)
        /\ WriteAction(s, t).fields = s.fields
    BY <1>1 DEF Open, WriteAction, States
  <1> QED
    BY <1>3, <1>4, <1>5 DEF Sound

\* checkEpisodeBegin announces exactly the episode it opens.
LEMMA EpisodeBegunSound ==
  ASSUME NEW s, NEW t \in Nat, Sound(s, t)
  PROVE  /\ Sound(EpisodeBegun(s, t), t)
         /\ EpisodeBegun(s, t).fields = s.fields
         /\ EpisodeBegun(s, t).writeAttempts = s.writeAttempts
         /\ EpisodeBegun(s, t).lastWriteAt = s.lastWriteAt
         /\ EpisodeBegun(s, t).divergentSince = s.divergentSince
         /\ EpisodeBegun(s, t).applied = s.applied
  <1>1. s \in States
    BY DEF Sound
  <1>2. CASE EpisodeDue(s, t)
    <2>1. s.episode + 1 \in Nat
      BY <1>1 DEF States
    <2>2. EpisodeBegun(s, t) \in States
      BY <1>1, <1>2, <2>1 DEF EpisodeBegun, States
    <2>3. Timely(EpisodeBegun(s, t), t) /\ Coherent(EpisodeBegun(s, t), t)
      BY <1>1, <1>2 DEF Sound, Timely, Coherent, EpisodeBegun, EpisodeDue,
                        States
    <2> QED
      BY <1>1, <1>2, <2>2, <2>3 DEF Sound, EpisodeBegun, States
  <1>3. CASE ~EpisodeDue(s, t)
    BY <1>3 DEF EpisodeBegun
  <1> QED
    BY <1>2, <1>3
-----------------------------------------------------------------------------
(* What the report stream tells its consumer.                              *)

Quiet(report) == report.kind \notin {"NonConvergedBegin", "NonConvergedEnd"}

\* An empty stream and a single report.
LEMMA AnnounceShort ==
  ASSUME NEW o, NEW x
  PROVE  /\ AnnouncedAll(o, <<>>) = o
         /\ AnnouncedAll(o, <<x>>) = Announced(o, x)
         /\ Quiet(x) => Announced(o, x) = o
  BY DEF AnnouncedAll, Announced, Quiet

\* A quiet report in front of another changes nothing.
LEMMA QuietThen ==
  ASSUME NEW o, NEW x, NEW y, Quiet(x)
  PROVE  AnnouncedAll(o, <<x>> \o <<y>>) = Announced(o, y)
  <1> DEFINE both == <<x>> \o <<y>>
  <1>1. Len(both) = 2 /\ both[1] = x /\ both[2] = y
    OBVIOUS
  <1> HIDE DEF both
  <1>2. AnnouncedAll(o, both) = Announced(Announced(o, x), y)
    BY <1>1 DEF AnnouncedAll
  <1> QED
    BY <1>2, AnnounceShort DEF both

\* checkEpisodeBegin announces exactly the episode it opens.
LEMMA EpisodeBeginAnnounced ==
  ASSUME NEW s \in States, NEW t \in Nat
  PROVE  /\ AnnouncedAll(Open(s), EpisodeBeginReports(s, t))
              = Open(EpisodeBegun(s, t))
         /\ \/ EpisodeBeginReports(s, t) = <<>>
            \/ \E y : EpisodeBeginReports(s, t) = <<y>>
  <1>1. CASE EpisodeDue(s, t)
    <2> DEFINE y == Report(EpisodeBegun(s, t), "NonConvergedBegin")
    <2>1. EpisodeBeginReports(s, t) = <<y>>
      BY <1>1 DEF EpisodeBeginReports
    <2>2. Announced(Open(s), y) = EpisodeBegun(s, t).episode
      BY DEF Announced, Report
    <2>3. EpisodeBegun(s, t).inEpisode
      BY <1>1 DEF EpisodeBegun, States
    <2> HIDE DEF y
    <2> QED
      BY <2>1, <2>2, <2>3, AnnounceShort DEF Open
  <1>2. CASE ~EpisodeDue(s, t)
    BY <1>2, AnnounceShort DEF EpisodeBeginReports, EpisodeBegun
  <1> QED
    BY <1>1, <1>2
-----------------------------------------------------------------------------
(* The four operations.                                                    *)

\* A corrective write inside an open window waited for its backoff and
\* counts once; nothing else in the window takes an attempt back.
Steady(s, res, t) ==
    /\ res.write \in Corrective => /\ res.r.divergentSince # Never
                                   /\ res.r.lastWriteAt = t
                                   /\ res.r.writeAttempts >= 1
    /\ s.divergentSince # Never /\ res.r.divergentSince # Never =>
           /\ res.r.lastWriteAt >= s.lastWriteAt
           /\ res.r.writeAttempts >= s.writeAttempts
           /\ res.write \in Corrective =>
                  /\ BackoffReady(s, t)
                  /\ res.r.writeAttempts = s.writeAttempts + 1

\* The write bookkeeping is a time and a count.
LEMMA Bookkeeping ==
  ASSUME NEW s \in States
  PROVE  s.lastWriteAt \in Int /\ s.writeAttempts \in Nat
  BY TimesType DEF States

\* A call that leaves the write bookkeeping alone and writes nothing.
LEMMA UnwrittenSteady ==
  ASSUME NEW s \in States, NEW u \in States, NEW t \in Nat, NEW reports,
         u.lastWriteAt = s.lastWriteAt, u.writeAttempts = s.writeAttempts
  PROVE  Steady(s, Result(u, NoWrite, reports), t)
  <1>1. NoWrite \notin Corrective
    BY DEF NoWrite, Corrective
  <1>2. /\ Result(u, NoWrite, reports).r = u
        /\ Result(u, NoWrite, reports).write = NoWrite
    BY DEF Result
  <1> QED
    BY <1>1, <1>2, Bookkeeping DEF Steady

\* A call that changes nothing and reports nothing.
LEMMA IdleGood ==
  ASSUME NEW s, NEW t \in Nat, Sound(s, t)
  PROVE  Good(s, Idle(s), t) /\ Steady(s, Idle(s), t)
  <1>1. s \in States
    BY DEF Sound
  <1>2. Good(s, Idle(s), t)
    BY AnnounceShort DEF Good, Idle, Result
  <1>3. Steady(s, Idle(s), t)
    BY <1>1, UnwrittenSteady DEF Idle
  <1> QED
    BY <1>2, <1>3

\* A call that changes nothing and files one quiet report.
LEMMA QuietGood ==
  ASSUME NEW s, NEW t \in Nat, Sound(s, t), NEW x, Quiet(x)
  PROVE  /\ Good(s, Result(s, NoWrite, <<x>>), t)
         /\ Steady(s, Result(s, NoWrite, <<x>>), t)
  <1>1. s \in States
    BY DEF Sound
  <1>2. AnnouncedAll(Open(s), <<x>>) = Open(s)
    BY AnnounceShort
  <1>3. Good(s, Result(s, NoWrite, <<x>>), t)
    BY <1>2 DEF Good, Result
  <1>4. Steady(s, Result(s, NoWrite, <<x>>), t)
    BY <1>1, UnwrittenSteady
  <1> QED
    BY <1>3, <1>4

\* SetDesired, whatever the gate decides.
LEMMA SetDesiredGood ==
  ASSUME NEW s, NEW t \in Nat, Sound(s, t), NEW doc \in Documents
  PROVE  /\ Good(s, SetDesired(s, doc, t), t)
         /\ Steady(s, SetDesired(s, doc, t), t)
  <1> DEFINE a == Adopt(s, doc, t)
             q == SeqResetReports(s, a, doc)
  <1>1. s \in States
    BY DEF Sound
  <1>2. a \in States
    BY <1>1, TimesType DEF Adopt, States, Documents
  <1>3. /\ a.divergentSince = s.divergentSince
        /\ a.lastWriteAt = s.lastWriteAt
        /\ a.writeAttempts = s.writeAttempts
        /\ a.fields = doc.fields
        /\ Open(a) = Open(s)
    BY <1>1 DEF Adopt, States, Open
  <1>4. Timely(a, t) /\ Coherent(a, t)
    BY <1>1, TimesType DEF Sound, Timely, Coherent, Adopt, States
  <1>5. Sound(a, t)
    BY <1>2, <1>4 DEF Sound
  <1>6. q = <<>> \/ \E x : Quiet(x) /\ q = <<x>>
    <2>1. Quiet(Report(a, "SeqReset"))
      BY DEF Quiet, Report
    <2> QED
      BY <2>1 DEF SeqResetReports
  <1>7. CASE ~Accepts(s, doc, t)
    <2> DEFINE x == RejectReport(s, doc, GateVerdict(s, doc, t))
    <2>1. SetDesired(s, doc, t) = Result(s, NoWrite, <<x>>)
      BY <1>7 DEF SetDesired
    <2>2. Quiet(x)
      BY DEF Quiet, RejectReport
    <2> HIDE DEF x
    <2> QED
      BY <2>1, <2>2, QuietGood
  <1>8. CASE Accepts(s, doc, t) /\ s.fields = doc.fields
    <2>1. SetDesired(s, doc, t) = Result(a, NoWrite, q)
      BY <1>8 DEF SetDesired
    <2>2. AnnouncedAll(Open(s), q) = Open(s)
      BY <1>6, AnnounceShort
    <2> HIDE DEF a, q
    <2>3. Good(s, Result(a, NoWrite, q), t)
      BY <1>3, <1>5, <1>8, <2>2 DEF Good, Result
    <2>4. Steady(s, Result(a, NoWrite, q), t)
      BY <1>1, <1>2, <1>3, UnwrittenSteady
    <2> QED
      BY <2>1, <2>3, <2>4
  <1>9. CASE Accepts(s, doc, t) /\ s.fields # doc.fields
    <2> DEFINE e == EpisodeEndReports(a)
               n == Retarget(a)
    <2>1. SetDesired(s, doc, t)
            = Result(WriteAction(n, t), "new-desired", q \o e)
      BY <1>9 DEF SetDesired
    <2>2. n \in States
      BY <1>2, TimesType DEF Retarget, States
    <2>3. Timely(n, t) /\ Coherent(n, t)
      BY <1>2, <1>5 DEF Sound, Timely, Coherent, Retarget, States, Never
    <2>4. Sound(n, t)
      BY <2>2, <2>3 DEF Sound
    <2>5. Open(n) = 0 /\ n.divergentSince = Never
      BY <1>2 DEF Open, Retarget, States
    <2>6. WriteAction(n, t).divergentSince = Never
      BY <2>2, <2>5 DEF WriteAction, States
    <2>7. AnnouncedAll(Open(s), q \o e) = 0
      <3>1. CASE a.inEpisode
        <4> DEFINE y == Report(a, "NonConvergedEnd")
        <4>1. e = <<y>>
          BY <3>1 DEF EpisodeEndReports
        <4>2. Announced(Open(s), y) = 0
          BY DEF Announced, Report
        <4> HIDE DEF y
        <4>3. CASE q = <<>>
          BY <4>1, <4>2, <4>3 DEF AnnouncedAll
        <4>4. CASE q # <<>>
          <5>1. PICK x : Quiet(x) /\ q = <<x>>
            BY <1>6, <4>4
          <5>2. AnnouncedAll(Open(s), <<x>> \o <<y>>) = Announced(Open(s), y)
            BY <5>1, QuietThen
          <5> HIDE DEF a, q, e
          <5> QED
            BY <4>1, <4>2, <5>1, <5>2
        <4> QED
          BY <4>3, <4>4
      <3>2. CASE ~a.inEpisode
        <4>1. e = <<>> /\ Open(s) = 0
          BY <1>3, <3>2 DEF EpisodeEndReports, Open
        <4>2. AnnouncedAll(Open(s), q) = 0
          BY <1>6, <4>1, AnnounceShort
        <4>3. q \o <<>> = q
          BY <1>6
        <4> QED
          BY <4>1, <4>2, <4>3
      <3> QED
        BY <3>1, <3>2
    <2> HIDE DEF a, q, e, n
    <2> QED
      BY <2>1, <2>4, <2>5, <2>6, <2>7, WriteActionSound
         DEF Good, Steady, Result, Corrective, NoWrite
  <1> QED
    BY <1>7, <1>8, <1>9

\* A call that writes, after reassessing s as u.
LEMMA WrittenSteady ==
  ASSUME NEW s \in States, NEW u \in States, NEW t \in Nat, Timely(s, t),
         NEW w, NEW reports,
         w \in Corrective => u.divergentSince # Never,
         s.divergentSince # Never =>
             /\ u.writeAttempts = s.writeAttempts
             /\ w \in Corrective => BackoffReady(s, t)
  PROVE  Steady(s, Result(WriteAction(u, t), w, reports), t)
  <1> DEFINE res == Result(WriteAction(u, t), w, reports)
  <1>1. /\ res.write = w
        /\ res.r.lastWriteAt = t
        /\ res.r.divergentSince = u.divergentSince
        /\ res.r.writeAttempts = u.writeAttempts + 1
    BY DEF Result, WriteAction, States
  <1>2. t >= s.lastWriteAt
    BY Bookkeeping DEF Timely
  <1> HIDE DEF res
  <1>3. Steady(s, res, t)
    BY <1>1, <1>2, Bookkeeping DEF Steady
  <1> QED
    BY <1>3 DEF res

\* The backoff looks only at the write bookkeeping.
LEMMA BackoffReadySame ==
  ASSUME NEW s, NEW u, NEW t, BackoffReady(u, t),
         u.writeAttempts = s.writeAttempts, u.lastWriteAt = s.lastWriteAt
  PROVE  BackoffReady(s, t)
  BY DEF BackoffReady

\* The diverged branch of Observe opens at most a window.
LEMMA DivergeSound ==
  ASSUME NEW s, NEW t \in Nat, Sound(s, t), s.applied
  PROVE  LET d == Diverge(s, t)
         IN  /\ Sound(d, t)
             /\ Open(d) = Open(s)
             /\ d.fields = s.fields
             /\ d.divergentSince # Never
             /\ s.divergentSince # Never =>
                    /\ d.writeAttempts = s.writeAttempts
                    /\ d.lastWriteAt = s.lastWriteAt
  <1> DEFINE d == Diverge(s, t)
  <1>1. s \in States
    BY DEF Sound
  <1>2. CASE s.divergentSince = Never
    <2>1. d = [s EXCEPT !.converged = FALSE, !.divergentSince = t,
                        !.writeAttempts = 0]
      BY <1>2 DEF Diverge
    <2>2. d \in States
      <3>1. t \in Times /\ 0 \in Nat
        BY TimesType
      <3> QED
        BY <1>1, <2>1, <3>1 DEF States
    <2>3. Timely(d, t) /\ Coherent(d, t)
      BY <1>1, <1>2, <2>1 DEF Sound, Timely, Coherent, States, Never
    <2> QED
      BY <1>1, <1>2, <2>1, <2>2, <2>3 DEF Sound, Open, States, Never
  <1>3. CASE s.divergentSince # Never
    <2>1. d = [s EXCEPT !.converged = FALSE]
      BY <1>3 DEF Diverge
    <2>2. d \in States
      BY <1>1, <2>1 DEF States
    <2>3. Timely(d, t) /\ Coherent(d, t)
      BY <1>1, <1>3, <2>1 DEF Sound, Timely, Coherent, States
    <2> QED
      BY <1>1, <1>3, <2>1, <2>2, <2>3 DEF Sound, Open, States
  <1> QED
    BY <1>2, <1>3

\* The converged branch of Observe closes what it must announce.
LEMMA ConvergeGood ==
  ASSUME NEW s, NEW t \in Nat, Sound(s, t)
  PROVE  /\ Good(s, Result(Converge(s), NoWrite, ConvergeReports(s)), t)
         /\ Steady(s, Result(Converge(s), NoWrite, ConvergeReports(s)), t)
  <1> DEFINE c == Converge(s)
  <1>1. s \in States
    BY DEF Sound
  <1>2. c \in States /\ c.divergentSince = Never /\ c.fields = s.fields
    BY <1>1, TimesType DEF Converge, States
  <1>3. Timely(c, t) /\ Coherent(c, t)
    BY <1>1 DEF Sound, Timely, Coherent, Converge, States, Never
  <1>4. Open(c) = 0
    BY <1>1 DEF Sound, Coherent, Converge, Open, States
  <1>5. AnnouncedAll(Open(s), ConvergeReports(s)) = 0
    <2> DEFINE y == Report([s EXCEPT !.inEpisode = FALSE], "NonConvergedEnd")
    <2>1. CASE s.inEpisode
      <3>1. ConvergeReports(s) = <<y>>
        BY <2>1 DEF ConvergeReports, Sound, Coherent
      <3>2. Announced(Open(s), y) = 0
        BY DEF Announced, Report
      <3> HIDE DEF y
      <3> QED
        BY <3>1, <3>2, AnnounceShort
    <2>2. CASE ~s.inEpisode
      BY <2>2, AnnounceShort DEF ConvergeReports, Open
    <2> QED
      BY <2>1, <2>2
  <1> HIDE DEF c
  <1>6. Good(s, Result(c, NoWrite, ConvergeReports(s)), t)
    BY <1>2, <1>3, <1>4, <1>5 DEF Good, Result, Sound
  <1>7. Steady(s, Result(c, NoWrite, ConvergeReports(s)), t)
    BY <1>2 DEF Steady, Result, NoWrite, Corrective
  <1> QED
    BY <1>6, <1>7 DEF c

\* Observe, whatever the sample says.
LEMMA ObserveGood ==
  ASSUME NEW s, NEW t \in Nat, Sound(s, t), NEW o \in Samples
  PROVE  Good(s, Observe(s, o, t), t) /\ Steady(s, Observe(s, o, t), t)
  <1> DEFINE d == Diverge(s, t)
             b == EpisodeBegun(d, t)
             e == EpisodeBeginReports(d, t)
  <1>1. s \in States /\ Timely(s, t)
    BY DEF Sound
  <1>2. CASE ~o.finite
    <2> DEFINE x == [Report(s, "RejectedObs") EXCEPT !.reject = "NaN"]
    <2>1. Observe(s, o, t) = Result(s, NoWrite, <<x>>)
      BY <1>2 DEF Observe
    <2>2. Quiet(x)
      BY DEF Quiet, Report
    <2> HIDE DEF x
    <2> QED
      BY <2>1, <2>2, QuietGood
  <1>3. CASE o.finite /\ ~Assessable(s, o)
    <2>1. Observe(s, o, t) = Idle(s)
      BY <1>3 DEF Observe
    <2> QED
      BY <2>1, IdleGood
  <1>4. CASE Assessable(s, o) /\ Matches(s, o.read)
    <2>1. Observe(s, o, t) = Result(Converge(s), NoWrite, ConvergeReports(s))
      BY <1>4 DEF Observe, Assessable
    <2> QED
      BY <2>1, ConvergeGood
  <1>5. CASE Assessable(s, o) /\ ~Matches(s, o.read)
    <2>1. s.applied
      BY <1>5 DEF Assessable
    <2>2. /\ Sound(d, t)
          /\ Open(d) = Open(s)
          /\ d.fields = s.fields
          /\ d.divergentSince # Never
          /\ s.divergentSince # Never =>
                 /\ d.writeAttempts = s.writeAttempts
                 /\ d.lastWriteAt = s.lastWriteAt
      BY <2>1, DivergeSound
    <2> HIDE DEF d
    <2>3. /\ Sound(b, t)
          /\ b.fields = s.fields
          /\ b.divergentSince # Never
          /\ s.divergentSince # Never =>
                 /\ b.writeAttempts = s.writeAttempts
                 /\ b.lastWriteAt = s.lastWriteAt
      BY <2>2, EpisodeBegunSound
    <2>4. AnnouncedAll(Open(s), e) = Open(b)
      BY <2>2, EpisodeBeginAnnounced DEF Sound
    <2> HIDE DEF b, e
    <2>5. b \in States
      BY <2>3 DEF Sound
    <2>6. CASE BackoffReady(b, t)
      <3>1. Observe(s, o, t) = Result(WriteAction(b, t), "write-on-diff", e)
        BY <1>5, <2>6 DEF Observe, Assessable, b, d, e
      <3>2. Good(s, Result(WriteAction(b, t), "write-on-diff", e), t)
        BY <2>3, <2>4, WriteActionSound DEF Good, Result, NoWrite
      <3>3. s.divergentSince # Never => BackoffReady(s, t)
        BY <2>3, <2>6, BackoffReadySame
      <3>4. Steady(s, Result(WriteAction(b, t), "write-on-diff", e), t)
        BY <1>1, <2>3, <2>5, <3>3, WrittenSteady
      <3> QED
        BY <3>1, <3>2, <3>4
    <2>7. CASE ~BackoffReady(b, t)
      <3>1. Observe(s, o, t) = Result(b, NoWrite, e)
        BY <1>5, <2>7 DEF Observe, Assessable, b, d, e
      <3>2. Good(s, Result(b, NoWrite, e), t)
        BY <2>3, <2>4 DEF Good, Result, NoWrite
      <3>3. Steady(s, Result(b, NoWrite, e), t)
        BY <1>1, <2>3, <2>5, Bookkeeping DEF Steady, Result, NoWrite, Corrective
      <3> QED
        BY <3>1, <3>2, <3>3
    <2> QED
      BY <2>6, <2>7
  <1> QED
    BY <1>2, <1>3, <1>4, <1>5 DEF Assessable

\* Reconnected writes without touching the episode or an open window.
LEMMA ReconnectedGood ==
  ASSUME NEW s, NEW t \in Nat, Sound(s, t)
  PROVE  Good(s, Reconnected(s, t), t) /\ Steady(s, Reconnected(s, t), t)
  <1> DEFINE u == Unassess(s)
             w == "reconnect-reassert"
  <1>1. s \in States /\ Timely(s, t)
    BY DEF Sound
  <1>2. CASE ~s.applied
    BY <1>2, IdleGood DEF Reconnected
  <1>3. CASE s.applied
    <2>1. u \in States
      BY <1>1 DEF Unassess, States
    <2>2. Timely(u, t) /\ Coherent(u, t)
      BY <1>1 DEF Sound, Timely, Coherent, Unassess, States
    <2>3. /\ Open(u) = Open(s)
          /\ s.divergentSince # Never => u.writeAttempts = s.writeAttempts
      BY <1>1 DEF Unassess, Open, States
    <2>4. Reconnected(s, t) = Result(WriteAction(u, t), w, <<>>)
      BY <1>3 DEF Reconnected
    <2> HIDE DEF u
    <2>5. Good(s, Result(WriteAction(u, t), w, <<>>), t)
      BY <2>1, <2>2, <2>3, WriteActionSound, AnnounceShort
         DEF Good, Result, NoWrite, Sound
    <2>6. w \notin Corrective
      BY DEF Corrective
    <2>7. Steady(s, Result(WriteAction(u, t), w, <<>>), t)
      BY <1>1, <2>1, <2>3, <2>6, WrittenSteady
    <2> QED
      BY <2>4, <2>5, <2>7
  <1> QED
    BY <1>2, <1>3

\* Tick's staleness check files at most one quiet report.
LEMMA StaleMarkedSound ==
  ASSUME NEW s, NEW t \in Nat, Sound(s, t)
  PROVE  LET m == StaleMarked(s, t)
         IN  /\ Sound(m, t)
             /\ Open(m) = Open(s)
             /\ m.fields = s.fields
             /\ m.divergentSince = s.divergentSince
             /\ m.writeAttempts = s.writeAttempts
             /\ m.lastWriteAt = s.lastWriteAt
             /\ \/ StaleReports(s, t) = <<>>
                \/ \E x : Quiet(x) /\ StaleReports(s, t) = <<x>>
  <1>1. s \in States
    BY DEF Sound
  <1>2. Quiet(Report(s, "StaleDesired"))
    BY DEF Quiet, Report
  <1>3. CASE StaleDue(s, t)
    <2> DEFINE m == StaleMarked(s, t)
    <2>1. m = [s EXCEPT !.staleReported = TRUE]
      BY <1>3 DEF StaleMarked
    <2>2. m \in States
      BY <1>1, <2>1 DEF States
    <2>3. Timely(m, t) /\ Coherent(m, t)
      BY <1>1, <1>3, <2>1 DEF Sound, Timely, Coherent, StaleDue, States
    <2>4. StaleReports(s, t) = <<Report(s, "StaleDesired")>>
      BY <1>3 DEF StaleReports
    <2>5. Open(m) = Open(s)
      BY <1>1, <2>1 DEF Open, States
    <2> QED
      BY <1>1, <1>2, <2>1, <2>2, <2>3, <2>4, <2>5 DEF Sound, States
  <1>4. CASE ~StaleDue(s, t)
    BY <1>4 DEF StaleMarked, StaleReports
  <1> QED
    BY <1>3, <1>4

\* Tick, whichever timers have run out.
LEMMA TickGood ==
  ASSUME NEW s, NEW t \in Nat, Sound(s, t)
  PROVE  Good(s, Tick(s, t), t) /\ Steady(s, Tick(s, t), t)
  <1> DEFINE m == StaleMarked(s, t)
             b == EpisodeBegun(m, t)
             q == StaleReports(s, t)
             e == EpisodeBeginReports(m, t)
  <1>1. s \in States /\ Timely(s, t)
    BY DEF Sound
  <1>2. /\ Sound(m, t)
        /\ Open(m) = Open(s)
        /\ m.fields = s.fields
        /\ m.divergentSince = s.divergentSince
        /\ m.writeAttempts = s.writeAttempts
        /\ m.lastWriteAt = s.lastWriteAt
        /\ q = <<>> \/ \E x : Quiet(x) /\ q = <<x>>
    BY StaleMarkedSound
  <1> HIDE DEF m, q
  <1>3. /\ Sound(b, t)
        /\ b.fields = s.fields
        /\ b.divergentSince = s.divergentSince
        /\ b.writeAttempts = s.writeAttempts
        /\ b.lastWriteAt = s.lastWriteAt
    BY <1>2, EpisodeBegunSound
  <1>4. AnnouncedAll(Open(s), e) = Open(b) /\ (e = <<>> \/ \E y : e = <<y>>)
    BY <1>2, EpisodeBeginAnnounced DEF Sound
  <1> HIDE DEF b, e
  <1>5. AnnouncedAll(Open(s), q \o e) = Open(b)
    <2>1. CASE q = <<>>
      <3>1. <<>> \o e = e
        BY <1>4
      <3> QED
        BY <1>4, <2>1, <3>1
    <2>2. CASE q # <<>>
      <3>1. PICK x : Quiet(x) /\ q = <<x>>
        BY <1>2, <2>2
      <3>2. CASE e = <<>>
        <4>1. AnnouncedAll(Open(s), <<x>>) = Open(s) /\ <<x>> \o <<>> = <<x>>
          BY <3>1, AnnounceShort
        <4>2. Open(b) = Open(s)
          BY <1>4, <3>2, AnnounceShort
        <4> QED
          BY <3>1, <3>2, <4>1, <4>2
      <3>3. CASE e # <<>>
        <4>1. PICK y : e = <<y>>
          BY <1>4, <3>3
        <4>2. AnnouncedAll(Open(s), <<x>> \o <<y>>) = Announced(Open(s), y)
          BY <3>1, QuietThen
        <4>3. AnnouncedAll(Open(s), <<y>>) = Announced(Open(s), y)
          BY AnnounceShort
        <4> QED
          BY <1>4, <3>1, <4>1, <4>2, <4>3
      <3> QED
        BY <3>2, <3>3
    <2> QED
      BY <2>1, <2>2
  <1>6. b \in States
    BY <1>3 DEF Sound
  <1>7. ASSUME NEW w \in {"retry", "reassert"},
               w = "retry" => BackoffReady(b, t) /\ b.divergentSince # Never
        PROVE  LET res == Result(WriteAction(b, t), w, q \o e)
               IN  Good(s, res, t) /\ Steady(s, res, t)
    <2>1. Good(s, Result(WriteAction(b, t), w, q \o e), t)
      BY <1>3, <1>5, WriteActionSound DEF Good, Result, NoWrite
    <2>2. w \in Corrective => w = "retry"
      BY DEF Corrective
    <2>3. w \in Corrective => BackoffReady(s, t)
      BY <1>3, <1>7, <2>2, BackoffReadySame
    <2>4. Steady(s, Result(WriteAction(b, t), w, q \o e), t)
      BY <1>1, <1>3, <1>6, <1>7, <2>2, <2>3, WrittenSteady
    <2> QED
      BY <2>1, <2>4
  <1>8. CASE ~s.applied
    BY <1>8, IdleGood DEF Tick
  <1>9. CASE s.applied /\ b.divergentSince # Never /\ BackoffReady(b, t)
    <2>1. Tick(s, t) = Result(WriteAction(b, t), "retry", q \o e)
      BY <1>9 DEF Tick, b, e, m, q
    <2> QED
      BY <1>7, <1>9, <2>1
  <1>10. CASE /\ s.applied
              /\ ~(b.divergentSince # Never /\ BackoffReady(b, t))
              /\ ReassertDue(b, t)
    <2>1. Tick(s, t) = Result(WriteAction(b, t), "reassert", q \o e)
      BY <1>10 DEF Tick, b, e, m, q
    <2> QED
      BY <1>7, <2>1
  <1>11. CASE /\ s.applied
              /\ ~(b.divergentSince # Never /\ BackoffReady(b, t))
              /\ ~ReassertDue(b, t)
    <2>1. Tick(s, t) = Result(b, NoWrite, q \o e)
      BY <1>11 DEF Tick, b, e, m, q
    <2>2. Good(s, Result(b, NoWrite, q \o e), t)
      BY <1>3, <1>5 DEF Good, Result
    <2>3. Steady(s, Result(b, NoWrite, q \o e), t)
      BY <1>1, <1>3, <1>6, UnwrittenSteady
    <2> QED
      BY <2>1, <2>2, <2>3
  <1> QED
    BY <1>8, <1>9, <1>10, <1>11
\* Time does not make a reconciler unsound.
LEMMA SoundLater ==
  ASSUME NEW s, NEW t \in Nat, Sound(s, t)
  PROVE  Sound(s, t + 1)
  <1>1. /\ s.divergentSince \in Int /\ s.lastWriteAt \in Int
        /\ s.lastDocAt \in Int /\ s.lastReassertAt \in Int
    BY TimesType DEF Sound, States
  <1>2. ConvergeTimeout \in Nat /\ StaleAfter \in Nat
    BY ConfigAssumption
  <1> QED
    BY <1>1, <1>2 DEF Sound, Timely, Coherent

-----------------------------------------------------------------------------
(* Whether a document stands at all.                                       *)

\* No operation but SetDesired changes what is asked for, none takes a
\* standing document away, and without one nothing but SetDesired acts.
LEMMA StandingDocument ==
  ASSUME NEW s \in States, NEW t \in Nat, NEW doc, NEW o
  PROVE  /\ SetDesired(s, doc, t).r = s \/ SetDesired(s, doc, t).r.applied
         /\ Observe(s, o, t).r.fields = s.fields
         /\ Reconnected(s, t).r.fields = s.fields
         /\ Tick(s, t).r.fields = s.fields
         /\ s.applied => /\ SetDesired(s, doc, t).r.applied
                         /\ Observe(s, o, t).r.applied
                         /\ Reconnected(s, t).r.applied
                         /\ Reconnected(s, t).write # NoWrite
                         /\ Tick(s, t).r.applied
         /\ ~s.applied => /\ Observe(s, o, t).r = s
                          /\ Observe(s, o, t).write = NoWrite
                          /\ Reconnected(s, t) = Idle(s)
                          /\ Tick(s, t) = Idle(s)
  <1> DEFINE Same(u, v) == u.applied = v.applied /\ u.fields = v.fields
  <1>1. /\ \/ SetDesired(s, doc, t).r = s
           \/ SetDesired(s, doc, t).r.applied
        /\ s.applied => SetDesired(s, doc, t).r.applied
    <2>1. Adopt(s, doc, t).applied
      BY DEF Adopt, States
    <2>2. WriteAction(Retarget(Adopt(s, doc, t)), t).applied
      BY DEF WriteAction, Retarget, Adopt, States
    <2> QED
      BY <2>1, <2>2 DEF SetDesired, Result
  <1>2. ASSUME NEW u \in States
        PROVE  /\ Same(WriteAction(u, t), u)
               /\ Same(EpisodeBegun(u, t), u)
               /\ Same(Diverge(u, t), u)
               /\ Same(Converge(u), u)
               /\ Same(Unassess(u), u)
               /\ Same(StaleMarked(u, t), u)
    BY DEF States, WriteAction, EpisodeBegun, Diverge, Converge, Unassess,
           StaleMarked
  <1>3. ASSUME NEW u \in States
        PROVE  {EpisodeBegun(u, t), Diverge(u, t), Unassess(u),
                StaleMarked(u, t)} \subseteq States
    <2>1. u.episode + 1 \in Nat /\ t \in Times
      BY TimesType DEF States
    <2>2. EpisodeBegun(u, t) \in States
      BY <2>1 DEF States, EpisodeBegun
    <2>3. Diverge(u, t) \in States
      BY <2>1 DEF States, Diverge
    <2>4. Unassess(u) \in States /\ StaleMarked(u, t) \in States
      BY DEF States, Unassess, StaleMarked
    <2> QED
      BY <2>2, <2>3, <2>4
  <1>4. Same(Observe(s, o, t).r, s)
    <2> DEFINE d == Diverge(s, t)
               b == EpisodeBegun(d, t)
    <2>1. d \in States /\ b \in States
      BY <1>3
    <2>2. /\ Same(d, s) /\ Same(b, d)
          /\ Same(WriteAction(b, t), b) /\ Same(Converge(s), s)
      BY <1>2, <2>1
    <2>3. Observe(s, o, t).r \in {s, Converge(s), WriteAction(b, t), b}
      BY DEF Observe, Result, Idle
    <2> QED
      BY <2>2, <2>3
  <1>5. /\ Same(Reconnected(s, t).r, s)
        /\ s.applied => Reconnected(s, t).write # NoWrite
    <2>1. Same(Unassess(s), s)
          /\ Same(WriteAction(Unassess(s), t), Unassess(s))
      BY <1>2, <1>3
    <2> QED
      BY <2>1 DEF Reconnected, Result, Idle, NoWrite
  <1>6. Same(Tick(s, t).r, s)
    <2> DEFINE m == StaleMarked(s, t)
               b == EpisodeBegun(m, t)
    <2>1. m \in States /\ b \in States
      BY <1>3
    <2>2. Same(m, s) /\ Same(b, m) /\ Same(WriteAction(b, t), b)
      BY <1>2, <2>1
    <2>3. Tick(s, t).r \in {s, WriteAction(b, t), b}
      BY DEF Tick, Result, Idle
    <2> QED
      BY <2>2, <2>3
  <1>7. ~s.applied => /\ Observe(s, o, t).r = s
                      /\ Observe(s, o, t).write = NoWrite
    BY DEF Observe, Assessable, Result, Idle
  <1> QED
    BY <1>1, <1>4, <1>5, <1>6, <1>7 DEF Reconnected, Tick
=============================================================================
