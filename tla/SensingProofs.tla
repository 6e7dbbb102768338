--------------------------- MODULE SensingProofs ---------------------------
(***************************************************************************)
(* Proofs about Sensing.tla, for any windows, limits, pressures and tick   *)
(* lengths: a tick found safe has not been blind or deaf for longer than   *)
(* the limits allow.                                                       *)
(***************************************************************************)
EXTENDS Sensing, SequenceTheorems, FiniteSetTheorems, WellFoundedInduction, TLAPS

\* The longest time between two ticks, and the longest a tick's reads take.
Idlest == Highest(Idles)
Slowest == Highest(IoTimes)

\* The ages and streaks the verdict reads, apart from the windows of samples.
AgesOK ==
  /\ validAge \in (0..OldSample) \cup {None}
  /\ startAge \in 0..MaxStale + 1 /\ blind \in 0..MaxStale + 1
  /\ pollAge \in 0..PollEvery /\ deaf \in 0..Deafest + 1
  /\ membrane \in Streak(MembraneAfter)

\* The time without an accepted sample is the age that evaluate() looks at: the last
\* sample's, or the supervisor's own before there is one.
BlindSeen ==
  blind = IF validAge = None THEN startAge ELSE AtMost(validAge, MaxStale + 1)

\* Without a streak of errors the last status is as old as the last poll; a poll that
\* is due may have to wait for the reads of the tick before.
PolledInTime ==
  membrane.first = None =>
    /\ deaf <= PollEvery - 1 + Slowest
    /\ pollAge < PollEvery => deaf <= pollAge

\* The silence when a streak's first error came in, and the age of the streak since.
StreakCounts ==
  membrane.first # None /\ membrane.first < MembraneAfter =>
    deaf <= PollEvery - 1 + Idlest + 2 * Slowest + membrane.first

SilenceInv == AgesOK /\ BlindSeen /\ PolledInTime /\ StreakCounts

-----------------------------------------------------------------------------

\* Ticks take some time, and no longer than the longest; the limits are numbers.
LEMMA TimesKnown ==
  /\ Idlest \in Nat \ {0} /\ \A x \in Idles : x \in Nat \ {0} /\ x <= Idlest
  /\ Slowest \in Nat /\ \A x \in IoTimes : x \in Nat /\ x <= Slowest
<1>1. PICK x \in Idles : \A y \in Idles : y <= x
  BY SensingAssumption
<1>2. Idlest \in Idles /\ \A y \in Idles : y <= Idlest
  BY <1>1 DEF Idlest, Highest
<1>3. PICK z \in IoTimes : \A y \in IoTimes : y <= z
  BY SensingAssumption
<1>4. Slowest \in IoTimes /\ \A y \in IoTimes : y <= Slowest
  BY <1>3 DEF Slowest, Highest
<1>. QED
  BY <1>2, <1>4, SensingAssumption

LEMMA LimitsKnown ==
  /\ MaxStale \in Nat /\ MaxAge \in Nat /\ MembraneAfter \in Nat /\ RubyAfter \in Nat
  /\ PollEvery \in Nat \ {0} /\ MaxErrors \in Nat \ {0} /\ SlopeWindow \in Nat \ {0}
  /\ MaxInvalid \in Nat \ {0} /\ MaxJumps \in Nat \ {0} /\ Smoothing \in Nat \ {0}
  /\ MinPoints \in Nat /\ MinPoints >= 2
  /\ None \notin Nat
BY SensingAssumption DEF Limits, Counts

LEMMA OldSampleKnown ==
  /\ OldSample \in Nat /\ OldSample >= MaxStale + 1 /\ OldSample >= MaxAge + 1
  /\ OldSample >= Horizon + 1 /\ Horizon \in Nat
BY LimitsKnown DEF OldSample, Horizon, AtLeast

LEMMA DeafestKnown ==
  /\ Deafest = PollEvery + Idlest + 2 * Slowest + MembraneAfter - 2
  /\ Deafest \in Nat
BY TimesKnown, LimitsKnown DEF Deafest, Idlest, Slowest

\* At the start nothing is known and nothing has been waited for.
LEMMA SilenceInit == Init => SilenceInv
<1>. SUFFICES ASSUME Init PROVE SilenceInv
  OBVIOUS
<1>1. AgesOK
  BY LimitsKnown, OldSampleKnown, DeafestKnown DEF Init, AgesOK, Streak, NoStreak
<1>2. BlindSeen /\ PolledInTime /\ StreakCounts
  BY LimitsKnown, TimesKnown DEF Init, BlindSeen, PolledInTime, StreakCounts, NoStreak
<1>. QED
  BY <1>1, <1>2 DEF SilenceInv

\* What a tick is made of.
TickOf(idle, io, polled) ==
  /\ startAge' = AtMost(startAge + (idle + io), MaxStale + 1)
  /\ polled = "notDue" => ~PollDue(idle)
  /\ StatusRead(polled, idle + io)
  /\ \/ /\ RubyError(idle + io)
        /\ read' = [kind |-> "error", poll |-> polled, hard |-> FALSE]
     \/ /\ Rejected(idle + io)
        /\ \E hard \in BOOLEAN : read' = [kind |-> "invalid", poll |-> polled, hard |-> hard]
     \/ \E v \in Values, late \in {0, io}, hard \in BOOLEAN :
          /\ Sample(v, idle + io, late)
          /\ read' = [kind |-> "sample", poll |-> polled, hard |-> hard]
  /\ jumps' = IF jumped' THEN AtMost(jumps + 1, MaxJumps) ELSE 0

LEMMA TickIs ==
  ASSUME Tick
  PROVE  \E idle \in Idles, io \in IoTimes, polled \in {"notDue", "fresh", "error"} :
           TickOf(idle, io, polled)
<1>1. PICK idle \in Idles, io \in IoTimes :
        /\ startAge' = AtMost(startAge + (idle + io), MaxStale + 1)
        /\ \E polled \in IF PollDue(idle) THEN {"fresh", "error"} ELSE {"notDue"} :
             /\ StatusRead(polled, idle + io)
             /\ \/ /\ RubyError(idle + io)
                   /\ read' = [kind |-> "error", poll |-> polled, hard |-> FALSE]
                \/ /\ Rejected(idle + io)
                   /\ \E hard \in {FALSE} \cup {HardJumped(v) : v \in Values} :
                        read' = [kind |-> "invalid", poll |-> polled, hard |-> hard]
                \/ \E v \in Values, late \in {0, io} :
                     /\ Sample(v, idle + io, late)
                     /\ read' = [kind |-> "sample", poll |-> polled, hard |-> HardJumped(v)]
        /\ jumps' = IF jumped' THEN AtMost(jumps + 1, MaxJumps) ELSE 0
  BY Zenon DEF Tick
<1>2. PICK polled \in {"notDue", "fresh", "error"} :
        /\ polled = "notDue" => ~PollDue(idle)
        /\ StatusRead(polled, idle + io)
        /\ \/ /\ RubyError(idle + io)
              /\ read' = [kind |-> "error", poll |-> polled, hard |-> FALSE]
           \/ /\ Rejected(idle + io)
              /\ \E hard \in {FALSE} \cup {HardJumped(v) : v \in Values} :
                   read' = [kind |-> "invalid", poll |-> polled, hard |-> hard]
           \/ \E v \in Values, late \in {0, io} :
                /\ Sample(v, idle + io, late)
                /\ read' = [kind |-> "sample", poll |-> polled, hard |-> HardJumped(v)]
  BY <1>1
<1>3. \A v \in Values : HardJumped(v) \in BOOLEAN
  BY DEF HardJumped, FarFromMean
<1>4. \/ /\ RubyError(idle + io)
         /\ read' = [kind |-> "error", poll |-> polled, hard |-> FALSE]
      \/ /\ Rejected(idle + io)
         /\ \E hard \in BOOLEAN : read' = [kind |-> "invalid", poll |-> polled, hard |-> hard]
      \/ \E v \in Values, late \in {0, io}, hard \in BOOLEAN :
           /\ Sample(v, idle + io, late)
           /\ read' = [kind |-> "sample", poll |-> polled, hard |-> hard]
  BY <1>2, <1>3
<1>. QED
  BY <1>1, <1>2, <1>4 DEF TickOf

\* A streak while time passes, when an answer ends it, and when an error goes on with it.
LEMMA StreakSteps ==
  ASSUME NEW after \in Nat, NEW s \in Streak(after), NEW d \in Nat
  PROVE  /\ Later(s, d, after) \in Streak(after)
         /\ Answered(s, d, after) \in Streak(after)
         /\ Failed(s, d, after) \in Streak(after)
<1>. USE LimitsKnown
<1>. DEFINE aged == [n |-> s.n,
                     first |-> IF s.first = None THEN None ELSE AtMost(s.first + d, after),
                     last |-> AtMost(s.last + d, SlopeWindow)]
<1>1. /\ s \in [n : 0..MaxErrors, first : (0..after) \cup {None}, last : 0..SlopeWindow]
      /\ s.n \in 0..MaxErrors /\ s.last \in 0..SlopeWindow
      /\ s.first \in (0..after) \cup {None}
  BY DEF Streak
<1>2. Later(s, d, after) = aged
  BY DEF Later
<1>3. aged.first \in (0..after) \cup {None} /\ aged.last \in 0..SlopeWindow
  BY <1>1 DEF AtMost
<1>4. aged \in Streak(after)
  BY <1>1, <1>3 DEF Streak
<1>5. Answered(s, d, after) = [n |-> 0, first |-> None, last |-> aged.last]
  BY <1>2 DEF Answered
<1>6. Answered(s, d, after) \in Streak(after)
  BY <1>3, <1>5 DEF Streak
<1>7. Failed(s, d, after) =
        [n |-> AtMost(s.n + 1, MaxErrors),
         first |-> IF s.first = None THEN 0 ELSE aged.first, last |-> 0]
  BY <1>2 DEF Failed
<1>8. AtMost(s.n + 1, MaxErrors) \in 0..MaxErrors
  BY <1>1 DEF AtMost
<1>9. Failed(s, d, after) \in Streak(after)
  BY <1>3, <1>7, <1>8 DEF Streak
<1>. QED
  BY <1>2, <1>4, <1>5, <1>6, <1>7, <1>9

\* A tick's poll keeps the streak, and what is known of the silence.
LEMMA PollKeeps ==
  ASSUME AgesOK, PolledInTime, StreakCounts,
         NEW idle \in Idles, NEW io \in IoTimes, NEW polled \in {"notDue", "fresh", "error"},
         polled = "notDue" => ~PollDue(idle), StatusRead(polled, idle + io)
  PROVE  /\ pollAge' \in 0..PollEvery /\ deaf' \in 0..Deafest + 1
         /\ membrane' \in Streak(MembraneAfter)
         /\ PolledInTime' /\ StreakCounts'
<1>. USE LimitsKnown, TimesKnown, DeafestKnown
<1>1. /\ idle \in Nat \ {0} /\ idle <= Idlest /\ io \in Nat /\ io <= Slowest
      /\ pollAge \in 0..PollEvery /\ deaf \in 0..Deafest + 1
      /\ membrane \in Streak(MembraneAfter)
      /\ membrane.n \in 0..MaxErrors /\ membrane.last \in 0..SlopeWindow
      /\ membrane.first \in (0..MembraneAfter) \cup {None}
  BY DEF AgesOK, Streak
<1>0. /\ Later(membrane, idle + io, MembraneAfter) \in Streak(MembraneAfter)
      /\ Later(membrane, idle + io, MembraneAfter).first =
           IF membrane.first = None THEN None
           ELSE AtMost(membrane.first + (idle + io), MembraneAfter)
      /\ Answered(membrane, idle + io, MembraneAfter) \in Streak(MembraneAfter)
      /\ Answered(membrane, idle + io, MembraneAfter).first = None
      /\ Failed(membrane, idle + io, MembraneAfter) \in Streak(MembraneAfter)
      /\ Failed(membrane, idle + io, MembraneAfter).first =
           IF membrane.first = None THEN 0
           ELSE AtMost(membrane.first + (idle + io), MembraneAfter)
  <2>1. idle + io \in Nat
    BY <1>1
  <2>2. membrane \in Streak(MembraneAfter) /\ MembraneAfter \in Nat
    BY <1>1
  <2>. DEFINE d == idle + io
  <2>3. d \in Nat
    BY <2>1
  <2>. HIDE DEF d
  <2>4. /\ Later(membrane, d, MembraneAfter) \in Streak(MembraneAfter)
        /\ Answered(membrane, d, MembraneAfter) \in Streak(MembraneAfter)
        /\ Failed(membrane, d, MembraneAfter) \in Streak(MembraneAfter)
    BY <2>2, <2>3, StreakSteps
  <2>5. /\ Later(membrane, d, MembraneAfter).first =
              IF membrane.first = None THEN None ELSE AtMost(membrane.first + d, MembraneAfter)
        /\ Answered(membrane, d, MembraneAfter).first = None
        /\ Failed(membrane, d, MembraneAfter).first =
              IF membrane.first = None THEN 0 ELSE AtMost(membrane.first + d, MembraneAfter)
    BY DEF Later, Answered, Failed
  <2>. QED
    BY <2>4, <2>5 DEF d
<1>2. CASE polled = "notDue"
  <2>1. /\ membrane' = Later(membrane, idle + io, MembraneAfter)
        /\ pollAge' = AtMost(pollAge + (idle + io), PollEvery)
        /\ deaf' = AtMost(deaf + (idle + io), Deafest + 1)
        /\ pollAge + idle < PollEvery
    BY <1>1, <1>2 DEF StatusRead, PollDue
  <2>2. /\ membrane' \in Streak(MembraneAfter)
        /\ membrane.first = None => membrane'.first = None
        /\ membrane.first # None =>
             membrane'.first = AtMost(membrane.first + (idle + io), MembraneAfter)
    BY <1>0, <1>1, <2>1 DEF AtMost
  <2>3. pollAge' \in 0..PollEvery /\ deaf' \in 0..Deafest + 1
    BY <1>1, <2>1 DEF AtMost
  <2>4. PolledInTime'
    BY <1>1, <2>1, <2>2, <2>3 DEF PolledInTime, AtMost
  <2>5. StreakCounts'
    BY <1>1, <2>1, <2>2, <2>3 DEF StreakCounts, AtMost
  <2>. QED
    BY <2>2, <2>3, <2>4, <2>5
<1>3. CASE polled = "fresh"
  <2>1. /\ membrane' = Answered(membrane, idle + io, MembraneAfter)
        /\ pollAge' = 0 /\ deaf' = 0
    BY <1>3 DEF StatusRead
  <2>2. membrane' \in Streak(MembraneAfter) /\ membrane'.first = None
    BY <1>0, <1>1, <2>1 DEF AtMost
  <2>. QED
    BY <2>1, <2>2 DEF PolledInTime, StreakCounts
<1>4. CASE polled = "error"
  <2>1. /\ membrane' = Failed(membrane, idle + io, MembraneAfter)
        /\ pollAge' = 0 /\ deaf' = AtMost(deaf + (idle + io), Deafest + 1)
    BY <1>4 DEF StatusRead
  <2>2. /\ membrane' \in Streak(MembraneAfter) /\ membrane'.first # None
        /\ membrane.first = None => membrane'.first = 0
        /\ membrane.first # None =>
             membrane'.first = AtMost(membrane.first + (idle + io), MembraneAfter)
    BY <1>0, <1>1, <2>1 DEF AtMost
  <2>3. deaf' \in 0..Deafest + 1
    BY <1>1, <2>1 DEF AtMost
  <2>4. StreakCounts'
    <3>1. CASE membrane.first = None
      BY <1>1, <2>1, <2>2, <2>3, <3>1 DEF StreakCounts, PolledInTime, AtMost
    <3>2. CASE membrane.first # None
      BY <1>1, <2>1, <2>2, <2>3, <3>2 DEF StreakCounts, AtMost
    <3>. QED
      BY <3>1, <3>2
  <2>. QED
    BY <2>1, <2>2, <2>3, <2>4 DEF PolledInTime
<1>. QED
  BY <1>2, <1>3, <1>4

\* What a tick does about the samples keeps the two ages equal.
LEMMA AgesKeep ==
  ASSUME AgesOK, BlindSeen, NEW d \in Nat, NEW late \in Nat,
         startAge' = AtMost(startAge + d, MaxStale + 1),
         \/ /\ validAge' = AtMost(late, OldSample)
            /\ blind' = AtMost(late, MaxStale + 1)
         \/ NothingAccepted(d) /\ blind' = AtMost(blind + d, MaxStale + 1)
  PROVE  /\ validAge' \in (0..OldSample) \cup {None}
         /\ startAge' \in 0..MaxStale + 1 /\ blind' \in 0..MaxStale + 1
         /\ BlindSeen'
<1>. USE LimitsKnown, OldSampleKnown DEF AgesOK
<1>1. startAge' \in 0..MaxStale + 1
  BY DEF AtMost
<1>2. CASE validAge' = AtMost(late, OldSample) /\ blind' = AtMost(late, MaxStale + 1)
  BY <1>1, <1>2 DEF BlindSeen, AtMost
<1>3. CASE NothingAccepted(d) /\ blind' = AtMost(blind + d, MaxStale + 1)
  <2>1. CASE validAge = None
    BY <1>1, <1>3, <2>1 DEF NothingAccepted, BlindSeen, AtMost
  <2>2. CASE validAge # None
    BY <1>1, <1>3, <2>2 DEF NothingAccepted, BlindSeen, AtMost
  <2>. QED
    BY <2>1, <2>2
<1>. QED
  BY <1>2, <1>3

\* Every step keeps what is known of the silence.
LEMMA SilenceStep == SilenceInv /\ [Next]_vars => SilenceInv'
<1>. SUFFICES ASSUME SilenceInv, [Next]_vars PROVE SilenceInv'
  OBVIOUS
<1>. USE LimitsKnown, OldSampleKnown, DeafestKnown DEF SilenceInv
<1>1. CASE UNCHANGED vars
  BY <1>1 DEF vars, estimator, AgesOK, BlindSeen, PolledInTime, StreakCounts
<1>2. CASE Tick
  <2>1. PICK idle \in Idles, io \in IoTimes, polled \in {"notDue", "fresh", "error"} :
          TickOf(idle, io, polled)
    BY <1>2, TickIs
  <2>2. idle + io \in Nat /\ io \in Nat
    BY <2>1, TimesKnown
  <2>3. /\ pollAge' \in 0..PollEvery /\ deaf' \in 0..Deafest + 1
        /\ membrane' \in Streak(MembraneAfter)
        /\ PolledInTime' /\ StreakCounts'
    BY <2>1, PollKeeps DEF TickOf
  <2>4. PICK late \in Nat :
          \/ /\ validAge' = AtMost(late, OldSample)
             /\ blind' = AtMost(late, MaxStale + 1)
          \/ /\ NothingAccepted(idle + io)
             /\ blind' = AtMost(blind + (idle + io), MaxStale + 1)
    BY <2>1, <2>2 DEF TickOf, Sample, Accept, Rejected, RubyError
  <2>5. /\ validAge' \in (0..OldSample) \cup {None}
        /\ startAge' \in 0..MaxStale + 1 /\ blind' \in 0..MaxStale + 1
        /\ BlindSeen'
    BY <2>1, <2>2, <2>4, AgesKeep DEF TickOf
  <2>. QED
    BY <2>3, <2>5 DEF AgesOK
<1>3. CASE Reset
  <2>1. NoStreak \in Streak(MembraneAfter) /\ NoStreak.first = None
    BY DEF NoStreak, Streak
  <2>2. pollAge \in 0..PollEvery /\ PollEvery - 1 + Slowest >= 0
    BY TimesKnown DEF AgesOK
  <2>. QED
    BY <1>3, <2>1, <2>2
       DEF Reset, estimator, AgesOK, BlindSeen, PolledInTime, StreakCounts
<1>4. CASE Configure
  <2>1. NoStreak \in Streak(MembraneAfter) /\ NoStreak.first = None
    BY DEF NoStreak, Streak
  <2>2. pollAge \in 0..PollEvery /\ PollEvery - 1 + Slowest >= 0
    BY TimesKnown DEF AgesOK
  <2>. QED
    BY <1>4, <2>1, <2>2 DEF Configure, AgesOK, BlindSeen, PolledInTime, StreakCounts
<1>. QED
  BY <1>1, <1>2, <1>3, <1>4 DEF Next

\* A verdict that finds nothing disturbed has seen the age of the last sample, and no
\* streak of errors that has lasted as long as the grace.
LEMMA SilenceSeen == SilenceInv => SilenceBounded
<1>. SUFFICES ASSUME SilenceInv, ~Disturbed PROVE blind <= MaxStale /\ deaf <= Deafest
  BY DEF SilenceBounded
<1>. USE LimitsKnown, OldSampleKnown, DeafestKnown, TimesKnown DEF SilenceInv, AgesOK
<1>1. ~Stale /\ (membrane.first = None \/ ~(membrane.first >= MembraneAfter))
  BY DEF Disturbed, Unreachable
<1>2. blind <= MaxStale
  BY <1>1 DEF Stale, BlindSeen, AtMost
<1>3. deaf <= Deafest
  <2>1. CASE membrane.first = None
    BY <2>1 DEF PolledInTime
  <2>2. CASE membrane.first # None
    <3>1. membrane.first \in 0..MembraneAfter
      BY <2>2 DEF Streak
    <3>2. deaf <= PollEvery - 1 + Idlest + 2 * Slowest + membrane.first
      BY <1>1, <2>2, <3>1 DEF StreakCounts
    <3>. QED
      BY <1>1, <2>2, <3>1, <3>2
  <2>. QED
    BY <2>1, <2>2
<1>. QED
  BY <1>2, <1>3

\* A tick found safe has had an accepted sample within max_stale_sample_s and a status
\* within the poll interval, a late tick and the grace, for any mixture of rejected
\* samples, failed reads and slow ticks (SafetySupervisor.evaluate with the streaks of
\* on_ruby_error and on_membrane_error).
THEOREM SilenceIsBounded == Spec => []SilenceBounded
<1>1. Init => SilenceInv
  BY SilenceInit
<1>2. SilenceInv /\ [Next]_vars => SilenceInv'
  BY SilenceStep
<1>3. SilenceInv => SilenceBounded
  BY SilenceSeen
<1>. QED
  BY <1>1, <1>2, <1>3, PTL DEF Spec

-----------------------------------------------------------------------------
(* The windows of samples.                                                  *)

\* A set of numbers has a lowest one.
LEMMA LowestIs ==
  ASSUME NEW T \in SUBSET Nat, T # {}
  PROVE  Lowest(T) \in T /\ \A y \in T : Lowest(T) <= y
<1>1. PICK x \in T : \A y \in T : ~(<<y, x>> \in OpToRel(<, Nat))
  BY NatLessThanWellFounded, WFMin
<1>2. \A y \in T : x <= y
  <2>. SUFFICES ASSUME NEW y \in T PROVE x <= y
    OBVIOUS
  <2>1. x \in Nat /\ y \in Nat
    OBVIOUS
  <2>2. ~(y < x)
    BY <1>1, <2>1 DEF OpToRel
  <2>. QED
    BY <2>1, <2>2
<1>. QED
  BY <1>2 DEF Lowest

\* A sequence of numbers has a highest value.
LEMMA HighestIs ==
  ASSUME NEW s \in Seq(Nat), Len(s) # 0
  PROVE  \E i \in 1..Len(s) : \A j \in 1..Len(s) : s[j] <= s[i]
<1>. DEFINE Topped(t) == \E i \in 1..Len(t) : \A j \in 1..Len(t) : t[j] <= t[i]
            Topless == {n \in Nat : n # 0 /\ \E t \in Seq(Nat) : Len(t) = n /\ ~Topped(t)}
<1>. SUFFICES ASSUME ~Topped(s) PROVE FALSE
  OBVIOUS
<1>. HIDE DEF Topped
<1>1. Topless \in SUBSET Nat /\ Topless # {}
  <2>1. Len(s) \in Nat
    BY LenProperties
  <2>. QED
    BY <2>1
<1>2. PICK n \in Topless : \A m \in Topless : n <= m
  <2>. HIDE DEF Topless
  <2>. QED
    BY <1>1, LowestIs
<1>3. PICK t \in Seq(Nat) : Len(t) = n /\ ~Topped(t)
  BY <1>2
<1>4. n \in Nat /\ n # 0 /\ \A i \in 1..n : t[i] \in Nat
  <2>1. n \in Nat /\ n # 0
    BY <1>2
  <2>. QED
    BY <1>3, <2>1, ElementOfSeq
<1>. HIDE DEF Topless
<1>5. CASE n = 1
  BY <1>3, <1>4, <1>5 DEF Topped
<1>6. CASE n > 1
  <2>. DEFINE u == SubSeq(t, 1, n - 1)
  <2>1. /\ u \in Seq(Nat) /\ Len(u) = n - 1
        /\ \A i \in 1..n - 1 : u[i] = t[i]
    <3>1. 1 \in Int /\ n - 1 \in Int /\ \A i \in 1..n - 1 : t[i] \in Nat
      BY <1>4, <1>6
    <3>2. /\ u \in Seq(Nat) /\ Len(u) = IF 1 <= n - 1 THEN n - 1 - 1 + 1 ELSE 0
          /\ \A i \in 1..n - 1 - 1 + 1 : u[i] = t[1 + i - 1]
      BY <3>1, SubSeqProperties
    <3>. QED
      BY <1>4, <1>6, <3>2
  <2>. HIDE DEF u
  <2>2. Topped(u)
    <3>1. n - 1 \in Nat /\ n - 1 # 0 /\ ~(n <= n - 1)
      BY <1>4, <1>6
    <3>2. n - 1 \notin Topless
      BY <1>2, <3>1
    <3>. QED
      BY <2>1, <3>1, <3>2 DEF Topless
  <2>3. PICK i \in 1..n - 1 : \A j \in 1..n - 1 : t[j] <= t[i]
    BY <2>1, <2>2 DEF Topped
  <2>4. i \in 1..n /\ n \in 1..n /\ \A j \in 1..n : j \in 1..n - 1 \/ j = n
    BY <1>4, <1>6
  <2>5. CASE t[n] <= t[i]
    BY <1>3, <2>3, <2>4, <2>5 DEF Topped
  <2>6. CASE t[i] <= t[n]
    <3>1. \A j \in 1..n : t[j] <= t[n]
      BY <1>4, <2>3, <2>4, <2>6
    <3>. QED
      BY <1>3, <2>4, <3>1 DEF Topped
  <2>. QED
    BY <1>4, <2>4, <2>5, <2>6
<1>. QED
  BY <1>4, <1>5, <1>6

\* A median is one of the values: some value is at least as great as all of them.
LEMMA MedianIs ==
  ASSUME NEW s \in Seq(Nat), Len(s) # 0
  PROVE  DoubledMedian(s) \in Nat
<1>1. Len(s) \in Nat /\ DOMAIN s = 1..Len(s) /\ \A i \in 1..Len(s) : s[i] \in Nat
  BY LenProperties, ElementOfSeq
<1>2. ASSUME NEW k \in Nat, k <= Len(s) PROVE Ranked(s, k) \in Nat
  <2>. DEFINE Least(v) == {i \in DOMAIN s : s[i] <= v}
              ranks == {v \in {s[i] : i \in DOMAIN s} : Cardinality(Least(v)) >= k}
  <2>1. PICK i \in 1..Len(s) : \A j \in 1..Len(s) : s[j] <= s[i]
    BY HighestIs
  <2>2. Least(s[i]) = 1..Len(s)
    BY <1>1, <2>1
  <2>3. Cardinality(1..Len(s)) = Len(s)
    <3>1. 1 \in Int /\ Len(s) \in Int
      BY <1>1
    <3>2. Cardinality(1..Len(s)) = IF 1 > Len(s) THEN 0 ELSE Len(s) - 1 + 1
      BY <3>1, FS_Interval
    <3>. QED
      BY <1>1, <3>2
  <2>4. s[i] \in ranks
    BY <1>1, <1>2, <2>2, <2>3
  <2>5. ranks \in SUBSET Nat
    BY <1>1
  <2>6. Ranked(s, k) = Lowest(ranks)
    BY DEF Ranked
  <2>. HIDE DEF ranks
  <2>. QED
    BY <2>4, <2>5, <2>6, LowestIs
<1>3. /\ (Len(s) + 1) \div 2 \in Nat /\ (Len(s) + 1) \div 2 <= Len(s)
      /\ Len(s) \div 2 + 1 \in Nat /\ Len(s) \div 2 + 1 <= Len(s)
  BY <1>1
<1>. QED
  BY <1>2, <1>3 DEF DoubledMedian

\* A history of points, the oldest first.
Ordered(h) == \A i, j \in 1..Len(h) : i <= j => h[j].age <= h[i].age
History == {h \in Seq([age : Nat, m : Nat]) : Ordered(h)}

\* The end of a history that is taken for the points within w is just those points.
LEMMA WithinIs ==
  ASSUME NEW h \in History, NEW w \in Nat
  PROVE  \E k \in 1..Len(h) + 1 :
           /\ Within(h, w) = SubSeq(h, k, Len(h))
           /\ \A i \in 1..Len(h) : i >= k <=> h[i].age <= w
<1>1. /\ h \in Seq([age : Nat, m : Nat]) /\ Len(h) \in Nat /\ DOMAIN h = 1..Len(h)
      /\ \A i \in 1..Len(h) : h[i] \in [age : Nat, m : Nat] /\ h[i].age \in Nat
  <2>1. h \in Seq([age : Nat, m : Nat])
    BY DEF History
  <2>2. Len(h) \in Nat /\ DOMAIN h = 1..Len(h)
    BY <2>1, LenProperties
  <2>3. \A i \in 1..Len(h) : h[i] \in [age : Nat, m : Nat]
    BY <2>1, ElementOfSeq
  <2>. QED
    BY <2>1, <2>2, <2>3
<1>. DEFINE young == {i \in DOMAIN h : h[i].age <= w} \cup {Len(h) + 1}
            k == Lowest(young)
<1>2. young \in SUBSET Nat /\ young # {} /\ young \subseteq 1..Len(h) + 1
  BY <1>1
<1>3. k \in young /\ \A y \in young : k <= y
  <2>. HIDE DEF young
  <2>. QED
    BY <1>2, LowestIs
<1>4. k \in 1..Len(h) + 1
  BY <1>2, <1>3
<1>5. Within(h, w) = SubSeq(h, k, Len(h))
  BY DEF Within
<1>. HIDE DEF k
<1>6. ASSUME NEW i \in 1..Len(h) PROVE i >= k <=> h[i].age <= w
  <2>1. CASE h[i].age <= w
    BY <1>1, <1>3, <1>4, <2>1
  <2>2. CASE i >= k
    <3>1. k \in 1..Len(h) /\ h[k].age <= w
      BY <1>1, <1>3, <1>4, <2>2
    <3>2. h[i].age <= h[k].age
      BY <2>2, <3>1 DEF History, Ordered
    <3>. QED
      BY <1>1, <2>2, <3>1, <3>2
  <2>. QED
    BY <2>1, <2>2
<1>. QED
  BY <1>4, <1>5, <1>6

\* A history stays one while it gets older and loses its old points.
LEMMA OlderIs ==
  ASSUME NEW h \in History, NEW gap \in Nat
  PROVE  /\ Older(h, gap) \in History /\ Len(Older(h, gap)) = Len(h)
         /\ \A i \in 1..Len(h) : /\ Older(h, gap)[i].age = h[i].age + gap
                                 /\ Older(h, gap)[i].m = h[i].m
<1>1. /\ h \in Seq([age : Nat, m : Nat]) /\ Len(h) \in Nat /\ DOMAIN h = 1..Len(h)
      /\ \A i \in 1..Len(h) : h[i] \in [age : Nat, m : Nat]
  <2>1. h \in Seq([age : Nat, m : Nat])
    BY DEF History
  <2>. QED
    BY <2>1, LenProperties, ElementOfSeq
<1>. DEFINE o == Older(h, gap)
<1>2. /\ o \in Seq([age : Nat, m : Nat]) /\ Len(o) = Len(h)
      /\ \A i \in 1..Len(h) : o[i] = [h[i] EXCEPT !.age = @ + gap]
  BY <1>1 DEF Older
<1>3. \A i \in 1..Len(h) : o[i].age = h[i].age + gap /\ o[i].m = h[i].m
  BY <1>1, <1>2
<1>. HIDE DEF o
<1>4. Ordered(o)
  <2>. SUFFICES ASSUME NEW i \in 1..Len(h), NEW j \in 1..Len(h), i <= j
                PROVE  o[j].age <= o[i].age
    BY <1>2 DEF Ordered
  <2>1. h[j].age <= h[i].age
    BY DEF History, Ordered
  <2>. QED
    BY <1>1, <1>3, <2>1
<1>. QED
  BY <1>2, <1>3, <1>4 DEF o, History

\* Pruning takes only what the horizon has passed, and leaves the rest in its place from
\* the end.
LEMMA PrunedIs ==
  ASSUME NEW h \in History
  PROVE  /\ Pruned(h) \in History /\ Pruned(h) \in Seq(Point)
         /\ \A j \in 0..Len(h) - 1 :
              h[Len(h) - j].age <= Horizon =>
                /\ j < Len(Pruned(h))
                /\ Pruned(h)[Len(Pruned(h)) - j] = h[Len(h) - j]
<1>1. /\ h \in Seq([age : Nat, m : Nat]) /\ Len(h) \in Nat
      /\ \A i \in 1..Len(h) : h[i] \in [age : Nat, m : Nat]
  <2>1. h \in Seq([age : Nat, m : Nat])
    BY DEF History
  <2>. QED
    BY <2>1, LenProperties, ElementOfSeq
<1>2. PICK k \in 1..Len(h) + 1 :
        /\ Pruned(h) = SubSeq(h, k, Len(h))
        /\ \A i \in 1..Len(h) : i >= k <=> h[i].age <= Horizon
  BY OldSampleKnown, WithinIs DEF Pruned
<1>. DEFINE p == SubSeq(h, k, Len(h))
<1>3. k \in Int /\ Len(h) \in Int /\ \A i \in k..Len(h) : i \in 1..Len(h)
  BY <1>1, <1>2
<1>4. \A i \in k..Len(h) : h[i] \in Point /\ h[i] \in [age : Nat, m : Nat]
  <2>. SUFFICES ASSUME NEW i \in k..Len(h) PROVE h[i] \in Point /\ h[i] \in [age : Nat, m : Nat]
    OBVIOUS
  <2>1. h[i] \in [age : Nat, m : Nat] /\ h[i].age <= Horizon
    BY <1>1, <1>2, <1>3
  <2>2. h[i].age \in 0..Horizon /\ h[i].m \in Nat
    BY <2>1, OldSampleKnown
  <2>. QED
    BY <2>1, <2>2 DEF Point
<1>5. /\ p \in Seq(Point) /\ Len(p) = (IF k <= Len(h) THEN Len(h) - k + 1 ELSE 0)
      /\ \A i \in 1..Len(h) - k + 1 : p[i] = h[k + i - 1]
  BY <1>3, <1>4, SubSeqProperties
<1>6. p \in Seq([age : Nat, m : Nat])
  BY <1>3, <1>4, SubSeqProperties
<1>. HIDE DEF p
<1>7. Ordered(p)
  <2>. SUFFICES ASSUME NEW i \in 1..Len(p), NEW j \in 1..Len(p), i <= j
                PROVE  p[j].age <= p[i].age
    BY DEF Ordered
  <2>1. /\ p[i] = h[k + i - 1] /\ p[j] = h[k + j - 1]
        /\ k + i - 1 \in 1..Len(h) /\ k + j - 1 \in 1..Len(h) /\ k + i - 1 <= k + j - 1
    BY <1>1, <1>2, <1>5
  <2>. QED
    BY <2>1 DEF History, Ordered
<1>8. ASSUME NEW j \in 0..Len(h) - 1, h[Len(h) - j].age <= Horizon
      PROVE  j < Len(p) /\ p[Len(p) - j] = h[Len(h) - j]
  <2>1. j \in Nat /\ Len(h) - j \in 1..Len(h)
    BY <1>1
  <2>2. Len(h) - j >= k
    BY <1>2, <1>8, <2>1
  <2>3. k \in Nat /\ k >= 1 /\ Len(p) = Len(h) - k + 1
    BY <1>1, <1>2, <1>5, <2>1, <2>2
  <2>4. Len(p) - j \in 1..Len(h) - k + 1 /\ k + (Len(p) - j) - 1 = Len(h) - j
    BY <1>1, <2>1, <2>2, <2>3
  <2>. QED
    BY <1>5, <2>1, <2>2, <2>3, <2>4
<1>. QED
  BY <1>2, <1>5, <1>6, <1>7, <1>8 DEF p, History

\* The history is in order, and its newest point belongs to the last accepted sample.
WindowsOK ==
  /\ raw \in Seq(Values) /\ Len(raw) <= Window
  /\ medians \in Seq(Point) /\ Ordered(medians)
  /\ medians # <<>> => medians[Len(medians)].age = 0

LEMMA PointsAreHistory ==
  ASSUME NEW h \in Seq(Point), Ordered(h)
  PROVE  h \in History
<1>1. Point \subseteq [age : Nat, m : Nat]
  BY OldSampleKnown DEF Point
<1>. QED
  BY <1>1, SeqMonotonic DEF History

\* An accepted sample keeps the windows within their bounds; a point that the horizon has
\* not passed stays, one place farther from the end.
LEMMA AcceptKeeps ==
  ASSUME WindowsOK, validAge \in Nat \cup {None},
         NEW v \in Values, NEW d \in Nat, NEW late \in 0..d, Accept(v, d, late)
  PROVE  /\ WindowsOK' /\ jumped' \in BOOLEAN /\ fast' \in BOOLEAN
         /\ Len(medians') \in Nat \ {0} /\ medians'[Len(medians')].age = 0
         /\ validAge # None =>
              \A j \in 0..Len(medians) - 1 :
                LET age == medians[Len(medians) - j].age + (validAge + d - late)
                IN  age <= Horizon => /\ j + 1 < Len(medians')
                                      /\ medians'[Len(medians') - (j + 1)].age = age
<1>. USE LimitsKnown, OldSampleKnown
<1>1. Values \subseteq Nat /\ Window \in Nat /\ Window >= 3
  BY SensingAssumption
<1>2. jumped' \in BOOLEAN
  BY DEF Accept
<1>3. fast' \in BOOLEAN
  BY DEF Accept, SlopeAbove
<1>4. raw' \in Seq(Values) /\ Len(raw') <= Window /\ Len(raw') # 0 /\ Len(raw') \in Nat
  <2>. DEFINE w == Append(raw, v)
  <2>1. raw \in Seq(Values) /\ Len(raw) \in Nat /\ Len(raw) <= Window
    BY LenProperties DEF WindowsOK
  <2>2. w \in Seq(Values) /\ w # <<>> /\ Len(w) = Len(raw) + 1
    BY <2>1, AppendProperties
  <2>3. raw' = IF Len(w) > Window THEN Tail(w) ELSE w
    BY DEF Accept, Pushed
  <2>. HIDE DEF w
  <2>4. Tail(w) \in Seq(Values) /\ Len(Tail(w)) = Len(w) - 1
    BY <2>2, HeadTailProperties
  <2>. QED
    BY <1>1, <2>1, <2>2, <2>3, <2>4
<1>5. DoubledMedian(raw') \in Nat
  <2>1. raw' \in Seq(Nat)
    BY <1>1, <1>4, SeqMonotonic
  <2>. QED
    BY <1>4, <2>1, MedianIs
<1>. DEFINE gap == IF validAge = None THEN 0 ELSE validAge + d - late
            o == Older(medians, gap)
            p == Pruned(o)
            e == [age |-> 0, m |-> DoubledMedian(raw')]
<1>6. gap \in Nat /\ (validAge # None => gap = validAge + d - late)
  OBVIOUS
<1>7. medians' = Append(p, e)
  BY DEF Accept
<1>8. medians \in History /\ Len(medians) \in Nat
  BY PointsAreHistory, LenProperties DEF WindowsOK
<1>. HIDE DEF gap
<1>9. /\ o \in History /\ Len(o) = Len(medians)
      /\ \A i \in 1..Len(medians) : o[i].age = medians[i].age + gap
  BY <1>6, <1>8, OlderIs
<1>. HIDE DEF o
<1>10. /\ p \in History /\ p \in Seq(Point)
       /\ \A j \in 0..Len(o) - 1 :
            o[Len(o) - j].age <= Horizon => j < Len(p) /\ p[Len(p) - j] = o[Len(o) - j]
  BY <1>9, PrunedIs
<1>. HIDE DEF p
<1>11. e \in Point
  BY <1>5 DEF Point
<1>12. /\ medians' \in Seq(Point) /\ Len(medians') = Len(p) + 1
       /\ \A i \in 1..Len(p) : medians'[i] = p[i]
       /\ medians'[Len(p) + 1] = e /\ e.age = 0
  BY <1>7, <1>10, <1>11, AppendProperties
<1>. HIDE DEF e
<1>13. Len(p) \in Nat /\ \A i \in 1..Len(p) : p[i].age \in Nat
  <2>1. p \in Seq([age : Nat, m : Nat])
    BY <1>10 DEF History
  <2>2. Len(p) \in Nat /\ \A i \in 1..Len(p) : p[i] \in [age : Nat, m : Nat]
    BY <2>1, LenProperties, ElementOfSeq
  <2>. QED
    BY <2>2
<1>14. Ordered(medians')
  <2>. SUFFICES ASSUME NEW i \in 1..Len(medians'), NEW j \in 1..Len(medians'), i <= j
                PROVE  medians'[j].age <= medians'[i].age
    BY DEF Ordered
  <2>1. CASE j \in 1..Len(p)
    <3>1. i \in 1..Len(p)
      BY <1>12, <1>13, <2>1
    <3>2. p[j].age <= p[i].age
      BY <1>10, <2>1, <3>1 DEF History, Ordered
    <3>. QED
      BY <1>12, <2>1, <3>1, <3>2
  <2>2. CASE j = Len(p) + 1
    <3>1. CASE i = j
      BY <1>12, <2>2, <3>1
    <3>2. CASE i \in 1..Len(p)
      BY <1>12, <1>13, <2>2, <3>2
    <3>. QED
      BY <1>12, <1>13, <2>2, <3>1, <3>2
  <2>. QED
    BY <1>12, <1>13, <2>1, <2>2
<1>15. WindowsOK'
  BY <1>4, <1>12, <1>13, <1>14 DEF WindowsOK
<1>16. Len(medians') \in Nat \ {0} /\ medians'[Len(medians')].age = 0
  BY <1>12, <1>13
<1>17. ASSUME validAge # None, NEW j \in 0..Len(medians) - 1,
              medians[Len(medians) - j].age + gap <= Horizon
       PROVE  /\ j + 1 < Len(medians')
              /\ medians'[Len(medians') - (j + 1)].age = medians[Len(medians) - j].age + gap
  <2>1. j \in 0..Len(o) - 1 /\ Len(o) - j \in 1..Len(medians)
    BY <1>8, <1>9
  <2>2. o[Len(o) - j].age = medians[Len(medians) - j].age + gap
    BY <1>9, <2>1
  <2>3. j < Len(p) /\ p[Len(p) - j] = o[Len(o) - j]
    BY <1>10, <1>17, <2>1, <2>2
  <2>4. Len(p) - j \in 1..Len(p) /\ Len(medians') - (j + 1) = Len(p) - j
    BY <1>8, <1>12, <1>13, <2>1, <2>3
  <2>. QED
    BY <1>8, <1>12, <1>13, <2>1, <2>2, <2>3, <2>4
<1>. QED
  BY <1>2, <1>3, <1>6, <1>15, <1>16, <1>17

SensingInv == SensingTypeOK /\ WindowsOK

LEMMA SensingInit == Init => SensingInv
<1>. SUFFICES ASSUME Init PROVE SensingInv
  OBVIOUS
<1>. USE LimitsKnown, OldSampleKnown, DeafestKnown
<1>1. WindowsOK
  <2>1. <<>> \in Seq(Values) /\ <<>> \in Seq(Point) /\ Len(<<>>) = 0
    BY EmptySeq
  <2>2. Window \in Nat
    BY SensingAssumption
  <2>. QED
    BY <2>1, <2>2 DEF Init, WindowsOK, Ordered
<1>2. /\ validAge \in (0..OldSample) \cup {None} /\ invalid \in 0..MaxInvalid
      /\ jumps \in 0..MaxJumps /\ jumped \in BOOLEAN /\ fast \in BOOLEAN
      /\ startAge \in 0..MaxStale + 1 /\ pollAge \in 0..PollEvery
      /\ good \in 0..MinPoints /\ blind \in 0..MaxStale + 1 /\ deaf \in 0..Deafest + 1
  <2>1. /\ validAge = None /\ invalid = 0 /\ jumps = 0 /\ jumped = FALSE /\ fast = FALSE
        /\ startAge = 0 /\ pollAge = PollEvery /\ good = 0 /\ blind = 0 /\ deaf = 0
    BY DEF Init
  <2>2. /\ 0 \in 0..MaxInvalid /\ 0 \in 0..MaxJumps /\ 0 \in 0..MaxStale + 1
        /\ PollEvery \in 0..PollEvery /\ 0 \in 0..Deafest + 1 /\ 0 \in 0..MinPoints
    OBVIOUS
  <2>. QED
    BY <2>1, <2>2, Zenon
<1>3. ruby \in Streak(RubyAfter) /\ membrane \in Streak(MembraneAfter)
  BY DEF Init, Streak, NoStreak
<1>4. read \in [kind : OutcomeKinds, poll : Polls, hard : BOOLEAN]
  BY DEF Init, OutcomeKinds, Polls
<1>. QED
  BY <1>1, <1>2, <1>3, <1>4 DEF SensingInv, SensingTypeOK, WindowsOK

\* Every step keeps the types: the ages and the silence are SilenceStep's, the windows
\* AcceptKeeps', and the counters stop at their limits.
LEMMA SensingStep == SensingInv /\ SilenceInv /\ [Next]_vars => SensingInv'
<1>. SUFFICES ASSUME SensingInv, SilenceInv, [Next]_vars PROVE SensingInv'
  OBVIOUS
<1>. USE LimitsKnown, OldSampleKnown
<1>1. AgesOK'
  BY SilenceStep DEF SilenceInv
<1>2. SUFFICES /\ WindowsOK' /\ good' \in 0..MinPoints
               /\ invalid' \in 0..MaxInvalid /\ jumps' \in 0..MaxJumps
               /\ jumped' \in BOOLEAN /\ fast' \in BOOLEAN /\ ruby' \in Streak(RubyAfter)
               /\ read' \in [kind : OutcomeKinds, poll : Polls, hard : BOOLEAN]
  BY <1>1 DEF SensingInv, SensingTypeOK, AgesOK, WindowsOK
<1>3. /\ WindowsOK /\ good \in 0..MinPoints /\ validAge \in (0..OldSample) \cup {None}
      /\ invalid \in 0..MaxInvalid /\ jumps \in 0..MaxJumps
      /\ jumped \in BOOLEAN /\ fast \in BOOLEAN /\ ruby \in Streak(RubyAfter)
      /\ read \in [kind : OutcomeKinds, poll : Polls, hard : BOOLEAN]
  BY DEF SensingInv, SensingTypeOK
<1>4. CASE UNCHANGED vars
  BY <1>3, <1>4 DEF vars, estimator, WindowsOK, Ordered
<1>5. CASE Tick
  <2>1. PICK idle \in Idles, io \in IoTimes, polled \in {"notDue", "fresh", "error"} :
          TickOf(idle, io, polled)
    BY <1>5, TickIs
  <2>. DEFINE d == idle + io
  <2>2. d \in Nat /\ io \in 0..d /\ 0 \in 0..d /\ io <= Slowest
    BY TimesKnown
  <2>3. /\ Answered(ruby, d, RubyAfter) \in Streak(RubyAfter)
        /\ Failed(ruby, d, RubyAfter) \in Streak(RubyAfter)
    BY <1>3, <2>2, StreakSteps
  <2>4. \A kind \in OutcomeKinds, hard \in BOOLEAN :
          [kind |-> kind, poll |-> polled, hard |-> hard]
            \in [kind : OutcomeKinds, poll : Polls, hard : BOOLEAN]
    BY DEF Polls
  <2>5. jumped' \in BOOLEAN => jumps' \in 0..MaxJumps
    BY <1>3, <2>1 DEF TickOf, AtMost
  <2>6. CASE \E v \in Values, late \in {0, io}, hard \in BOOLEAN :
               /\ Sample(v, d, late)
               /\ read' = [kind |-> "sample", poll |-> polled, hard |-> hard]
    <3>1. PICK v \in Values, late \in {0, io}, hard \in BOOLEAN :
            /\ Sample(v, d, late)
            /\ read' = [kind |-> "sample", poll |-> polled, hard |-> hard]
      BY <2>6
    <3>2. late \in 0..d /\ late <= Slowest
      BY <2>2, TimesKnown
    <3>3. Accept(v, d, late) /\ ruby' = Answered(ruby, d, RubyAfter)
      BY <3>1 DEF Sample
    <3>4. WindowsOK' /\ jumped' \in BOOLEAN /\ fast' \in BOOLEAN
      BY <1>3, <2>2, <3>2, <3>3, AcceptKeeps
    <3>5. validAge' = AtMost(late, OldSample) /\ invalid' = 0
      BY <3>3 DEF Accept, InvalidAfter
    <3>6. good' \in 0..MinPoints
      BY <1>3, <3>1 DEF Sample, AtMost
    <3>. QED
      BY <2>3, <2>4, <2>5, <3>1, <3>3, <3>4, <3>5, <3>6 DEF OutcomeKinds
  <2>7. CASE Rejected(d) /\ \E hard \in BOOLEAN :
               read' = [kind |-> "invalid", poll |-> polled, hard |-> hard]
    <3>1. UNCHANGED <<raw, medians, fast>> /\ jumped' = FALSE
          /\ ruby' = Answered(ruby, d, RubyAfter) /\ invalid' = InvalidAfter(FALSE)
      BY <2>7 DEF Rejected, NothingAccepted
    <3>2. WindowsOK'
      BY <1>3, <3>1 DEF WindowsOK, Ordered
    <3>3. invalid' \in 0..MaxInvalid /\ good' \in 0..MinPoints
      BY <1>3, <2>7, <3>1 DEF InvalidAfter, AtMost, Rejected
    <3>4. read' \in [kind : OutcomeKinds, poll : Polls, hard : BOOLEAN]
      BY <2>4, <2>7 DEF OutcomeKinds
    <3>. QED
      BY <1>3, <2>3, <2>5, <3>1, <3>2, <3>3, <3>4
  <2>8. CASE RubyError(d) /\ read' = [kind |-> "error", poll |-> polled, hard |-> FALSE]
    <3>1. UNCHANGED <<raw, medians, fast, jumped, invalid>> /\ ruby' = Failed(ruby, d, RubyAfter)
      BY <2>8 DEF RubyError, NothingAccepted
    <3>2. WindowsOK'
      BY <1>3, <3>1 DEF WindowsOK, Ordered
    <3>3. good' = 0 /\ read' \in [kind : OutcomeKinds, poll : Polls, hard : BOOLEAN]
      BY <2>4, <2>8 DEF OutcomeKinds, RubyError
    <3>. QED
      BY <1>3, <2>3, <2>5, <3>1, <3>2, <3>3
  <2>. QED
    BY <2>1, <2>6, <2>7, <2>8 DEF TickOf
<1>6. CASE Reset
  <2>1. NoStreak \in Streak(RubyAfter)
    BY DEF NoStreak, Streak
  <2>2. /\ UNCHANGED <<raw, medians, validAge, invalid, jumped, fast, good>> /\ jumps' = 0
        /\ ruby' = NoStreak
        /\ read' = [kind |-> read.kind, poll |-> "first", hard |-> FALSE]
    BY <1>6 DEF Reset, estimator, NoReadSince
  <2>3. WindowsOK'
    BY <1>3, <2>2 DEF WindowsOK, Ordered
  <2>4. read' \in [kind : OutcomeKinds, poll : Polls, hard : BOOLEAN]
    BY <1>3, <2>2 DEF Polls
  <2>. QED
    BY <1>3, <2>1, <2>2, <2>3, <2>4
<1>7. CASE Configure
  <2>1. NoStreak \in Streak(RubyAfter)
    BY DEF NoStreak, Streak
  <2>2. /\ raw' = <<>> /\ medians' = <<>> /\ validAge' = None /\ invalid' = 0
        /\ jumped' = FALSE /\ fast' = FALSE /\ jumps' = 0 /\ ruby' = NoStreak
        /\ good' = 0
        /\ read' = [kind |-> read.kind, poll |-> "first", hard |-> FALSE]
    BY <1>7 DEF Configure, NoReadSince
  <2>3. <<>> \in Seq(Values) /\ <<>> \in Seq(Point) /\ Len(<<>>) = 0 /\ Window \in Nat
    BY EmptySeq, SensingAssumption
  <2>4. WindowsOK'
    BY <2>2, <2>3 DEF WindowsOK, Ordered
  <2>5. read' \in [kind : OutcomeKinds, poll : Polls, hard : BOOLEAN]
    BY <1>3, <2>2 DEF Polls
  <2>6. 0 \in 0..MaxInvalid /\ 0 \in 0..MaxJumps /\ 0 \in 0..MinPoints
    OBVIOUS
  <2>. QED
    BY <2>1, <2>2, <2>4, <2>5, <2>6, Zenon
<1>. QED
  BY <1>4, <1>5, <1>6, <1>7 DEF Next

\* Both invariants together.
LEMMA SensingHolds == Spec => [](SensingInv /\ SilenceInv)
<1>1. Init => SensingInv /\ SilenceInv
  BY SensingInit, SilenceInit
<1>2. SensingInv /\ SilenceInv /\ [Next]_vars => (SensingInv /\ SilenceInv)'
  BY SensingStep, SilenceStep
<1>. QED
  BY <1>1, <1>2, PTL DEF Spec

\* The windows, ages, streaks and counters that PressureEstimator and SafetySupervisor
\* keep stay within their bounds, for any of their limits.
THEOREM SensingTypes == Spec => []SensingTypeOK
<1>1. SensingInv /\ SilenceInv => SensingTypeOK
  BY DEF SensingInv
<1>. QED
  BY <1>1, SensingHolds, PTL

-----------------------------------------------------------------------------
(* What a tick may tell the controller.                                     *)

\* A sample read by a slow tick is still fresh at the tick's end.
ReadsInTime == Slowest <= MaxStale /\ Slowest <= MaxAge

\* How long ago the j-th sample before the last of an unbroken row came in, at most.
Span(j) == j * (Idlest + Slowest) + Slowest

\* min_points_for_valid samples accepted in a row fit into the windows.
WindowsHold == Span(MinPoints - 1) <= Horizon

\* After a steady accepted sample and an answered poll nothing is disturbed.
LEMMA NothingLeft ==
  ASSUME ReadsInTime, SensingInv, NEW idle \in Idles, NEW io \in IoTimes,
         TickOf(idle, io, "fresh"), read'.kind = "sample", JumpSeen' = {}
  PROVE  ~Disturbed'
<1>. USE LimitsKnown, OldSampleKnown, TimesKnown
<1>1. PICK v \in Values, late \in {0, io} : Sample(v, idle + io, late)
  BY DEF TickOf
<1>2. /\ validAge' = AtMost(late, OldSample) /\ invalid' = 0
      /\ ruby' = Answered(ruby, idle + io, RubyAfter)
      /\ membrane' = Answered(membrane, idle + io, MembraneAfter)
      /\ jumps' = IF jumped' THEN AtMost(jumps + 1, MaxJumps) ELSE 0
  BY <1>1 DEF TickOf, Sample, Accept, InvalidAfter, StatusRead
<1>3. ~jumped' /\ ~read.hard'
  BY DEF JumpSeen
<1>4. late \in Nat /\ late <= MaxStale
  BY DEF ReadsInTime
<1>5. ~Stale'
  <2>1. AtMost(late, OldSample) \in Nat /\ AtMost(late, OldSample) <= MaxStale
    BY <1>4 DEF AtMost
  <2>. QED
    BY <1>2, <2>1 DEF Stale
<1>6. ruby'.n = 0 /\ ruby'.first = None /\ membrane'.n = 0 /\ membrane'.first = None
  BY <1>2 DEF Answered
<1>7. ~Unreachable(ruby, RubyAfter)' /\ ~Unreachable(membrane, MembraneAfter)'
  BY <1>6 DEF Unreachable
<1>8. ~(invalid' >= MaxInvalid) /\ ~(jumps' >= MaxJumps)
  BY <1>2, <1>3
<1>. QED
  BY <1>3, <1>5, <1>7, <1>8 DEF Disturbed

LEMMA SpanIs ==
  /\ Span(0) = Slowest
  /\ \A j \in Nat : Span(j) \in Nat /\ Span(j + 1) = Span(j) + Idlest + Slowest
  /\ \A j \in 0..MinPoints - 1 : Span(j) <= Span(MinPoints - 1)
<1>1. Idlest \in Nat /\ Slowest \in Nat /\ MinPoints \in Nat
  BY TimesKnown, LimitsKnown
<1>. DEFINE P == Idlest + Slowest
<1>2. P \in Nat
  BY <1>1
<1>3. Span(0) = Slowest
  BY <1>1 DEF Span
<1>4. ASSUME NEW j \in Nat PROVE Span(j) \in Nat /\ Span(j + 1) = Span(j) + Idlest + Slowest
  <2>1. j * P \in Nat /\ (j + 1) * P = j * P + P
    BY <1>2
  <2>. QED
    BY <1>1, <2>1 DEF Span
<1>5. ASSUME NEW j \in 0..MinPoints - 1 PROVE Span(j) <= Span(MinPoints - 1)
  <2>. DEFINE m == MinPoints - 1
  <2>1. m \in Nat /\ j \in Nat /\ m - j \in Nat
    BY <1>1
  <2>. HIDE DEF m, P
  <2>2. (m - j) * P \in Nat /\ m * P = j * P + (m - j) * P /\ j * P \in Nat /\ m * P \in Nat
    BY <1>2, <2>1
  <2>. QED
    BY <1>1, <2>2 DEF Span, m, P
<1>. QED
  BY <1>3, <1>4, <1>5

\* Of a row of accepted samples the windows hold every point the filter asks for: the
\* j-th before the last is no older than j ticks can be apart.
RowOK ==
  \A j \in 0..good - 1 :
    /\ validAge # None /\ j < Len(medians)
    /\ medians[Len(medians) - j].age + validAge <= Span(j)

\* A sample more in the row: the points before it get older by the time between the two
\* samples, which the horizon allows for as many as the filter asks for.
LEMMA RowGrows ==
  ASSUME WindowsHold, SensingInv, RowOK, NEW idle \in Idles, NEW io \in IoTimes,
         NEW late \in {0, io}, NEW v \in Values, Sample(v, idle + io, late)
  PROVE  RowOK'
<1>. DEFINE d == idle + io
<1>1. /\ d \in Nat /\ late \in Nat /\ late \in 0..d /\ late <= Slowest /\ d <= Idlest + Slowest
      /\ Idlest \in Nat /\ Slowest \in Nat /\ MinPoints \in Nat /\ MinPoints >= 2
      /\ Horizon \in Nat /\ OldSample \in Nat /\ None \notin Nat
  BY TimesKnown, LimitsKnown, OldSampleKnown
<1>. HIDE DEF d
<1>2. /\ WindowsOK /\ good \in 0..MinPoints /\ validAge \in Nat \cup {None}
      /\ medians \in Seq(Point) /\ Len(medians) \in Nat
      /\ \A i \in 1..Len(medians) : medians[i].age \in Nat
  <2>1. WindowsOK /\ good \in 0..MinPoints /\ validAge \in Nat \cup {None}
    BY <1>1 DEF SensingInv, SensingTypeOK
  <2>2. medians \in Seq(Point) /\ Len(medians) \in Nat
    BY <2>1, LenProperties DEF WindowsOK
  <2>3. \A i \in 1..Len(medians) : medians[i] \in Point
    BY <2>2, ElementOfSeq
  <2>. QED
    BY <1>1, <2>1, <2>2, <2>3 DEF Point
<1>3. /\ Accept(v, d, late) /\ good' = AtMost(good + 1, MinPoints)
      /\ validAge' = AtMost(late, OldSample)
  BY DEF Sample, Accept, d
<1>4. validAge' \in Nat /\ validAge' # None /\ validAge' <= late /\ 0 + validAge' <= Slowest
  BY <1>1, <1>3 DEF AtMost
<1>5. /\ Len(medians') \in Nat \ {0} /\ medians'[Len(medians')].age = 0
      /\ validAge # None =>
           \A j \in 0..Len(medians) - 1 :
             LET age == medians[Len(medians) - j].age + (validAge + d - late)
             IN  age <= Horizon => /\ j + 1 < Len(medians')
                                   /\ medians'[Len(medians') - (j + 1)].age = age
  BY <1>1, <1>2, <1>3, AcceptKeeps
<1>6. ASSUME NEW i \in 0..good' - 1
      PROVE  /\ i < Len(medians')
             /\ medians'[Len(medians') - i].age + validAge' <= Span(i)
  <2>1. CASE i = 0
    <3>1. 0 < Len(medians') /\ Len(medians') - i = Len(medians')
      BY <1>5, <2>1
    <3>2. Span(i) = Slowest /\ medians'[Len(medians') - i].age = 0 /\ i < Len(medians')
      BY <1>5, <2>1, <3>1, SpanIs
    <3>. QED
      BY <1>4, <3>2
  <2>2. CASE i # 0
    <3>. DEFINE j == i - 1
    <3>1. j \in Nat /\ j \in 0..good - 1 /\ i = j + 1 /\ i \in 0..MinPoints - 1
      BY <1>1, <1>2, <1>3, <2>2 DEF AtMost
    <3>. HIDE DEF j
    <3>. DEFINE was == medians[Len(medians) - j].age
    <3>2. /\ validAge # None /\ validAge \in Nat /\ j \in 0..Len(medians) - 1
          /\ was + validAge <= Span(j)
      <4>1. validAge # None /\ j < Len(medians) /\ was + validAge <= Span(j)
        BY <3>1 DEF RowOK
      <4>. QED
        BY <1>2, <3>1, <4>1
    <3>3. was \in Nat
      <4>1. Len(medians) - j \in 1..Len(medians)
        BY <1>2, <3>2
      <4>. QED
        BY <1>2, <4>1
    <3>. HIDE DEF was
    <3>. DEFINE age == was + (validAge + d - late)
    <3>4. Span(i) = Span(j) + Idlest + Slowest /\ Span(j) \in Nat /\ Span(i) <= Horizon
      <4>1. Span(i) <= Span(MinPoints - 1) /\ Span(i) \in Nat /\ Span(MinPoints - 1) \in Nat
        BY <1>1, <3>1, SpanIs
      <4>. QED
        BY <1>1, <3>1, <4>1, SpanIs DEF WindowsHold
    <3>5. age \in Nat /\ age + late <= Span(i) /\ age <= Horizon
      BY <1>1, <3>2, <3>3, <3>4
    <3>6. j + 1 < Len(medians') /\ medians'[Len(medians') - (j + 1)].age = age
      BY <1>5, <3>2, <3>5 DEF was
    <3>. HIDE DEF age
    <3>. QED
      BY <1>1, <1>4, <1>5, <3>1, <3>4, <3>5, <3>6
  <2>. QED
    BY <2>1, <2>2
<1>. QED
  BY <1>4, <1>6 DEF RowOK

\* Every step keeps the row: anything but an accepted sample ends it or leaves it alone.
LEMMA RowStep ==
  ASSUME WindowsHold PROVE SensingInv /\ RowOK /\ [Next]_vars => RowOK'
<1>. SUFFICES ASSUME SensingInv, RowOK, [Next]_vars PROVE RowOK'
  OBVIOUS
<1>1. CASE UNCHANGED <<estimator, good>>
  BY <1>1 DEF estimator, RowOK
<1>2. CASE good' = 0
  BY <1>2 DEF RowOK
<1>3. CASE Tick
  <2>1. PICK idle \in Idles, io \in IoTimes, polled \in {"notDue", "fresh", "error"} :
          TickOf(idle, io, polled)
    BY <1>3, TickIs
  <2>2. CASE RubyError(idle + io) \/ Rejected(idle + io)
    BY <1>2, <2>2 DEF RubyError, Rejected
  <2>3. CASE \E v \in Values, late \in {0, io} : Sample(v, idle + io, late)
    BY <2>3, RowGrows
  <2>. QED
    BY <2>1, <2>2, <2>3 DEF TickOf
<1>4. CASE Reset \/ Configure \/ UNCHANGED vars
  BY <1>1, <1>2, <1>4 DEF Reset, Configure, vars
<1>. QED
  BY <1>3, <1>4 DEF Next

LEMMA RowHolds == ASSUME WindowsHold PROVE Spec => []RowOK
<1>1. Init => RowOK
  BY DEF Init, RowOK
<1>2. SensingInv /\ RowOK /\ [Next]_vars => RowOK'
  BY RowStep
<1>. QED
  BY <1>1, <1>2, SensingHolds, PTL DEF Spec

\* The accepted sample that completes the row makes the filter usable.
LEMMA StaysUsable ==
  ASSUME ReadsInTime, WindowsHold, SensingInv, RowOK, NEW idle \in Idles, NEW io \in IoTimes,
         NEW polled, TickOf(idle, io, polled), good >= MinPoints - 1, read'.kind = "sample"
  PROVE  Usable'
<1>. USE LimitsKnown, OldSampleKnown, TimesKnown
<1>1. PICK v \in Values, late \in {0, io} : Sample(v, idle + io, late)
  BY DEF TickOf
<1>2. good' = MinPoints
  <2>1. good \in 0..MinPoints /\ good' = AtMost(good + 1, MinPoints)
    BY <1>1 DEF SensingInv, SensingTypeOK, Sample
  <2>. QED
    BY <2>1 DEF AtMost
<1>3. MinPoints - 1 < Len(medians')
  <2>1. RowOK'
    BY <1>1, RowGrows
  <2>2. MinPoints - 1 \in 0..good' - 1
    BY <1>2
  <2>. QED
    BY <2>1, <2>2 DEF RowOK
<1>4. Len(medians') \in Nat
  <2>1. WindowsOK /\ validAge \in Nat \cup {None} /\ Accept(v, idle + io, late)
        /\ idle + io \in Nat /\ late \in 0..(idle + io)
    BY <1>1 DEF SensingInv, SensingTypeOK, Sample
  <2>. QED
    BY <2>1, AcceptKeeps
<1>5. validAge' # None /\ validAge' <= MaxAge
  <2>1. validAge' = AtMost(late, OldSample)
    BY <1>1 DEF Sample, Accept
  <2>2. AtMost(late, OldSample) \in Nat /\ AtMost(late, OldSample) <= MaxAge
    BY DEF AtMost, ReadsInTime
  <2>. QED
    BY <2>1, <2>2
<1>. QED
  BY <1>3, <1>4, <1>5 DEF Usable, IsValid

\* An error becomes recent only by happening.
LEMMA RecentByError ==
  ASSUME SensingInv, NEW idle \in Idles, NEW io \in IoTimes,
         NEW polled \in {"notDue", "fresh", "error"}, TickOf(idle, io, polled)
  PROVE  /\ "error" \in {read'.kind, polled} => ErrRecent'
         /\ "error" \notin {read'.kind, polled} /\ ErrRecent' => ErrRecent
<1>. USE LimitsKnown, TimesKnown
<1>. DEFINE d == idle + io
<1>1. /\ ruby.last \in 0..SlopeWindow /\ membrane.last \in 0..SlopeWindow /\ d \in Nat
  BY DEF SensingInv, SensingTypeOK, Streak
<1>2. /\ read'.kind = "error" => ruby' = Failed(ruby, d, RubyAfter)
      /\ read'.kind # "error" => ruby' = Answered(ruby, d, RubyAfter)
  <2>1. \/ RubyError(d) /\ read'.kind = "error"
        \/ Rejected(d) /\ read'.kind = "invalid"
        \/ \E v \in Values, late \in {0, io} : Sample(v, d, late) /\ read'.kind = "sample"
    BY DEF TickOf
  <2>2. CASE RubyError(d) /\ read'.kind = "error"
    BY <2>2 DEF RubyError
  <2>3. CASE Rejected(d) /\ read'.kind = "invalid"
    BY <2>3 DEF Rejected
  <2>4. ASSUME NEW v, NEW late, Sample(v, d, late), read'.kind = "sample"
        PROVE  ruby' = Answered(ruby, d, RubyAfter)
    BY <2>4 DEF Sample
  <2>. QED
    BY <2>1, <2>2, <2>3, <2>4
<1>3. /\ polled = "error" => membrane' = Failed(membrane, d, MembraneAfter)
      /\ polled = "fresh" => membrane' = Answered(membrane, d, MembraneAfter)
      /\ polled = "notDue" => membrane' = Later(membrane, d, MembraneAfter)
  BY DEF TickOf, StatusRead
<1>4. /\ read'.kind = "error" => ruby'.last = 0
      /\ read'.kind # "error" => ruby'.last = AtMost(ruby.last + d, SlopeWindow)
  BY <1>2 DEF Failed, Answered, Later
<1>5. /\ polled = "error" => membrane'.last = 0
      /\ polled # "error" => membrane'.last = AtMost(membrane.last + d, SlopeWindow)
  BY <1>3 DEF Failed, Answered, Later
<1>6. "error" \in {read'.kind, polled} => ErrRecent'
  BY <1>4, <1>5 DEF ErrRecent
<1>7. /\ AtMost(ruby.last + d, SlopeWindow) < SlopeWindow => ruby.last < SlopeWindow
      /\ AtMost(membrane.last + d, SlopeWindow) < SlopeWindow => membrane.last < SlopeWindow
  BY <1>1 DEF AtMost
<1>8. "error" \notin {read'.kind, polled} /\ ErrRecent' => ErrRecent
  BY <1>4, <1>5, <1>7 DEF ErrRecent
<1>. QED
  BY <1>6, <1>8

\* What a step's reading tells the controller is among SensorChoices.
LEMMA ChoicesStep ==
  ASSUME ReadsInTime, WindowsHold, SensingInv, RowOK, Next, read'.poll # "first"
  PROVE  /\ Disturbed' \in DisturbedIn(read'.kind, read'.poll, JumpSeen' \cup {"statusRead"})
         /\ Usable' \in UsableIn(read'.kind, validAge' # None, Usable,
                                 IF good >= MinPoints - 1 THEN {} ELSE {"ruby"})
         /\ ErrRecent' \in ErrRecentIn("error" \in {read'.kind, read'.poll}, ErrRecent)
<1>1. Tick
  BY DEF Next, Reset, Configure, NoReadSince
<1>2. PICK idle \in Idles, io \in IoTimes, polled \in {"notDue", "fresh", "error"} :
        TickOf(idle, io, polled)
  BY <1>1, TickIs
<1>3. read'.poll = polled /\ read'.kind \in {"sample", "invalid", "error"}
  BY <1>2 DEF TickOf
<1>4. Disturbed' \in BOOLEAN /\ Usable' \in BOOLEAN /\ ErrRecent' \in BOOLEAN /\ ErrRecent \in BOOLEAN
  BY DEF Disturbed, Usable, ErrRecent
<1>5. Disturbed' \in DisturbedIn(read'.kind, read'.poll, JumpSeen' \cup {"statusRead"})
  <2>1. CASE read'.kind = "sample" /\ polled = "fresh" /\ JumpSeen' = {}
    <3>1. ~Disturbed'
      BY <1>2, <2>1, NothingLeft
    <3>. QED
      BY <1>4, <3>1 DEF DisturbedIn
  <2>2. CASE ~(read'.kind = "sample" /\ polled = "fresh" /\ JumpSeen' = {})
    <3>1. JumpSeen' = {} \/ "jump" \in JumpSeen'
      BY DEF JumpSeen
    <3>. QED
      BY <1>3, <1>4, <2>2, <3>1 DEF DisturbedIn
  <2>. QED
    BY <2>1, <2>2
<1>6. Usable' \in UsableIn(read'.kind, validAge' # None, Usable,
                           IF good >= MinPoints - 1 THEN {} ELSE {"ruby"})
  <2>1. CASE validAge' = None \/ read'.kind = "error"
    <3>1. ~Usable'
      BY <2>1 DEF Usable, IsValid
    <3>. QED
      BY <1>4, <2>1, <3>1 DEF UsableIn
  <2>2. CASE validAge' # None /\ read'.kind = "sample" /\ good >= MinPoints - 1
    <3>1. Usable'
      BY <1>2, <2>2, StaysUsable
    <3>. QED
      BY <1>4, <2>2, <3>1 DEF UsableIn
  <2>3. CASE /\ validAge' # None /\ read'.kind # "error"
             /\ ~(read'.kind = "sample" /\ good >= MinPoints - 1)
    BY <1>4, <2>3 DEF UsableIn
  <2>. QED
    BY <2>1, <2>2, <2>3
<1>7. ErrRecent' \in ErrRecentIn("error" \in {read'.kind, read'.poll}, ErrRecent)
  <2>1. /\ "error" \in {read'.kind, read'.poll} => ErrRecent'
        /\ "error" \notin {read'.kind, read'.poll} /\ ErrRecent' => ErrRecent
    BY <1>2, <1>3, RecentByError
  <2>. QED
    BY <1>4, <2>1 DEF ErrRecentIn
<1>. QED
  BY <1>5, <1>6, <1>7

\* The windows, streaks and ages never tell the controller anything that Controller.tla
\* does not choose from (SafetySupervisor.evaluate, PressureEstimator.is_valid and
\* comm_errors_recent as step() and _advance ask them), for any min_points_for_valid whose
\* samples fit into the windows when no tick outlasts the limits.
THEOREM ChoicesCover == ASSUME ReadsInTime, WindowsHold PROVE Spec => WithinChoices
<1>1. SensingInv /\ RowOK /\ [Next]_vars =>
        [read'.poll # "first" =>
           /\ Disturbed' \in DisturbedIn(read'.kind, read'.poll, JumpSeen' \cup {"statusRead"})
           /\ Usable' \in UsableIn(read'.kind, validAge' # None, Usable,
                                   IF good >= MinPoints - 1 THEN {} ELSE {"ruby"})
           /\ ErrRecent' \in ErrRecentIn("error" \in {read'.kind, read'.poll}, ErrRecent)]_vars
  BY ChoicesStep
<1>. QED
  BY <1>1, SensingHolds, RowHolds, PTL DEF Spec, WithinChoices

=============================================================================
