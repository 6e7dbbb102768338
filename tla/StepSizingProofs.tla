-------------------------- MODULE StepSizingProofs --------------------------
(***************************************************************************)
(* Proofs about StepSizing.tla, for any sizes, rates, windows and limits   *)
(* the configuration allows: what is commanded stays within the budget, a  *)
(* step that settles was driven long enough, and interruptions teach only  *)
(* what they have shown.                                                   *)
(***************************************************************************)
EXTENDS StepSizing, WellFoundedInduction, TLAPS

Sizing ==
  [next : 1..AtLeast(MaxProbe, MinStep), last : (1..MaxStep) \cup {None},
   force : BOOLEAN, known : SUBSET Midpoints]

(* The type invariant in parts.                                             *)

GasOK ==
  /\ act \in Gas /\ devTarget \in Gas
  /\ armed \in BOOLEAN /\ lag \in 0..Grace + 1 /\ onFor \in Ages \cup {None}
  /\ sample \in Samples
MotionOK ==
  /\ step \in StepRecord \cup {None}
  /\ driveAge \in Ages /\ settledFor \in (0..MinSettle + NearExtra) \cup {None}
  /\ quiet \in 0..MinSettle
SizingOK == sizing \in Sizing /\ period \in Periods /\ reduced \in (1..AtLeast(MaxGas, MinStep)) \cup {None}
PauseOK ==
  /\ paused \in BOOLEAN /\ eligible \in BOOLEAN
  /\ obs \in Observation \cup {None}
  /\ learned \in Slowness /\ fair \in Slowness
ChargesOK == recent \in [0..Window -> 0..Hard] /\ commanded \in [0..Window -> 0..Hard]

TypeParts == GasOK /\ MotionOK /\ SizingOK /\ PauseOK /\ ChargesOK

LEMMA TypeIsParts == StepSizingTypeOK <=> TypeParts
BY DEF StepSizingTypeOK, TypeParts, GasOK, MotionOK, SizingOK, PauseOK, ChargesOK, Sizing

-----------------------------------------------------------------------------
(* Numbers.                                                                 *)

LEMMA NumbersKnown ==
  /\ Samples \subseteq Nat /\ Slopes \subseteq Nat /\ None \notin Nat
  /\ Cap \in Nat \ {0} /\ MinStep \in Nat \ {0} /\ Growth \in Nat \ {0}
  /\ StepGrowth \in Nat \ {0} /\ Backoff \in Nat \ {0} /\ Window \in Nat \ {0}
  /\ MaxPeriod \in Nat \ {0} /\ Loose \in Nat \ {0} /\ Tight \in 1..Loose
  /\ NearExtra \in Nat /\ MinSettle \in Nat /\ RampMargin \in Nat /\ Wait \in Nat
  /\ LowWait \in Nat /\ LowCeiling \in Nat /\ Grace \in Nat /\ MaxGas \in Nat
  /\ Initial \in 1..MaxProbe /\ MaxProbe \in Nat /\ MaxProbe <= MaxStep
  /\ MaxStep \in Nat /\ MaxStep <= Hard /\ Hard \in Nat
  /\ Budget \in Nat /\ Budget > Hard
  /\ Periods \subseteq 1..MaxPeriod /\ ProbePeriod \in 1..MaxPeriod
BY StepSizingAssumption

LEMMA QuotientIs ==
  ASSUME NEW x \in Nat, NEW c \in Nat \ {0}
  PROVE  x \div c \in Nat /\ x \div c <= x
OBVIOUS

LEMMA ProductIs ==
  ASSUME NEW x \in Nat, NEW y \in Nat
  PROVE  x * y \in Nat
OBVIOUS

LEMMA LongestKnown == Longest \in Nat /\ Ages = 0..Longest
<1>1. Hard * MaxPeriod \in Nat
  BY NumbersKnown, ProductIs
<1>. QED
  BY <1>1, NumbersKnown DEF Longest, AtLeast, Ages

\* A set of numbers with a bound has a highest one.
LEMMA MaxIs ==
  ASSUME NEW n \in Nat, NEW T \in SUBSET (0..n), T # {}
  PROVE  Max(T) \in T /\ \A x \in T : x <= Max(T)
<1>. DEFINE below == {n - x : x \in T}
<1>1. below \in SUBSET Nat /\ below # {}
  <2>1. \A x \in T : x \in 0..n
    OBVIOUS
  <2>2. \A x \in 0..n : n - x \in Nat
    OBVIOUS
  <2>. QED
    BY <2>1, <2>2
<1>2. PICK y \in below : \A z \in below : ~(<<z, y>> \in OpToRel(<, Nat))
  BY <1>1, NatLessThanWellFounded, WFMin
<1>3. PICK x \in T : y = n - x
  BY <1>2
<1>4. \A z \in T : x >= z
  <2>. SUFFICES ASSUME NEW z \in T PROVE x >= z
    OBVIOUS
  <2>0. x \in 0..n /\ z \in 0..n
    BY <1>3
  <2>1. n - z \in Nat /\ n - x \in Nat
    BY <2>0
  <2>3. n - z \in below
    OBVIOUS
  <2>2. ~(n - z < n - x)
    BY <1>2, <1>3, <2>1, <2>3 DEF OpToRel
  <2>. QED
    BY <2>0, <2>2
<1>5. \E m \in T : \A z \in T : m >= z
  BY <1>4
<1>6. Max(T) \in T /\ \A z \in T : Max(T) >= z
  BY <1>5 DEF Max
<1>. QED
  BY <1>6

-----------------------------------------------------------------------------
(* What the parts of a step leave.                                          *)

LEMMA RatesKnown ==
  ASSUME SizingOK, NEW l \in Slowness, sample' \in Samples, NEW sz
  PROVE  Fastest(sz, l) \in 1..MaxPeriod
<1>. USE NumbersKnown
<1>. DEFINE below == {l[s] : s \in {x \in Samples : x <= sample'}}
            rates == {period, LearnedPeriod(l)} \cup IF Probing(sz) THEN {ProbePeriod} ELSE {}
<1>1. \A s \in Samples : l[s] \in 0..MaxPeriod
  BY DEF Slowness
<1>2. below \in SUBSET (0..MaxPeriod) /\ below # {}
  BY <1>1
<1>3. LearnedPeriod(l) \in 0..MaxPeriod
  <2>1. Max(below) \in below
    <3>. HIDE DEF below
    <3>. QED
      BY <1>2, MaxIs
  <2>. QED
    BY <1>2, <2>1 DEF LearnedPeriod
<1>4. period \in 1..MaxPeriod
  BY DEF SizingOK
<1>5. rates \in SUBSET (0..MaxPeriod) /\ rates # {} /\ period \in rates
  BY <1>3, <1>4
<1>6. Max(rates) \in rates /\ period <= Max(rates)
  <2>. HIDE DEF rates
  <2>. QED
    BY <1>5, MaxIs
<1>7. Max(rates) \in 0..MaxPeriod
  BY <1>5, <1>6
<1>. QED
  BY <1>4, <1>6, <1>7 DEF Fastest

LEMMA LimitKnown ==
  ASSUME NEW sz \in Sizing
  PROVE  Limit(sz) \in Nat /\ Limit(sz) <= MaxStep /\ (sz.force => Limit(sz) <= sz.next)
<1>. USE NumbersKnown
<1>1. sz.next \in Nat /\ sz.last \in (1..MaxStep) \cup {None}
  BY DEF Sizing, AtLeast
<1>2. CASE Probing(sz)
  BY <1>1, <1>2 DEF Limit, AtMost
<1>3. CASE ~Probing(sz)
  <2>1. CASE sz.last = None
    BY <1>3, <2>1 DEF Limit, Probing
  <2>2. CASE sz.last # None
    <3>1. sz.last * StepGrowth \in Nat
      BY <1>1, <2>2, ProductIs
    <3>. QED
      BY <1>3, <2>2, <3>1 DEF Limit, Probing, AtMost
  <2>. QED
    BY <2>1, <2>2
<1>. QED
  BY <1>2, <1>3

LEMMA AgedIs ==
  ASSUME NEW q \in [0..Window -> 0..Hard], NEW x \in 0..Hard
  PROVE  Aged(q, x) \in [0..Window -> 0..Hard] /\ Aged(q, x)[0] = x
BY NumbersKnown DEF Aged

\* A command of a step: its size, what is recorded, and what it is charged.
LEMMA IssueIs ==
  ASSUME ChargesOK, SizingOK, PauseOK, act' \in Gas, sample' \in Samples, devTarget \in Gas,
         NEW sz \in Sizing, NEW base \in Gas, NEW phase \in {"staged", "driven"},
         Issue(sz, base, phase)
  PROVE  /\ step' \in StepRecord /\ step'.phase = phase
         /\ driveAge' = 0 /\ settledFor' = None /\ armed' = armed /\ devTarget' \in Gas
         /\ sizing' \in Sizing /\ sizing'.force = sz.force /\ sizing'.next = sz.next
         /\ ChargesOK'
         /\ commanded'[0] <= Limit(sz)
         /\ \E x \in 0..Hard : /\ WithinBudget(x)
                               /\ recent' = Aged(recent, x) /\ commanded' = Aged(commanded, x)
<1>. USE NumbersKnown
<1>1. PICK size \in MinStep..Limit(sz), rate \in Fastest(sz, learned)..MaxPeriod,
           acked \in BOOLEAN :
        LET after == AtMost(base + size, MaxGas)
            x == after - base
        IN  /\ x >= MinStep /\ x <= Hard
            /\ WithinBudget(x)
            /\ step' = [phase |-> phase, before |-> base, after |-> after, period |-> rate,
                        acked |-> acked, at |-> sample', sampleBefore |-> sample',
                        actBefore |-> act']
            /\ sizing' = [sz EXCEPT !.last = x]
            /\ recent' = Charged(x, acked) /\ commanded' = Aged(commanded, x)
            /\ devTarget' \in IF acked THEN {after} ELSE {devTarget, after}
  BY Zenon DEF Issue
<1>. DEFINE after == AtMost(base + size, MaxGas)
            x == after - base
<1>2. Limit(sz) \in Nat /\ Limit(sz) <= MaxStep
  BY LimitKnown
<1>3. Fastest(sz, learned) \in 1..MaxPeriod
  BY RatesKnown DEF PauseOK
<1>4. base \in 0..MaxGas /\ size \in Nat /\ size <= Limit(sz) /\ rate \in 1..MaxPeriod
  BY <1>2, <1>3 DEF Gas
<1>5. after \in Gas /\ x <= size /\ x \in Int
  BY <1>4 DEF AtMost, Gas
<1>6. /\ x >= MinStep /\ x <= Hard /\ WithinBudget(x)
      /\ step' = [phase |-> phase, before |-> base, after |-> after, period |-> rate,
                  acked |-> acked, at |-> sample', sampleBefore |-> sample',
                  actBefore |-> act']
      /\ sizing' = [sz EXCEPT !.last = x]
      /\ recent' = Aged(recent, x) /\ commanded' = Aged(commanded, x)
      /\ devTarget' \in IF acked THEN {after} ELSE {devTarget, after}
  BY <1>1, Zenon DEF Charged
<1>. HIDE DEF after, x
<1>7. x \in 0..Hard /\ x \in 1..MaxStep /\ x <= Limit(sz)
  BY <1>2, <1>4, <1>5, <1>6
<1>8. step' \in StepRecord /\ step'.phase = phase
  BY <1>4, <1>5, <1>6 DEF StepRecord
<1>9. sizing' \in Sizing /\ sizing'.force = sz.force /\ sizing'.next = sz.next
  BY <1>6, <1>7 DEF Sizing
<1>10. ChargesOK' /\ commanded'[0] = x
  BY <1>6, <1>7, AgedIs DEF ChargesOK
<1>11. devTarget' \in Gas
  BY <1>5, <1>6
<1>12. driveAge' = 0 /\ settledFor' = None /\ armed' = armed
  BY DEF Issue, Begins
<1>. QED
  BY <1>6, <1>7, <1>8, <1>9, <1>10, <1>11, <1>12

\* What is known of sizes after a step has settled, or has been interrupted.
LEMMA AfterSettleIs ==
  ASSUME NEW sz \in Sizing, NEW s \in StepRecord, act' \in Gas, sample' \in Samples
  PROVE  AfterSettle(sz, s) \in Sizing
<1>. USE NumbersKnown
<1>. DEFINE moved == act' - s.actBefore
<1>1. moved \in Int /\ s.sampleBefore \in Samples
  BY DEF StepRecord, Gas
<1>2. Initial \in 1..AtLeast(MaxProbe, MinStep)
  BY DEF AtLeast
<1>3. CASE Responded(s)
  <2>1. s.sampleBefore + sample' \in Midpoints
    <3>1. \A a, b \in Samples : a + b \in Midpoints
      BY DEF Midpoints
    <3>. QED
      BY <1>1, <3>1
  <2>2. (IF moved > 0 THEN sz.known \cup {s.sampleBefore + sample'} ELSE sz.known)
          \in SUBSET Midpoints
    BY <2>1 DEF Sizing
  <2>3. \A k \in SUBSET Midpoints :
          [sz EXCEPT !.next = Initial, !.force = FALSE, !.known = k] \in Sizing
    BY <1>2 DEF Sizing
  <2>4. AfterSettle(sz, s) =
          [sz EXCEPT !.next = Initial, !.force = FALSE,
             !.known = IF moved > 0 THEN sz.known \cup {s.sampleBefore + sample'} ELSE sz.known]
    BY <1>3 DEF AfterSettle
  <2>. QED
    BY <2>2, <2>3, <2>4, Zenon
<1>4. CASE ~Responded(s) /\ moved > 0
  <2>1. moved * Growth \in Nat
    BY <1>1, <1>4, ProductIs
  <2>2. AtMost(AtLeast(Initial, moved * Growth), MaxProbe) \in 1..AtLeast(MaxProbe, MinStep)
    BY <2>1 DEF AtMost, AtLeast
  <2>3. \A n \in 1..AtLeast(MaxProbe, MinStep) : [sz EXCEPT !.next = n] \in Sizing
    BY DEF Sizing
  <2>4. AfterSettle(sz, s) =
          [sz EXCEPT !.next = AtMost(AtLeast(Initial, moved * Growth), MaxProbe)]
    BY <1>4 DEF AfterSettle
  <2>. QED
    BY <2>2, <2>3, <2>4, Zenon
<1>5. CASE ~Responded(s) /\ ~(moved > 0)
  BY <1>5 DEF AfterSettle
<1>. QED
  BY <1>3, <1>4, <1>5

LEMMA AfterInterruptionIs ==
  ASSUME NEW sz \in Sizing, NEW s \in StepRecord, NEW valid, act' \in Gas
  PROVE  /\ AfterInterruption(sz, s, valid) \in Sizing
         /\ AfterInterruption(sz, s, valid).force
         /\ AtLeast(MinStep, AtLeast(0, act' - s.actBefore) \div Backoff)
              \in 1..AtLeast(MaxGas, MinStep)
         /\ AfterInterruption(sz, s, valid).next
              <= AtLeast(MinStep, AtLeast(0, act' - s.actBefore) \div Backoff)
<1>. USE NumbersKnown
<1>. DEFINE m == AtLeast(0, act' - s.actBefore)
            q == m \div Backoff
            n == AtLeast(MinStep, AtMost(Initial, q))
<1>1. m \in 0..MaxGas
  BY DEF StepRecord, Gas, AtLeast
<1>2. q \in Nat /\ q <= MaxGas
  <2>. HIDE DEF m
  <2>. QED
    BY <1>1, QuotientIs
<1>3. AfterInterruption(sz, s, valid) = [sz EXCEPT !.next = n, !.force = TRUE]
  BY DEF AfterInterruption
<1>. HIDE DEF q
<1>4. /\ n \in 1..AtLeast(MaxProbe, MinStep) /\ n <= AtLeast(MinStep, q)
      /\ AtLeast(MinStep, q) \in 1..AtLeast(MaxGas, MinStep)
  BY <1>2 DEF AtLeast, AtMost
<1>. HIDE DEF n
<1>5. /\ [sz EXCEPT !.next = n, !.force = TRUE] \in Sizing
      /\ [sz EXCEPT !.next = n, !.force = TRUE].force
      /\ [sz EXCEPT !.next = n, !.force = TRUE].next = n
  BY <1>4 DEF Sizing
<1>. QED
  BY <1>3, <1>4, <1>5 DEF q

\* What is learned from an observation is a rate, for the pressure it was made at.
LEMMA LearnIs ==
  ASSUME NEW l \in Slowness, NEW o \in Observation
  PROVE  Learn(l, o) \in Slowness
<1>. USE NumbersKnown
<1>1. o.at \in Samples /\ o.peak \in Nat /\ o.period \in Nat
  <2>1. o.at \in Samples /\ o.peak \in Slopes /\ o.period \in 1..MaxPeriod
    BY DEF Observation
  <2>2. Slopes \subseteq Nat /\ 1..MaxPeriod \subseteq Nat
    BY NumbersKnown
  <2>. QED
    BY <2>1, <2>2, Zenon
<1>2. o.peak * o.period \in Nat
  BY <1>1, ProductIs
<1>3. (o.peak * o.period + Cap - 1) \div Cap \in Nat
  BY <1>2, QuotientIs
<1>4. SlowerThan(o) \in 0..MaxPeriod
  BY <1>3 DEF SlowerThan, AtMost
<1>5. AtLeast(l[o.at], SlowerThan(o)) \in 0..MaxPeriod
  BY <1>1, <1>4 DEF Slowness, AtLeast
<1>. QED
  BY <1>1, <1>5 DEF Learn, Slowness

LEMMA FinalizedIs ==
  ASSUME learned \in Slowness, fair \in Slowness, NEW o \in Observation \cup {None}, Finalized(o)
  PROVE  obs' = None /\ learned' \in Slowness /\ fair' \in Slowness
BY LearnIs DEF Finalized

LEMMA SpoiledIs ==
  ASSUME NEW o \in Observation \cup {None}
  PROVE  /\ Spoiled(o) \in Observation \cup {None}
         /\ Spoiled(o) # None => ~Spoiled(o).eligible /\ ~Spoiled(o).clean
<1>1. CASE o = None
  BY <1>1 DEF Spoiled
<1>2. CASE o # None
  <2>1. [[o EXCEPT !.eligible = FALSE] EXCEPT !.clean = FALSE] \in Observation
    BY <1>2 DEF Observation
  <2>2. /\ [[o EXCEPT !.eligible = FALSE] EXCEPT !.clean = FALSE].eligible = FALSE
        /\ [[o EXCEPT !.eligible = FALSE] EXCEPT !.clean = FALSE].clean = FALSE
    BY <1>2 DEF Observation
  <2>. QED
    BY <1>2, <2>1, <2>2 DEF Spoiled, Disqualified
<1>. QED
  BY <1>1, <1>2

Since == (0..MinSettle + NearExtra) \cup {None}

LEMMA SettledSinceIs ==
  ASSUME MotionOK, NEW slope \in Slopes, sample' \in Samples
  PROVE  /\ SettledSince(slope) \in Since
         /\ SettledSince(slope) # None => slope < Loose
BY NumbersKnown DEF SettledSince, MotionOK, Since, AtMost, Settled

LEMMA NothingCommandedIs ==
  ASSUME ChargesOK, recent' = Aged(recent, 0), commanded' = Aged(commanded, 0)
  PROVE  ChargesOK' /\ commanded'[0] = 0
<1>1. 0 \in 0..Hard
  BY NumbersKnown
<1>. QED
  BY <1>1, AgedIs DEF ChargesOK

\* The step that is in flight or staged after the rest of _advance, and what it says of
\* sizes and the device.
LEMMA ApproachIs ==
  ASSUME GasOK, ChargesOK, SizingOK, PauseOK, act' \in Gas, sample' \in Samples,
         driveAge \in Ages,
         NEW s \in StepRecord \cup {None}, NEW since \in Since, NEW sz \in Sizing,
         Approach(s, since, sz)
  PROVE  /\ step' \in StepRecord \cup {None} /\ driveAge' \in Ages /\ settledFor' \in Since
         /\ armed' \in BOOLEAN /\ devTarget' \in Gas
         /\ sizing' \in Sizing /\ sizing'.force = sz.force /\ sizing'.next = sz.next
         /\ ChargesOK'
         /\ commanded'[0] = 0 \/ commanded'[0] <= Limit(sz)
<1>. USE NumbersKnown, LongestKnown
<1>1. 0 \in Ages /\ None \in Since /\ DriveAge \in Ages
  BY DEF DriveAge, AtMost, Since
<1>2. NothingCommanded => ChargesOK' /\ commanded'[0] = 0 /\ devTarget' = devTarget
  BY NothingCommandedIs DEF NothingCommanded
<1>3. armed \in BOOLEAN /\ devTarget \in Gas
  BY DEF GasOK
<1>4. CASE Waits(s, since) /\ sizing' = sz
  BY <1>1, <1>2, <1>3, <1>4 DEF Waits
<1>5. CASE Stopped /\ NothingCommanded /\ sizing' = sz
  BY <1>1, <1>2, <1>3, <1>5 DEF Stopped
<1>6. CASE s # None /\ ~armed /\ Confirm(s) /\ sizing' = sz
  <2>1. [s EXCEPT !.phase = "driven", !.sampleBefore = sample', !.actBefore = act'] \in StepRecord
    BY <1>6 DEF StepRecord
  <2>2. step' \in StepRecord \cup {None} /\ armed' \in BOOLEAN
    BY <1>3, <1>6, <2>1 DEF Confirm
  <2>3. driveAge' = 0 /\ settledFor' = None /\ NothingCommanded
    BY <1>6 DEF Confirm, Begins
  <2>. QED
    BY <1>1, <1>2, <1>3, <1>6, <2>2, <2>3
<1>7. CASE Issue(sz, act', "staged")
  BY <1>1, <1>3, <1>7, IssueIs
<1>8. CASE Issue(sz, devTarget, "driven")
  BY <1>1, <1>3, <1>8, IssueIs
<1>. QED
  BY <1>4, <1>5, <1>6, <1>7, <1>8, Zenon DEF Approach

LEMMA GasMovesIs ==
  ASSUME GasOK, GasMoves
  PROVE  act' \in Gas
<1>1. act \in 0..MaxGas /\ devTarget \in 0..MaxGas /\ MaxGas \in Nat
  BY NumbersKnown DEF GasOK, Gas
<1>2. CASE onFor # None
  <2>1. act' \in act .. AtLeast(act, AtMost(act + 1, devTarget))
    BY <1>2 DEF GasMoves
  <2>2. AtLeast(act, AtMost(act + 1, devTarget)) \in 0..MaxGas
    BY <1>1 DEF AtLeast, AtMost
  <2>. QED
    BY <1>1, <2>1, <2>2 DEF Gas
<1>3. CASE onFor = None
  <2>1. act' \in AtLeast(0, act - 1) .. act
    BY <1>3 DEF GasMoves
  <2>2. AtLeast(0, act - 1) \in 0..MaxGas
    BY <1>1 DEF AtLeast
  <2>. QED
    BY <1>1, <2>1, <2>2 DEF Gas
<1>. QED
  BY <1>2, <1>3

LEMMA ReconciledIs ==
  ASSUME GasOK, Reconciled
  PROVE  onFor' \in Ages \cup {None} /\ lag' \in 0..Grace + 1
<1>. USE NumbersKnown, LongestKnown
<1>1. onFor \in (0..Longest) \cup {None} /\ lag \in 0..Grace + 1
  BY DEF GasOK
<1>. QED
  BY <1>1 DEF Reconciled, AtMost

LEMMA QuietIs ==
  ASSUME MotionOK, NEW slope \in Slopes
  PROVE  Quiet(slope) \in 0..MinSettle /\ AtMost(quiet + 1, MinSettle) \in 0..MinSettle
BY NumbersKnown DEF MotionOK, Quiet, AtMost

\* What the parts of a tick leave to be shown of it.
Kept ==
  /\ MotionOK' /\ SizingOK' /\ PauseOK' /\ ChargesOK'
  /\ armed' \in BOOLEAN /\ devTarget' \in Gas

LEMMA TroubleKeeps ==
  ASSUME TypeParts, TroubleTick, UNCHANGED period
  PROVE  Kept
<1>. USE NumbersKnown, LongestKnown DEF TypeParts
<1>1. ChargesOK' /\ devTarget' = devTarget
  BY NothingCommandedIs DEF TroubleTick, NothingCommanded
<1>2. Spoiled(obs) \in Observation \cup {None}
  BY SpoiledIs DEF PauseOK
<1>3. PauseOK'
  <2>1. CASE paused' = TRUE /\ obs' = Spoiled(obs) /\ UNCHANGED <<learned, fair>>
    BY <1>2, <2>1 DEF PauseOK, TroubleTick
  <2>2. CASE paused' = FALSE /\ Finalized(Spoiled(obs))
    BY <1>2, <2>2, FinalizedIs DEF PauseOK, TroubleTick
  <2>. QED
    BY <2>1, <2>2 DEF TroubleTick
<1>4. /\ armed' = FALSE /\ step' = None /\ driveAge' = 0 /\ settledFor' = None /\ quiet' = 0
      /\ sizing' = sizing /\ reduced' = reduced
  BY DEF TroubleTick, Stopped
<1>5. MotionOK' /\ SizingOK'
  <2>1. 0 \in Ages /\ 0 \in 0..MinSettle
    OBVIOUS
  <2>. QED
    BY <1>4, <2>1 DEF MotionOK, SizingOK
<1>. QED
  BY <1>1, <1>3, <1>4, <1>5 DEF Kept, GasOK

LEMMA RateKeeps ==
  ASSUME TypeParts, act' \in Gas, UNCHANGED period,
         NEW slope \in Slopes, NEW valid \in BOOLEAN, RateTick(slope, valid)
  PROVE  Kept
<1>. USE NumbersKnown, LongestKnown DEF TypeParts
<1>1. ChargesOK'
  BY NothingCommandedIs DEF RateTick
<1>2. /\ paused' = TRUE /\ eligible' = TRUE /\ learned' = learned /\ fair' = fair
      /\ step' = None /\ driveAge' = 0 /\ settledFor' = None /\ quiet' = Quiet(slope)
  BY DEF RateTick
<1>3. armed' \in BOOLEAN /\ devTarget' \in Gas
  BY DEF RateTick, GasOK, HoldAtCurrent
<1>4. MotionOK'
  <2>1. 0 \in Ages
    OBVIOUS
  <2>. QED
    BY <1>2, <2>1, QuietIs DEF MotionOK
<1>5. obs' \in Observation \cup {None} /\ sizing' \in Sizing
      /\ reduced' \in (1..AtLeast(MaxGas, MinStep)) \cup {None}
  <2>1. CASE step # None /\ Interrupted(slope, valid)
    <3>1. step \in StepRecord
      BY <2>1 DEF MotionOK
    <3>2. /\ sizing' = AfterInterruption(sizing, step, valid)
          /\ reduced' = AtLeast(MinStep, AtLeast(0, act' - step.actBefore) \div Backoff)
          /\ \E clean \in BOOLEAN :
               obs' = [at |-> step.at, period |-> step.period, peak |-> slope,
                       eligible |-> clean, clean |-> clean]
      BY <2>1, <3>1 DEF Interrupted, StepRecord
    <3>3. obs' \in Observation
      BY <3>1, <3>2 DEF StepRecord, Observation
    <3>. QED
      BY <3>1, <3>2, <3>3, AfterInterruptionIs DEF SizingOK
  <2>2. CASE step = None /\ obs' = Observed(slope) /\ UNCHANGED <<sizing, reduced>>
    <3>1. obs # None => AtLeast(obs.peak, slope) \in Slopes
      BY DEF PauseOK, Observation, AtLeast
    <3>2. obs' \in Observation \cup {None}
      BY <2>2, <3>1 DEF Observed, PauseOK, Observation
    <3>. QED
      BY <2>2, <3>2 DEF SizingOK
  <2>. QED
    BY <2>1, <2>2 DEF RateTick
<1>. QED
  BY <1>1, <1>2, <1>3, <1>4, <1>5 DEF Kept, SizingOK, PauseOK

LEMMA SafeKeeps ==
  ASSUME TypeParts, act' \in Gas, sample' \in Samples, UNCHANGED period, SafeTick
  PROVE  Kept
<1>. USE NumbersKnown, LongestKnown DEF TypeParts
<1>1. PauseOK'
  BY FinalizedIs DEF SafeTick, PauseOK
<1>2. driveAge \in Ages /\ sizing \in Sizing /\ step \in StepRecord \cup {None} /\ settledFor \in Since
      /\ quiet \in 0..MinSettle
  BY DEF MotionOK, SizingOK, Since
<1>3. CASE BlindTick
  <2>1. DriveAge \in Ages /\ 0 \in Ages /\ None \in Since
    BY <1>2 DEF DriveAge, AtMost, Since
  <2>2. settledFor # None => AtMost(settledFor + 1, MinSettle + NearExtra) \in Since
    BY <1>2 DEF Since, AtMost
  <2>3. /\ step' = step /\ driveAge' \in Ages /\ settledFor' \in Since /\ armed' = armed
        /\ NothingCommanded /\ UNCHANGED <<sizing, reduced>>
        /\ quiet' = AtMost(quiet + 1, MinSettle)
    BY <1>3, <2>1, <2>2 DEF BlindTick, Waits
  <2>4. ChargesOK' /\ devTarget' = devTarget
    BY <2>3, NothingCommandedIs DEF NothingCommanded
  <2>5. quiet' \in 0..MinSettle
    BY <1>2, <2>3 DEF AtMost
  <2>. QED
    BY <1>1, <2>3, <2>4, <2>5 DEF Kept, MotionOK, SizingOK, GasOK, Since
<1>4. ASSUME NEW slope \in Slopes, Advance(slope) PROVE Kept
  <2>. DEFINE driving == step # None /\ step.phase = "driven"
              since == IF driving THEN SettledSince(slope) ELSE None
  <2>1. since \in Since /\ None \in Since
    BY SettledSinceIs DEF Since
  <2>2. quiet' = Quiet(slope)
    BY <1>4 DEF Advance
  <2>3. CASE /\ driving /\ Approach(None, None, AfterSettle(sizing, step)) /\ reduced' = None
    <3>1. AfterSettle(sizing, step) \in Sizing
      BY <1>2, <2>3, AfterSettleIs
    <3>2. /\ step' \in StepRecord \cup {None} /\ driveAge' \in Ages /\ settledFor' \in Since
          /\ armed' \in BOOLEAN /\ devTarget' \in Gas /\ sizing' \in Sizing /\ ChargesOK'
      BY <1>2, <2>1, <2>3, <3>1, ApproachIs
    <3>. QED
      BY <1>1, <1>4, <2>2, <2>3, <3>2, QuietIs DEF Kept, MotionOK, SizingOK, Since
  <2>4. CASE Approach(step, since, sizing) /\ UNCHANGED reduced
    <3>. HIDE DEF since
    <3>1. /\ step' \in StepRecord \cup {None} /\ driveAge' \in Ages /\ settledFor' \in Since
          /\ armed' \in BOOLEAN /\ devTarget' \in Gas /\ sizing' \in Sizing /\ ChargesOK'
      BY <1>2, <2>1, <2>4, ApproachIs
    <3>. QED
      BY <1>1, <1>4, <2>2, <2>4, <3>1, QuietIs DEF Kept, MotionOK, SizingOK, Since
  <2>. QED
    BY <1>4, <2>3, <2>4, Zenon DEF Advance
<1>. QED
  BY <1>3, <1>4 DEF SafeTick

\* An operator's call leaves the physical state and the charges, and drops the step.
LEMMA OperatorKeeps ==
  ASSUME TypeParts, Interrupt \/ Reset
  PROVE  TypeParts'
<1>. USE NumbersKnown, LongestKnown DEF TypeParts
<1>1. /\ armed' = FALSE /\ step' = None /\ driveAge' = 0 /\ settledFor' = None
      /\ onFor' = None /\ lag' = 0 /\ Finalized(Spoiled(obs))
      /\ eligible' \in {eligible, FALSE} /\ paused' \in {paused, FALSE} /\ recent' = recent
      /\ UNCHANGED <<act, devTarget, sample, sizing, period, quiet, commanded, reduced>>
  BY DEF Interrupt, Reset, Stopped, Untimed, RecentAfterReset
<1>2. PauseOK'
  <2>1. Spoiled(obs) \in Observation \cup {None}
    BY SpoiledIs DEF PauseOK
  <2>2. obs' = None /\ learned' \in Slowness /\ fair' \in Slowness
    BY <1>1, <2>1, FinalizedIs DEF PauseOK
  <2>. QED
    BY <1>1, <2>2 DEF PauseOK
<1>3. 0 \in Ages /\ 0 \in 0..Grace + 1
  OBVIOUS
<1>4. GasOK' /\ MotionOK'
  BY <1>1, <1>3 DEF GasOK, MotionOK
<1>5. SizingOK' /\ ChargesOK'
  BY <1>1 DEF SizingOK, ChargesOK
<1>. QED
  BY <1>2, <1>4, <1>5

LEMMA TypesStep == TypeParts /\ [Next]_vars => TypeParts'
<1>. SUFFICES ASSUME TypeParts, [Next]_vars PROVE TypeParts'
  OBVIOUS
<1>1. CASE UNCHANGED vars
  BY <1>1 DEF vars, gas, pause, ghosts, TypeParts, GasOK, MotionOK, SizingOK, PauseOK, ChargesOK
<1>2. CASE Tick
  <2>1. act' \in Gas /\ sample' \in Samples /\ onFor' \in Ages \cup {None} /\ lag' \in 0..Grace + 1
    BY <1>2, GasMovesIs, ReconciledIs DEF Tick, TypeParts, SampleMoves
  <2>2. Kept
    BY <1>2, <2>1, TroubleKeeps, RateKeeps, SafeKeeps DEF Tick
  <2>. QED
    BY <2>1, <2>2 DEF Kept, TypeParts, GasOK
<1>3. CASE Interrupt \/ Reset
  BY <1>3, OperatorKeeps
<1>4. CASE SetRate
  BY <1>4 DEF SetRate, gas, pause, TypeParts, GasOK, MotionOK, SizingOK, PauseOK, ChargesOK
<1>. QED
  BY <1>1, <1>2, <1>3, <1>4 DEF Next

LEMMA TypesInit == Init => TypeParts
<1>. SUFFICES ASSUME Init PROVE TypeParts
  OBVIOUS
<1>. USE NumbersKnown, LongestKnown DEF Init
<1>1. GasOK
  <2>1. 0 \in Gas /\ 0 \in 0..Grace + 1
    BY DEF Gas
  <2>. QED
    BY <2>1, Zenon DEF GasOK
<1>2. MotionOK
  BY DEF MotionOK
<1>3. SizingOK
  <2>1. Initial \in 1..AtLeast(MaxProbe, MinStep)
    BY DEF AtLeast
  <2>. QED
    BY <2>1 DEF SizingOK, Sizing, FreshSizing
<1>4. PauseOK
  <2>1. NoRate \in Slowness
    BY DEF NoRate, Slowness
  <2>. QED
    BY <2>1, Zenon DEF PauseOK
<1>5. ChargesOK
  BY DEF ChargesOK, NoSteps
<1>. QED
  BY <1>1, <1>2, <1>3, <1>4, <1>5 DEF TypeParts

LEMMA TypesHold == Spec => []TypeParts
<1>. QED
  BY TypesInit, TypesStep, PTL DEF Spec

\* Sizes, rates, clocks and charges stay within the limits of the configuration
\* (_maybe_issue_step, _commit_step and SafetySupervisor.on_command_issued), for any
\* configuration its validators accept.
THEOREM StepSizingTypes == Spec => []StepSizingTypeOK
<1>. QED
  BY TypesHold, TypeIsParts, PTL

-----------------------------------------------------------------------------
(* What interruptions teach.                                                *)

\* What may be learned from the observation is what is clean of it.
LearnInv == learned = fair /\ (obs # None => obs.eligible = obs.clean)

\* Finalizing an observation that may be learned from just when it is clean.
LEMMA FinalizedFairly ==
  ASSUME learned = fair, NEW o, o # None => o.eligible = o.clean, Finalized(o)
  PROVE  LearnInv'
BY DEF Finalized, LearnInv

LEMMA LearnStep == TypeParts /\ LearnInv /\ [Next]_vars => LearnInv'
<1>. SUFFICES ASSUME TypeParts, LearnInv, [Next]_vars PROVE LearnInv'
  OBVIOUS
<1>1. obs \in Observation \cup {None} /\ learned = fair /\ (obs # None => obs.eligible = obs.clean)
  BY DEF TypeParts, PauseOK, LearnInv
<1>2. Spoiled(obs) # None => Spoiled(obs).eligible = Spoiled(obs).clean
  BY <1>1, SpoiledIs DEF Observation
<1>3. CASE UNCHANGED vars
  BY <1>1, <1>3 DEF vars, pause, ghosts, LearnInv
<1>4. CASE TroubleTick
  BY <1>1, <1>2, <1>4, FinalizedFairly DEF TroubleTick, LearnInv
<1>5. ASSUME NEW slope \in Slopes, NEW valid \in BOOLEAN, RateTick(slope, valid)
      PROVE  LearnInv'
  <2>1. learned' = fair'
    BY <1>1, <1>5 DEF RateTick
  <2>2. CASE step # None /\ Interrupted(slope, valid)
    BY <2>1, <2>2 DEF Interrupted, LearnInv
  <2>3. CASE obs' = Observed(slope)
    BY <1>1, <2>1, <2>3 DEF Observed, Observation, LearnInv
  <2>. QED
    BY <1>5, <2>2, <2>3 DEF RateTick
<1>6. CASE SafeTick
  BY <1>1, <1>6, FinalizedFairly DEF SafeTick
<1>7. CASE Interrupt \/ Reset
  BY <1>1, <1>2, <1>7, FinalizedFairly DEF Interrupt, Reset
<1>8. CASE SetRate
  BY <1>1, <1>8 DEF SetRate, pause, LearnInv
<1>. QED
  BY <1>3, <1>4, <1>5, <1>6, <1>7, <1>8 DEF Next, Tick

\* However a rate pause is mixed with trouble, resets and calls of the operator, what is
\* learned of the safe rate is what clean interruptions have shown
\* (_observe_interrupted_step, _disqualify_interrupted_rate_learning and
\* _finalize_interrupted_step).
THEOREM OnlyCleanLearned == Spec => []LearnedIsClean
<1>1. Init => LearnInv
  BY DEF Init, LearnInv
<1>2. LearnInv => LearnedIsClean
  BY DEF LearnInv, LearnedIsClean
<1>. QED
  BY <1>1, <1>2, LearnStep, TypesHold, PTL DEF Spec

-----------------------------------------------------------------------------
(* Steps after a rate pause.                                                *)

\* As long as no step has settled, the next one is a probe no greater than what remained
\* of the interrupted one, and none was commanded beyond that.
SmallInv ==
  reduced # None => sizing.force /\ sizing.next <= reduced /\ commanded[0] <= reduced

LEMMA SmallStep == TypeParts /\ SmallInv /\ [Next]_vars => SmallInv'
<1>. SUFFICES ASSUME TypeParts, SmallInv, [Next]_vars PROVE SmallInv'
  OBVIOUS
<1>. USE DEF TypeParts
<1>1. /\ reduced \in (1..AtLeast(MaxGas, MinStep)) \cup {None} /\ sizing \in Sizing
      /\ sizing.next \in Nat
  <2>1. sizing \in Sizing /\ sizing.next \in 1..AtLeast(MaxProbe, MinStep)
    BY DEF SizingOK, Sizing
  <2>. QED
    BY <2>1 DEF SizingOK
<1>2. AtLeast(MaxGas, MinStep) \in Nat
  BY NumbersKnown DEF AtLeast
<1>3. ASSUME UNCHANGED <<sizing, reduced>>, commanded'[0] \in {0, commanded[0]} PROVE SmallInv'
  BY <1>1, <1>2, <1>3 DEF SmallInv
<1>4. recent' = Aged(recent, 0) /\ commanded' = Aged(commanded, 0) => commanded'[0] = 0
  BY NothingCommandedIs
<1>5. CASE UNCHANGED vars
  BY <1>3, <1>5 DEF vars, ghosts
<1>6. CASE TroubleTick
  BY <1>3, <1>4, <1>6 DEF TroubleTick, NothingCommanded
<1>7. ASSUME NEW slope \in Slopes, NEW valid \in BOOLEAN, RateTick(slope, valid), act' \in Gas
      PROVE  SmallInv'
  <2>1. commanded'[0] = 0
    BY <1>4, <1>7 DEF RateTick
  <2>2. CASE step # None /\ Interrupted(slope, valid)
    <3>1. step \in StepRecord
      BY <2>2 DEF MotionOK
    <3>2. /\ sizing' = AfterInterruption(sizing, step, valid)
          /\ reduced' = AtLeast(MinStep, AtLeast(0, act' - step.actBefore) \div Backoff)
      BY <2>2 DEF Interrupted
    <3>3. sizing'.force /\ sizing'.next <= reduced' /\ reduced' \in 1..AtLeast(MaxGas, MinStep)
      BY <1>1, <1>7, <3>1, <3>2, AfterInterruptionIs
    <3>. QED
      BY <1>2, <2>1, <3>3 DEF SmallInv
  <2>3. CASE UNCHANGED <<sizing, reduced>>
    BY <1>3, <2>1, <2>3
  <2>. QED
    BY <1>7, <2>2, <2>3 DEF RateTick
<1>8. ASSUME SafeTick, act' \in Gas, sample' \in Samples PROVE SmallInv'
  <2>1. CASE BlindTick
    BY <1>3, <1>4, <2>1 DEF BlindTick, Waits, NothingCommanded
  <2>2. ASSUME NEW slope \in Slopes, Advance(slope) PROVE SmallInv'
    <3>. DEFINE since == IF step # None /\ step.phase = "driven" THEN SettledSince(slope)
                         ELSE None
    <3>1. CASE reduced' = None
      BY <3>1 DEF SmallInv
    <3>2. CASE Approach(step, since, sizing) /\ UNCHANGED reduced
      <4>1. /\ since \in Since /\ driveAge \in Ages /\ step \in StepRecord \cup {None}
        BY <1>8, SettledSinceIs DEF Since, MotionOK
      <4>. HIDE DEF since
      <4>2. /\ sizing'.force = sizing.force /\ sizing'.next = sizing.next
            /\ commanded'[0] = 0 \/ commanded'[0] <= Limit(sizing)
            /\ ChargesOK'
        BY <1>1, <1>8, <3>2, <4>1, ApproachIs
      <4>3. /\ Limit(sizing) \in Nat
            /\ sizing.force => Limit(sizing) <= sizing.next
        BY <1>1, LimitKnown
      <4>4. commanded'[0] \in Nat
        BY <4>2, NumbersKnown DEF ChargesOK
      <4>. QED
        BY <1>1, <1>2, <3>2, <4>2, <4>3, <4>4 DEF SmallInv
    <3>. QED
      BY <2>2, <3>1, <3>2, Zenon DEF Advance
  <2>. QED
    BY <1>8, <2>1, <2>2 DEF SafeTick
<1>9. CASE Tick
  <2>1. act' \in Gas /\ sample' \in Samples
    BY <1>9, GasMovesIs DEF Tick, SampleMoves
  <2>. QED
    BY <1>6, <1>7, <1>8, <1>9, <2>1 DEF Tick
<1>10. CASE Interrupt \/ Reset
  BY <1>3, <1>10 DEF Interrupt, Reset, Untimed
<1>11. CASE SetRate
  BY <1>3, <1>11 DEF SetRate
<1>. QED
  BY <1>5, <1>9, <1>10, <1>11 DEF Next

\* After a rate pause no step that is commanded exceeds what remained of the interrupted
\* one, however often it is tried, until one has settled (_abandon_motion's back-off and
\* the forced probe of _maybe_issue_step).
THEOREM SmallerUntilSettled == Spec => []SmallerAfterRatePause
<1>1. Init => SmallInv
  BY DEF Init, SmallInv
<1>2. SmallInv => SmallerAfterRatePause
  BY DEF SmallInv, SmallerAfterRatePause
<1>. QED
  BY <1>1, <1>2, SmallStep, TypesHold, PTL DEF Spec

-----------------------------------------------------------------------------
(* The budget.                                                              *)

\* What holds of 0, and of each number after one it holds of, holds up to n.
LEMMA UpTo ==
  ASSUME NEW n \in Nat, NEW S, 0 \in S, \A a \in 0..n : a + 1 <= n /\ a \in S => a + 1 \in S
  PROVE  \A a \in 0..n : a \in S
<1>. DEFINE rest == {a \in 0..n : a \notin S}
<1>. SUFFICES ASSUME rest # {} PROVE FALSE
  OBVIOUS
<1>1. rest \in SUBSET Nat
  OBVIOUS
<1>2. PICK x \in rest : \A y \in rest : ~(<<y, x>> \in OpToRel(<, Nat))
  <2>. HIDE DEF rest
  <2>. QED
    BY <1>1, NatLessThanWellFounded, WFMin
<1>3. x \in 0..n /\ x \notin S
  BY <1>2
<1>4. x # 0
  BY <1>3
<1>5. x - 1 \in 0..n /\ x - 1 \in Nat /\ x \in Nat /\ x - 1 < x /\ (x - 1) + 1 = x
  BY <1>3, <1>4
<1>6. x - 1 \notin rest
  BY <1>2, <1>5 DEF OpToRel
<1>. QED
  BY <1>3, <1>5, <1>6

\* The sums of a queue of steps, up to each age.
SumsFit(f, q, n) == f = [a \in 0..n |-> IF a = 0 THEN q[0] ELSE f[a - 1] + q[a]]
Sums(q) == CHOOSE f : SumsFit(f, q, Window)

LEMMA SumsAre ==
  ASSUME NEW q \in [0..Window -> 0..Hard]
  PROVE  /\ Sums(q)[0] = q[0]
         /\ \A a \in 1..Window : Sums(q)[a] = Sums(q)[a - 1] + q[a]
         /\ \A a \in 0..Window : Sums(q)[a] \in Nat
         /\ SumOf(q) = Sums(q)[Window]
<1>. USE NumbersKnown
<1>1. \A n \in 0..Window : n \in {m \in 0..Window : \E f : SumsFit(f, q, m)}
  <2>. DEFINE fitted == {m \in 0..Window : \E f : SumsFit(f, q, m)}
  <2>1. 0 \in fitted
    <3>1. SumsFit([a \in 0..0 |-> q[0]], q, 0)
      BY DEF SumsFit
    <3>. QED
      BY <3>1
  <2>2. ASSUME NEW m \in 0..Window, m + 1 <= Window, m \in fitted
        PROVE  m + 1 \in fitted
    <3>1. PICK f : SumsFit(f, q, m)
      BY <2>2
    <3>. DEFINE g == [a \in 0..m + 1 |-> IF a = m + 1 THEN f[m] + q[m + 1] ELSE f[a]]
    <3>2. \A a \in 0..m : f[a] = IF a = 0 THEN q[0] ELSE f[a - 1] + q[a]
      BY <3>1 DEF SumsFit
    <3>3. \A a \in 0..m + 1 : g[a] = IF a = 0 THEN q[0] ELSE g[a - 1] + q[a]
      <4>. SUFFICES ASSUME NEW a \in 0..m + 1
                    PROVE  g[a] = IF a = 0 THEN q[0] ELSE g[a - 1] + q[a]
        OBVIOUS
      <4>1. CASE a = m + 1
        BY <4>1
      <4>2. CASE a \in 0..m
        BY <3>2, <4>2
      <4>. QED
        BY <4>1, <4>2
    <3>4. g = [a \in 0..m + 1 |-> IF a = 0 THEN q[0] ELSE g[a - 1] + q[a]]
      BY <3>3
    <3>5. SumsFit(g, q, m + 1)
      <4>. HIDE DEF g
      <4>. QED
        BY <3>4 DEF SumsFit
    <3>6. m + 1 \in 0..Window
      BY <2>2
    <3>. QED
      BY <3>5, <3>6
  <2>. HIDE DEF fitted
  <2>3. \A n \in 0..Window : n \in fitted
    BY <2>1, <2>2, UpTo
  <2>. QED
    BY <2>3 DEF fitted
<1>2. SumsFit(Sums(q), q, Window)
  <2>1. \E f : SumsFit(f, q, Window)
    BY <1>1
  <2>. QED
    BY <2>1 DEF Sums
<1>3. \A a \in 0..Window : Sums(q)[a] = IF a = 0 THEN q[0] ELSE Sums(q)[a - 1] + q[a]
  <2>. DEFINE f == Sums(q)
  <2>1. f = [a \in 0..Window |-> IF a = 0 THEN q[0] ELSE f[a - 1] + q[a]]
    BY <1>2 DEF SumsFit
  <2>. HIDE DEF f
  <2>2. \A a \in 0..Window : f[a] = IF a = 0 THEN q[0] ELSE f[a - 1] + q[a]
    BY <2>1
  <2>. QED
    BY <2>2 DEF f
<1>4. \A a \in 0..Window : a \in {b \in 0..Window : Sums(q)[b] \in Nat}
  <2>. DEFINE counted == {b \in 0..Window : Sums(q)[b] \in Nat}
  <2>1. 0 \in counted
    BY <1>3
  <2>2. ASSUME NEW a \in 0..Window, a + 1 <= Window, a \in counted
        PROVE  a + 1 \in counted
    <3>1. a + 1 \in 0..Window /\ a + 1 # 0 /\ (a + 1) - 1 = a
      BY <2>2
    <3>2. Sums(q)[a + 1] = Sums(q)[a] + q[a + 1] /\ q[a + 1] \in Nat
      BY <1>3, <3>1
    <3>. QED
      BY <2>2, <3>1, <3>2
  <2>. HIDE DEF counted
  <2>3. \A a \in 0..Window : a \in counted
    BY <2>1, <2>2, UpTo
  <2>. QED
    BY <2>3 DEF counted
<1>5. SumOf(q) = Sums(q)[Window]
  BY DEF SumOf, Sums, SumsFit
<1>. QED
  BY <1>3, <1>4, <1>5

\* When time passes and nothing is commanded, what is charged does not grow.
LEMMA AgingSheds ==
  ASSUME NEW q \in [0..Window -> 0..Hard]
  PROVE  SumOf(Aged(q, 0)) <= SumOf(q) /\ SumOf(q) \in Nat /\ SumOf(Aged(q, 0)) \in Nat
<1>. USE NumbersKnown
<1>. DEFINE p == Aged(q, 0)
<1>1. p \in [0..Window -> 0..Hard] /\ p[0] = 0 /\ \A a \in 1..Window : p[a] = q[a - 1]
  <2>1. p \in [0..Window -> 0..Hard] /\ p[0] = 0
    <3>1. 0 \in 0..Hard
      OBVIOUS
    <3>. QED
      BY <3>1, AgedIs
  <2>2. \A a \in 0..Window : p[a] = IF a = 0 THEN 0 ELSE q[a - 1]
    BY DEF Aged
  <2>3. \A a \in 1..Window : a \in 0..Window /\ a # 0
    OBVIOUS
  <2>. QED
    BY <2>1, <2>2, <2>3
<1>. HIDE DEF p
<1>2. /\ Sums(q)[0] = q[0]
      /\ \A a \in 1..Window : Sums(q)[a] = Sums(q)[a - 1] + q[a]
      /\ \A a \in 0..Window : Sums(q)[a] \in Nat
      /\ SumOf(q) = Sums(q)[Window]
  BY SumsAre
<1>3. /\ Sums(p)[0] = 0
      /\ \A a \in 1..Window : Sums(p)[a] = Sums(p)[a - 1] + q[a - 1]
      /\ \A a \in 0..Window : Sums(p)[a] \in Nat
      /\ SumOf(p) = Sums(p)[Window]
  BY <1>1, SumsAre
<1>. DEFINE behind == {a \in 0..Window : a = 0 \/ Sums(p)[a] = Sums(q)[a - 1]}
<1>4. 0 \in behind
  OBVIOUS
<1>5. ASSUME NEW a \in 0..Window, a + 1 <= Window, a \in behind
      PROVE  a + 1 \in behind
  <2>1. a + 1 \in 1..Window /\ a + 1 \in 0..Window /\ (a + 1) - 1 = a
    BY <1>5
  <2>2. Sums(p)[a + 1] = Sums(p)[a] + q[a]
    BY <1>3, <2>1
  <2>3. CASE a = 0
    <3>1. Sums(p)[a + 1] = Sums(q)[a]
      BY <1>2, <1>3, <2>2, <2>3
    <3>. QED
      BY <2>1, <3>1
  <2>4. CASE a # 0
    <3>1. a \in 1..Window /\ Sums(p)[a] = Sums(q)[a - 1]
      BY <1>5, <2>4
    <3>2. Sums(p)[a + 1] = Sums(q)[a]
      BY <1>2, <2>2, <3>1
    <3>. QED
      BY <2>1, <3>2
  <2>. QED
    BY <2>3, <2>4
<1>6. \A a \in 0..Window : a \in behind
  <2>. HIDE DEF behind
  <2>. QED
    BY <1>4, <1>5, UpTo
<1>7. Window \in 1..Window /\ Window \in 0..Window /\ Window - 1 \in 0..Window /\ Window # 0
  OBVIOUS
<1>8. Sums(p)[Window] = Sums(q)[Window - 1]
  BY <1>6, <1>7
<1>9. Sums(q)[Window] = Sums(q)[Window - 1] + q[Window] /\ q[Window] \in Nat
  BY <1>2, <1>7
<1>10. Sums(p)[Window] <= Sums(q)[Window]
  BY <1>2, <1>7, <1>8, <1>9
<1>. QED
  BY <1>2, <1>3, <1>7, <1>10 DEF p

\* Every step that was commanded is charged, and the charges fit.
BudgetInv == commanded = recent /\ SumOf(recent) <= Budget

LEMMA BudgetStep == TypeParts /\ BudgetInv /\ [Next]_vars => BudgetInv'
<1>. SUFFICES ASSUME TypeParts, BudgetInv, [Next]_vars PROVE BudgetInv'
  OBVIOUS
<1>. USE DEF TypeParts
<1>1. /\ recent \in [0..Window -> 0..Hard] /\ commanded = recent /\ SumOf(recent) <= Budget
      /\ Budget \in Nat
  BY NumbersKnown DEF ChargesOK, BudgetInv
<1>2. ASSUME recent' = Aged(recent, 0), commanded' = Aged(commanded, 0) PROVE BudgetInv'
  <2>1. SumOf(Aged(recent, 0)) <= Budget
    <3>1. /\ SumOf(Aged(recent, 0)) <= SumOf(recent) /\ SumOf(recent) \in Nat
          /\ SumOf(Aged(recent, 0)) \in Nat
      BY <1>1, AgingSheds
    <3>. QED
      BY <1>1, <3>1
  <2>. QED
    BY <1>1, <1>2, <2>1 DEF BudgetInv
<1>3. ASSUME NEW x, WithinBudget(x), recent' = Aged(recent, x), commanded' = Aged(commanded, x)
      PROVE  BudgetInv'
  BY <1>1, <1>3 DEF BudgetInv, WithinBudget
<1>4. ASSUME UNCHANGED <<recent, commanded>> PROVE BudgetInv'
  BY <1>1, <1>4 DEF BudgetInv
<1>5. CASE UNCHANGED vars
  BY <1>4, <1>5 DEF vars, ghosts
<1>6. ASSUME TroubleTick \/ \E slope \in Slopes, valid \in BOOLEAN : RateTick(slope, valid)
      PROVE  BudgetInv'
  BY <1>2, <1>6 DEF TroubleTick, RateTick, NothingCommanded
<1>7. ASSUME SafeTick, act' \in Gas, sample' \in Samples PROVE BudgetInv'
  <2>1. CASE BlindTick
    BY <1>2, <2>1 DEF BlindTick, Waits, NothingCommanded
  <2>2. ASSUME NEW s, NEW since, NEW sz \in Sizing, Approach(s, since, sz) PROVE BudgetInv'
    <3>1. CASE NothingCommanded
      BY <1>2, <3>1 DEF NothingCommanded
    <3>2. CASE Issue(sz, act', "staged") \/ Issue(sz, devTarget, "driven")
      <4>1. \E x \in 0..Hard : /\ WithinBudget(x)
                               /\ recent' = Aged(recent, x) /\ commanded' = Aged(commanded, x)
        BY <1>7, <3>2, IssueIs DEF GasOK
      <4>. QED
        BY <1>3, <4>1
    <3>. QED
      BY <2>2, <3>1, <3>2 DEF Approach, Waits, Confirm
  <2>3. ASSUME NEW slope \in Slopes, Advance(slope) PROVE BudgetInv'
    <3>1. sizing \in Sizing
      BY DEF SizingOK
    <3>2. CASE step # None /\ Approach(None, None, AfterSettle(sizing, step))
      <4>1. AfterSettle(sizing, step) \in Sizing
        BY <1>7, <3>1, <3>2, AfterSettleIs DEF MotionOK
      <4>. QED
        BY <2>2, <3>2, <4>1
    <3>3. CASE \E since : Approach(step, since, sizing)
      BY <2>2, <3>1, <3>3
    <3>. QED
      BY <2>3, <3>2, <3>3, Zenon DEF Advance
  <2>. QED
    BY <1>7, <2>1, <2>3 DEF SafeTick
<1>8. CASE Tick
  <2>1. act' \in Gas /\ sample' \in Samples
    BY <1>8, GasMovesIs DEF Tick, SampleMoves
  <2>. QED
    BY <1>6, <1>7, <1>8, <2>1 DEF Tick
<1>9. CASE Interrupt \/ Reset
  BY <1>4, <1>9 DEF Interrupt, Reset, Untimed, RecentAfterReset
<1>10. CASE SetRate
  BY <1>4, <1>10 DEF SetRate
<1>. QED
  BY <1>5, <1>8, <1>9, <1>10 DEF Next

\* Nothing has been commanded at the start.
LEMMA BudgetInit == Init => BudgetInv
<1>. SUFFICES ASSUME Init PROVE BudgetInv
  OBVIOUS
<1>. USE NumbersKnown
<1>1. NoSteps \in [0..Window -> 0..Hard] /\ Aged(NoSteps, 0) = NoSteps
  BY DEF NoSteps, Aged
<1>2. \A a \in 0..Window : NoSteps[a] = 0
  BY DEF NoSteps
<1>3. /\ Sums(NoSteps)[0] = NoSteps[0]
      /\ \A a \in 1..Window : Sums(NoSteps)[a] = Sums(NoSteps)[a - 1] + NoSteps[a]
      /\ SumOf(NoSteps) = Sums(NoSteps)[Window]
  BY <1>1, SumsAre
<1>. DEFINE empty == {a \in 0..Window : Sums(NoSteps)[a] = 0}
<1>4. 0 \in empty
  BY <1>2, <1>3
<1>5. ASSUME NEW a \in 0..Window, a + 1 <= Window, a \in empty PROVE a + 1 \in empty
  <2>1. a + 1 \in 1..Window /\ a + 1 \in 0..Window /\ (a + 1) - 1 = a
    BY <1>5
  <2>2. Sums(NoSteps)[a + 1] = Sums(NoSteps)[a] + 0
    BY <1>2, <1>3, <2>1
  <2>. QED
    BY <1>5, <2>1, <2>2
<1>6. Window \in empty
  <2>. HIDE DEF empty
  <2>. QED
    <3>1. \A a \in 0..Window : a \in empty
      BY <1>4, <1>5, UpTo
    <3>. QED
      BY <3>1
<1>. QED
  BY <1>3, <1>6 DEF Init, BudgetInv

\* However steps are interrupted, discarded, lost or reset, no more gas is commanded
\* within the window than max_cumulative_step_mpa (check_command and on_command_issued).
THEOREM BudgetIsKept == Spec => []BudgetHolds
<1>1. BudgetInv => BudgetHolds
  BY DEF BudgetInv, BudgetHolds
<1>. QED
  BY <1>1, BudgetInit, BudgetStep, TypesHold, PTL DEF Spec

-----------------------------------------------------------------------------
(* Settling.                                                                *)

\* A step that is driven has been so for no longer than Control has been asked for, and
\* its clock is at most the grace ahead of Control.
DriveClock ==
  step # None /\ step.phase = "driven" =>
    /\ armed
    /\ IF onFor = None THEN driveAge + 1 <= lag ELSE driveAge <= onFor + Grace

\* A trace that has been settled for a while has been flat for longer.
FlatSince == settledFor # None => quiet >= AtMost(settledFor + 1, MinSettle)

ClockInv == DriveClock /\ FlatSince /\ (~armed => onFor = None) /\ SettledIsReal

\* Control, at the end of a tick.
LEMMA ControlAfter ==
  ASSUME GasOK, Reconciled, armed' \in BOOLEAN
  PROVE  /\ ~armed' => onFor' = None
         /\ armed' /\ onFor # None =>
              onFor' # None /\ onFor' \in 0..Longest /\ onFor' = AtMost(onFor + 1, Longest)
         /\ armed' /\ onFor = None => \/ onFor' = 0 /\ onFor' # None
                                      \/ onFor' = None /\ lag' = AtMost(lag + 1, Grace + 1)
<1>. USE LongestKnown, NumbersKnown
<1>1. onFor \in (0..Longest) \cup {None}
  BY DEF GasOK
<1>2. onFor # None => AtMost(onFor + 1, Longest) \in 0..Longest
  BY <1>1 DEF AtMost
<1>3. 0 # None /\ \A x \in 0..Longest : x # None
  OBVIOUS
<1>. QED
  BY <1>2, <1>3 DEF Reconciled

\* The clock of a step that goes on, in a tick that the handshake allows.
LEMMA ClockGoesOn ==
  ASSUME GasOK, MotionOK, DriveClock, ~armed => onFor = None, lag <= Grace,
         Reconciled, armed' = armed, armed \in BOOLEAN, step' = step,
         driveAge' = IF step = None THEN 0 ELSE DriveAge
  PROVE  DriveClock'
<1>. SUFFICES ASSUME step' # None, step'.phase = "driven"
     PROVE  /\ armed'
            /\ IF onFor' = None THEN driveAge' + 1 <= lag' ELSE driveAge' <= onFor' + Grace
  BY DEF DriveClock
<1>. USE LongestKnown, NumbersKnown
<1>1. /\ armed /\ step # None
      /\ IF onFor = None THEN driveAge + 1 <= lag ELSE driveAge <= onFor + Grace
  BY DEF DriveClock
<1>2. /\ driveAge \in 0..Longest /\ lag \in Nat /\ onFor \in (0..Longest) \cup {None}
  BY DEF GasOK, MotionOK
<1>3. driveAge' = AtMost(driveAge + 1, Longest)
  BY <1>1 DEF DriveAge
<1>4. CASE onFor # None
  <2>1. onFor' # None /\ onFor' = AtMost(onFor + 1, Longest)
    BY <1>1, <1>4, ControlAfter
  <2>2. driveAge <= onFor + Grace /\ onFor \in 0..Longest
    BY <1>1, <1>2, <1>4
  <2>3. AtMost(driveAge + 1, Longest) <= AtMost(onFor + 1, Longest) + Grace
    BY <1>2, <2>2 DEF AtMost
  <2>. QED
    BY <1>1, <1>3, <2>1, <2>3
<1>5. CASE onFor = None
  <2>1. AtMost(driveAge + 1, Longest) <= lag
    BY <1>1, <1>2, <1>5 DEF AtMost
  <2>2. \/ onFor' = 0 /\ onFor' # None
        \/ onFor' = None /\ lag' = AtMost(lag + 1, Grace + 1)
    BY <1>1, <1>5, ControlAfter
  <2>3. CASE onFor' = 0 /\ onFor' # None
    BY <1>1, <1>2, <1>3, <2>1, <2>3 DEF AtMost
  <2>4. CASE onFor' = None /\ lag' = AtMost(lag + 1, Grace + 1)
    <3>1. AtMost(lag + 1, Grace + 1) = lag + 1
      BY <1>2 DEF AtMost
    <3>2. AtMost(driveAge + 1, Longest) + 1 <= lag + 1
      BY <1>2, <2>1 DEF AtMost
    <3>. QED
      BY <1>1, <1>3, <2>4, <3>1, <3>2
  <2>. QED
    BY <2>2, <2>3, <2>4
<1>. QED
  BY <1>4, <1>5

\* The clock of a step that is driven from this tick on.
LEMMA ClockBegins ==
  ASSUME GasOK, Reconciled, driveAge' = 0, armed' = TRUE
  PROVE  DriveClock'
<1>. USE LongestKnown, NumbersKnown
<1>1. CASE onFor # None
  <2>1. onFor' # None /\ onFor' \in 0..Longest
    BY <1>1, ControlAfter
  <2>2. \A x \in 0..Longest : 0 <= x + Grace
    OBVIOUS
  <2>. QED
    BY <2>1, <2>2 DEF DriveClock
<1>2. CASE onFor = None
  <2>1. \/ onFor' = 0 /\ onFor' # None
        \/ onFor' = None /\ lag' = AtMost(lag + 1, Grace + 1)
    BY <1>2, ControlAfter
  <2>2. lag \in Nat /\ AtMost(lag + 1, Grace + 1) >= 1
    BY DEF GasOK, AtMost
  <2>. QED
    BY <2>1, <2>2 DEF DriveClock
<1>. QED
  BY <1>1, <1>2

LEMMA ApproachClock ==
  ASSUME TypeParts, ClockInv, lag <= Grace, Reconciled, act' \in Gas, sample' \in Samples,
         armed' \in BOOLEAN, NEW s \in {step, None}, NEW since, NEW sz \in Sizing,
         Approach(s, since, sz)
  PROVE  DriveClock'
<1>. USE DEF TypeParts, ClockInv
<1>1. armed \in BOOLEAN /\ devTarget \in Gas
  BY DEF GasOK
<1>2. step' = None \/ step'.phase # "driven" => DriveClock'
  BY DEF DriveClock
<1>3. CASE Waits(s, since)
  <2>1. CASE s = None
    BY <1>2, <1>3, <2>1 DEF Waits
  <2>2. CASE s = step
    <3>1. step' = step /\ armed' = armed /\ driveAge' = IF step = None THEN 0 ELSE DriveAge
      BY <1>3, <2>2 DEF Waits
    <3>. QED
      BY <1>1, <3>1, ClockGoesOn
  <2>. QED
    BY <2>1, <2>2
<1>4. CASE Stopped
  BY <1>2, <1>4 DEF Stopped
<1>5. CASE Confirm(s)
  <2>1. driveAge' = 0 /\ (armed' = TRUE \/ step' = None)
    BY <1>5 DEF Confirm, Begins
  <2>. QED
    BY <1>2, <2>1, ClockBegins
<1>6. CASE Issue(sz, act', "staged")
  <2>1. step'.phase = "staged"
    BY <1>1, <1>6, IssueIs
  <2>. QED
    BY <1>2, <2>1
<1>7. CASE armed /\ Issue(sz, devTarget, "driven")
  <2>1. driveAge' = 0 /\ armed' = TRUE
    BY <1>1, <1>7 DEF Issue, Begins
  <2>. QED
    BY <2>1, ClockBegins
<1>. QED
  BY <1>3, <1>4, <1>5, <1>6, <1>7, Zenon DEF Approach

\* A slope that counts as settled has flat slopes behind it, for as long as it counts.
LEMMA SettledWhileFlat ==
  ASSUME MotionOK, FlatSince, sample' \in Samples,
         NEW slope \in Slopes, quiet' = Quiet(slope), SettledSince(slope) # None
  PROVE  /\ quiet' >= AtMost(SettledSince(slope) + 1, MinSettle)
         /\ SettledSince(slope) >= SettleTime => quiet' = MinSettle
<1>. USE NumbersKnown
<1>1. /\ slope < Loose /\ slope \in Nat
      /\ SettledSince(slope) = IF settledFor = None THEN 0
                               ELSE AtMost(settledFor + 1, MinSettle + NearExtra)
  BY DEF SettledSince, Settled
<1>2. quiet \in 0..MinSettle /\ settledFor \in (0..MinSettle + NearExtra) \cup {None}
  BY DEF MotionOK
<1>3. ~(slope >= Loose)
  BY <1>1
<1>4. quiet' = AtMost(quiet + 1, MinSettle)
  BY <1>3 DEF Quiet
<1>5. SettleTime \in Nat /\ SettleTime >= MinSettle
  BY DEF SettleTime
<1>6. CASE settledFor = None
  <2>1. AtMost(quiet + 1, MinSettle) >= AtMost(0 + 1, MinSettle)
    BY <1>2 DEF AtMost
  <2>2. 0 >= SettleTime => AtMost(quiet + 1, MinSettle) = MinSettle
    BY <1>2, <1>5 DEF AtMost
  <2>. QED
    BY <1>1, <1>4, <1>6, <2>1, <2>2
<1>7. CASE settledFor # None
  <2>. DEFINE f == AtMost(settledFor + 1, MinSettle + NearExtra)
  <2>1. quiet >= AtMost(settledFor + 1, MinSettle) /\ settledFor \in Nat
    BY <1>2, <1>7 DEF FlatSince
  <2>2. AtMost(quiet + 1, MinSettle) >= AtMost(f + 1, MinSettle)
    BY <1>2, <2>1 DEF AtMost
  <2>3. f >= SettleTime => AtMost(quiet + 1, MinSettle) = MinSettle
    BY <1>2, <1>5, <2>1 DEF AtMost
  <2>. QED
    BY <1>1, <1>4, <1>7, <2>2, <2>3
<1>. QED
  BY <1>6, <1>7

\* A step that settles has been driven long enough.
LEMMA SettlesReally ==
  ASSUME TypeParts, ClockInv, lag <= Grace, act' \in Gas, sample' \in Samples,
         NEW slope \in Slopes, step # None, step.phase = "driven",
         Settles(step, SettledSince(slope)), quiet' = Quiet(slope), report' = Report(step)
  PROVE  SettledIsReal'
<1>. USE NumbersKnown, LongestKnown DEF TypeParts, ClockInv
<1>1. quiet' = MinSettle
  BY SettledWhileFlat DEF Settles
<1>2. /\ act' >= step.after /\ SettleTime \in Nat /\ SettleTime >= MinSettle
      /\ DriveAge >= AtLeast(SettleTime, RampTime(step))
      /\ ~Responded(step) => DriveAge >= RampTime(step) + NoResponseWait(step)
  BY DEF Settles, SettleTime
<1>3. step \in StepRecord
  BY DEF MotionOK
<1>4. RampTime(step) \in Int /\ NoResponseWait(step) \in Nat
  <2>1. Size(step) \in Int /\ step.period \in Int
    BY <1>3 DEF StepRecord, Gas, Size
  <2>2. Size(step) * step.period \in Int
    BY <2>1
  <2>. QED
    BY <2>2 DEF RampTime, NoResponseWait, AtMost
<1>. DEFINE driven == IF onFor = None THEN 0 ELSE AtMost(onFor + 1, DriveAge)
<1>5. driven + Grace >= DriveAge /\ DriveAge \in Nat /\ driven \in Nat
  <2>1. IF onFor = None THEN driveAge + 1 <= lag ELSE driveAge <= onFor + Grace
    BY DEF DriveClock
  <2>2. driveAge \in 0..Longest /\ lag \in Nat /\ onFor \in (0..Longest) \cup {None}
    BY DEF GasOK, MotionOK
  <2>3. DriveAge \in Nat /\ DriveAge <= driveAge + 1
    BY <2>2 DEF DriveAge, AtMost
  <2>. QED
    BY <2>1, <2>2, <2>3 DEF AtMost
<1>. HIDE DEF driven
<1>6. /\ report'.act = act' /\ report'.after = step.after /\ report'.driven = driven
      /\ report'.ramp = RampTime(step) /\ report'.wait = NoResponseWait(step)
      /\ report'.responded = Responded(step)
  BY DEF Report, driven
<1>7. driven + Grace >= AtLeast(MinSettle, RampTime(step))
  BY <1>2, <1>4, <1>5 DEF AtLeast
<1>8. ~Responded(step) => driven + Grace >= RampTime(step) + NoResponseWait(step)
  BY <1>2, <1>4, <1>5
<1>9. quiet' >= MinSettle
  BY <1>1
<1>. QED
  BY <1>2, <1>6, <1>7, <1>8, <1>9 DEF SettledIsReal

LEMMA ClockStep == TypeParts /\ ClockInv /\ [Next]_vars => ClockInv'
<1>. SUFFICES ASSUME TypeParts, ClockInv, [Next]_vars PROVE ClockInv'
  OBVIOUS
<1>. USE NumbersKnown, LongestKnown DEF TypeParts
<1>1. DriveClock /\ FlatSince /\ (~armed => onFor = None) /\ SettledIsReal /\ TypeParts'
  BY TypesStep DEF ClockInv
<1>2. ASSUME step' = None, settledFor' = None, ~armed' => onFor' = None, report' = None
      PROVE  ClockInv'
  BY <1>2 DEF ClockInv, DriveClock, FlatSince, SettledIsReal
<1>3. CASE UNCHANGED vars
  BY <1>1, <1>3 DEF vars, gas, ghosts, ClockInv, DriveClock, FlatSince, SettledIsReal
<1>4. CASE Tick
  <2>1. /\ act' \in Gas /\ sample' \in Samples /\ Reconciled
        /\ armed' \in BOOLEAN /\ GasOK
    BY <1>1, <1>4, GasMovesIs DEF Tick, SampleMoves, GasOK
  <2>2. ~armed' => onFor' = None
    BY <2>1, ControlAfter
  <2>3. CASE TroubleTick
    BY <1>2, <2>2, <2>3 DEF TroubleTick, Stopped
  <2>4. CASE \E slope \in Slopes, valid \in BOOLEAN : RateTick(slope, valid)
    BY <1>2, <2>2, <2>4 DEF RateTick
  <2>5. CASE SafeTick /\ BlindTick
    <3>1. /\ step' = step /\ armed' = armed /\ driveAge' = (IF step = None THEN 0 ELSE DriveAge)
          /\ lag <= Grace /\ report' = None /\ quiet' = AtMost(quiet + 1, MinSettle)
          /\ settledFor' \in {None, IF settledFor = None THEN None
                                    ELSE AtMost(settledFor + 1, MinSettle + NearExtra)}
      BY <2>5 DEF SafeTick, BlindTick, Waits
    <3>2. DriveClock'
      BY <1>1, <2>1, <3>1, ClockGoesOn DEF GasOK
    <3>3. FlatSince'
      <4>1. CASE settledFor' = None
        BY <4>1 DEF FlatSince
      <4>2. CASE settledFor' # None
        <5>1. /\ settledFor # None /\ settledFor \in Nat /\ quiet \in 0..MinSettle
              /\ settledFor' = AtMost(settledFor + 1, MinSettle + NearExtra)
              /\ quiet >= AtMost(settledFor + 1, MinSettle)
          BY <1>1, <3>1, <4>2 DEF FlatSince, MotionOK
        <5>2. AtMost(quiet + 1, MinSettle)
                >= AtMost(AtMost(settledFor + 1, MinSettle + NearExtra) + 1, MinSettle)
          BY <5>1 DEF AtMost
        <5>. QED
          BY <3>1, <5>1, <5>2 DEF FlatSince
      <4>. QED
        BY <4>1, <4>2
    <3>. QED
      BY <2>2, <3>1, <3>2, <3>3 DEF ClockInv, SettledIsReal
  <2>6. ASSUME NEW slope \in Slopes, SafeTick, Advance(slope) PROVE ClockInv'
    <3>. DEFINE driving == step # None /\ step.phase = "driven"
                since == IF driving THEN SettledSince(slope) ELSE None
    <3>1. lag <= Grace /\ quiet' = Quiet(slope) /\ sizing \in Sizing
      BY <2>6 DEF SafeTick, Advance, SizingOK
    <3>2. CASE /\ driving /\ Settles(step, since) /\ report' = Report(step)
               /\ Approach(None, None, AfterSettle(sizing, step))
      <4>1. AfterSettle(sizing, step) \in Sizing
        BY <2>1, <3>1, <3>2, AfterSettleIs DEF MotionOK
      <4>2. DriveClock'
        BY <2>1, <3>1, <3>2, <4>1, ApproachClock
      <4>3. settledFor' = None
        BY <3>2 DEF Approach, Waits, Stopped, Confirm, Issue, Begins
      <4>4. SettledIsReal'
        BY <2>1, <3>1, <3>2, SettlesReally
      <4>. QED
        BY <2>2, <4>2, <4>3, <4>4 DEF ClockInv, FlatSince
    <3>3. CASE Approach(step, since, sizing) /\ report' = None
      <4>1. DriveClock'
        BY <2>1, <3>1, <3>3, ApproachClock
      <4>2. settledFor' = None \/ settledFor' = since
        BY <3>3 DEF Approach, Waits, Stopped, Confirm, Issue, Begins
      <4>3. FlatSince'
        <5>1. CASE settledFor' = None
          BY <5>1 DEF FlatSince
        <5>2. CASE settledFor' # None
          <6>1. settledFor' = SettledSince(slope) /\ SettledSince(slope) # None
            BY <4>2, <5>2
          <6>. QED
            BY <1>1, <2>1, <3>1, <6>1, SettledWhileFlat DEF FlatSince
        <5>. QED
          BY <5>1, <5>2
      <4>. QED
        BY <2>2, <3>3, <4>1, <4>3 DEF ClockInv, SettledIsReal
    <3>. QED
      BY <2>6, <3>2, <3>3, Zenon DEF Advance
  <2>. QED
    BY <1>4, <2>3, <2>4, <2>5, <2>6 DEF Tick, SafeTick
<1>5. CASE Interrupt \/ Reset
  BY <1>2, <1>5 DEF Interrupt, Reset, Stopped
<1>6. CASE SetRate
  BY <1>1, <1>6 DEF SetRate, gas, ClockInv, DriveClock, FlatSince, SettledIsReal
<1>. QED
  BY <1>3, <1>4, <1>5, <1>6 DEF Next

\* A step that counts as settled has arrived, has been driven for its whole ramp (but the
\* grace Control may take to come on) and has been flat for the settle time, however many
\* ticks were blind meanwhile (_update_pending_step and _confirm_staged_rearm).
THEOREM SettledTruly == Spec => []SettledIsReal
<1>1. Init => ClockInv
  BY DEF Init, ClockInv, DriveClock, FlatSince, SettledIsReal
<1>2. ClockInv => SettledIsReal
  BY DEF ClockInv
<1>. QED
  BY <1>1, <1>2, ClockStep, TypesHold, PTL DEF Spec

=============================================================================
